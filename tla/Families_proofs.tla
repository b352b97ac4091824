--------------------------- MODULE Families_proofs ---------------------------
(***************************************************************************)
(* Proofs about families, for every number of characters, places, elders   *)
(* and logins, and in whatever order requests and answers pass each other: *)
(* the account server's list agrees with itself and with its counts, and   *)
(* who has every answer carries the marks of the list.                     *)
(*                                                                         *)
(* A story (Tale) is told of each character that missed no answer: what    *)
(* can be under way for it, given what it carries and what the list shows. *)
(*                                                                         *)
(* And about their gold, for every number of members, orders and amounts:  *)
(* none is made, and what is lost is lost in two ways only.                *)
(***************************************************************************)
EXTENDS Families, FamilyBank, FiniteSetTheorems, SequenceTheorems, WellFoundedInduction, TLAPS

USE FamilyAssumption

----------------------------------------------------------------------------
\* What the variables can be.

Ranked == [who : Folk \cup {NoOne}, flag : Flags, event : BOOLEAN, session : Nat, online : BOOLEAN]
Lists  == [Places -> Ranked]
Families == [used : BOOLEAN, accept : BOOLEAN, num : Int, joined : Int, top : 0..MemberMax, member : Lists]
MarksOf == [index : BOOLEAN, name : BOOLEAN, flag : Flags, slot : Places \cup {-1},
            change : Folk \cup {NoOne}]
Presence == [online : BOOLEAN, barred : BOOLEAN, session : Nat]

OwnRequests == [kind : {"Add", "Join", "Leave", "Del", "Login", "Logout"}, who : Folk, session : Nat]
Orders == [kind : {"MemberJoin"}, who : Folk, slot : Places, result : {"MEMBER", "ELDER"}]
          \cup [kind : {"MemberLeave"}, who : Folk, slot : Places, result : {"NONE"}]
Accepts == [kind : {"Accept"}, who : Folk, slot : {0}, result : BOOLEAN]
Fixes == [kind : {"Fix"}, who : Folk, slot : Places \cup {-1}, result : Nat]
Requests == OwnRequests \cup Orders \cup Accepts \cup Fixes
Answers == [kind : {"Add", "Join", "Leave", "Del", "Login", "Fix"}, who : Folk, session : Nat,
            ok : BOOLEAN, flag : Flags, slot : Places \cup {-1}]

TypeInv ==
    /\ family \in Families
    /\ marks \in [Folk -> MarksOf]
    /\ here \in [Folk -> Presence]
    /\ toAC \in Seq(Requests)
    /\ toGS \in Seq(Answers)
    /\ slips \in Int
    /\ cut \in SUBSET Folk

----------------------------------------------------------------------------
\* What is under way: a message of M, and no message of M after one of N.

Some(q, M) == \E i \in DOMAIN q : q[i] \in M
Upto(q, M, N) == \A i, j \in DOMAIN q : q[i] \in M /\ q[j] \in N => i <= j

\* x is the flag of the last message of M, or d if there is none.
LastIs(q, M, d, x) ==
    \/ d = x /\ ~ Some(q, M)
    \/ \E i \in DOMAIN q : q[i] \in M /\ q[i].flag = x /\ \A j \in DOMAIN q : q[j] \in M => j <= i

\* The first message is taken.
LEMMA SomeTail ==
    ASSUME NEW S, NEW q \in Seq(S), q # <<>>, NEW M
    PROVE  Some(q, M) <=> Head(q) \in M \/ Some(Tail(q), M)
<1>1. /\ Tail(q) \in Seq(S) /\ Len(Tail(q)) = Len(q) - 1 /\ Head(q) = q[1] /\ Len(q) \in Nat \ {0}
      /\ \A i \in 1..Len(Tail(q)) : Tail(q)[i] = q[i + 1]
  BY HeadTailProperties, LenProperties
<1>2. DOMAIN q = 1..Len(q) /\ DOMAIN Tail(q) = 1..Len(Tail(q))
  BY <1>1, LenProperties
<1>3. ASSUME NEW i \in DOMAIN q, q[i] \in M, i # 1 PROVE Some(Tail(q), M)
  <2>1. i - 1 \in DOMAIN Tail(q) /\ Tail(q)[i - 1] = q[i]
    BY <1>1, <1>2, <1>3
  <2> QED BY <2>1, <1>3 DEF Some
<1>4. ASSUME NEW i \in DOMAIN Tail(q), Tail(q)[i] \in M PROVE Some(q, M)
  BY <1>1, <1>2, <1>4 DEF Some
<1>5. 1 \in DOMAIN q
  BY <1>1, <1>2
<1> QED BY <1>1, <1>3, <1>4, <1>5 DEF Some

\* The order of what is left is the order there was; and behind a message of N there is none of M.
LEMMA UptoTail ==
    ASSUME NEW S, NEW q \in Seq(S), q # <<>>, NEW M, NEW N, Upto(q, M, N)
    PROVE  /\ Upto(Tail(q), M, N)
           /\ Head(q) \in N => ~ Some(Tail(q), M)
<1>1. /\ Tail(q) \in Seq(S) /\ Len(Tail(q)) = Len(q) - 1 /\ Head(q) = q[1] /\ Len(q) \in Nat \ {0}
      /\ \A i \in 1..Len(Tail(q)) : Tail(q)[i] = q[i + 1]
  BY HeadTailProperties, LenProperties
<1>2. DOMAIN q = 1..Len(q) /\ DOMAIN Tail(q) = 1..Len(Tail(q))
  BY <1>1, LenProperties
<1>3. ASSUME NEW i \in DOMAIN Tail(q), NEW j \in DOMAIN Tail(q), Tail(q)[i] \in M, Tail(q)[j] \in N
      PROVE  i <= j
  <2>1. i + 1 \in DOMAIN q /\ j + 1 \in DOMAIN q /\ q[i + 1] \in M /\ q[j + 1] \in N
    BY <1>1, <1>2, <1>3
  <2>2. i + 1 <= j + 1
    BY <2>1 DEF Upto
  <2> QED BY <2>2, <1>1, <1>2
<1>4. ASSUME Head(q) \in N, NEW i \in DOMAIN Tail(q), Tail(q)[i] \in M
      PROVE  FALSE
  <2>1. i + 1 \in DOMAIN q /\ 1 \in DOMAIN q /\ q[i + 1] \in M /\ q[1] \in N
    BY <1>1, <1>2, <1>4
  <2>2. i + 1 <= 1
    BY <2>1 DEF Upto
  <2> QED BY <2>2, <1>1, <1>2
<1> QED BY <1>3, <1>4 DEF Upto, Some

\* The last flag is the last one still, or it was that of the message that is taken.
LEMMA LastTail ==
    ASSUME NEW S, NEW q \in Seq(S), q # <<>>, NEW M, NEW d, NEW x, LastIs(q, M, d, x)
    PROVE  LastIs(Tail(q), M, IF Head(q) \in M THEN Head(q).flag ELSE d, x)
<1>1. /\ Tail(q) \in Seq(S) /\ Len(Tail(q)) = Len(q) - 1 /\ Head(q) = q[1] /\ Len(q) \in Nat \ {0}
      /\ \A i \in 1..Len(Tail(q)) : Tail(q)[i] = q[i + 1]
  BY HeadTailProperties, LenProperties
<1>2. DOMAIN q = 1..Len(q) /\ DOMAIN Tail(q) = 1..Len(Tail(q))
  BY <1>1, LenProperties
<1>3. CASE ~ Some(q, M)
  BY <1>3, SomeTail DEF LastIs, Some
<1>4. ASSUME NEW i \in DOMAIN q, q[i] \in M, q[i].flag = x, \A j \in DOMAIN q : q[j] \in M => j <= i
      PROVE  LastIs(Tail(q), M, IF Head(q) \in M THEN Head(q).flag ELSE d, x)
  <2>1. CASE i = 1
    <3>1. ASSUME NEW j \in DOMAIN Tail(q), Tail(q)[j] \in M PROVE FALSE
      <4>1. j + 1 \in DOMAIN q /\ q[j + 1] \in M /\ j + 1 > 1
        BY <1>1, <1>2, <3>1
      <4> QED BY <4>1, <1>4, <2>1
    <3> QED BY <3>1, <2>1, <1>4, <1>1 DEF LastIs, Some
  <2>2. CASE i # 1
    <3>1. i - 1 \in DOMAIN Tail(q) /\ Tail(q)[i - 1] = q[i]
      BY <1>1, <1>2, <2>2
    <3>2. ASSUME NEW j \in DOMAIN Tail(q), Tail(q)[j] \in M PROVE j <= i - 1
      <4>1. j + 1 \in DOMAIN q /\ q[j + 1] \in M
        BY <1>1, <1>2, <3>2
      <4>2. j + 1 <= i
        BY <4>1, <1>4
      <4> QED BY <4>2, <1>1, <1>2
    <3> QED BY <3>1, <3>2, <1>4 DEF LastIs
  <2> QED BY <2>1, <2>2
<1> QED BY <1>3, <1>4 DEF LastIs

\* Messages are put at the end.
LEMMA Joints ==
    ASSUME NEW S, NEW q \in Seq(S), NEW r \in Seq(S)
    PROVE  /\ q \o r \in Seq(S)
           /\ \A i \in DOMAIN q : i \in DOMAIN (q \o r) /\ (q \o r)[i] = q[i]
           /\ \A i \in DOMAIN r : i + Len(q) \in DOMAIN (q \o r) /\ (q \o r)[i + Len(q)] = r[i]
           /\ \A i \in DOMAIN (q \o r) :
                  \/ i \in DOMAIN q /\ (q \o r)[i] = q[i]
                  \/ i - Len(q) \in DOMAIN r /\ (q \o r)[i] = r[i - Len(q)]
<1>1. q \o r \in Seq(S) /\ Len(q \o r) = Len(q) + Len(r) /\ Len(q) \in Nat /\ Len(r) \in Nat
      /\ \A i \in 1 .. Len(q) + Len(r) : (q \o r)[i] = IF i <= Len(q) THEN q[i] ELSE r[i - Len(q)]
  BY ConcatProperties, LenProperties
<1>2. DOMAIN (q \o r) = 1..(Len(q) + Len(r)) /\ DOMAIN q = 1..Len(q) /\ DOMAIN r = 1..Len(r)
  BY <1>1, LenProperties
<1> DEFINE qr == q \o r
<1> HIDE DEF qr
<1>3. DOMAIN qr = 1..(Len(q) + Len(r)) /\ \A i \in 1 .. Len(q) + Len(r) : qr[i] = IF i <= Len(q) THEN q[i] ELSE r[i - Len(q)]
  BY <1>1, <1>2 DEF qr
<1>4. /\ \A i \in DOMAIN q : i \in DOMAIN qr /\ qr[i] = q[i]
      /\ \A i \in DOMAIN r : i + Len(q) \in DOMAIN qr /\ qr[i + Len(q)] = r[i]
      /\ \A i \in DOMAIN qr :
                  \/ i \in DOMAIN q /\ qr[i] = q[i]
                  \/ i - Len(q) \in DOMAIN r /\ qr[i] = r[i - Len(q)]
  BY <1>1, <1>2, <1>3
<1>5. qr \in Seq(S)
  BY <1>1 DEF qr
<1>6. qr = q \o r
  BY DEF qr
<1> QED BY <1>4, <1>5, <1>6

\* What is in one of two streams is in both together.
LEMMA SomeCat ==
    ASSUME NEW S, NEW q \in Seq(S), NEW r \in Seq(S), NEW M
    PROVE  Some(q \o r, M) <=> Some(q, M) \/ Some(r, M)
<1> DEFINE qr == q \o r
<1>1. /\ \A i \in DOMAIN qr :
                  \/ i \in DOMAIN q /\ qr[i] = q[i]
                  \/ i - Len(q) \in DOMAIN r /\ qr[i] = r[i - Len(q)]
      /\ \A i \in DOMAIN q : i \in DOMAIN qr /\ qr[i] = q[i]
      /\ \A i \in DOMAIN r : i + Len(q) \in DOMAIN qr /\ qr[i + Len(q)] = r[i]
  BY Joints
<1> HIDE DEF qr
<1>2. Some(qr, M) <=> Some(q, M) \/ Some(r, M)
  BY <1>1 DEF Some
<1> QED BY <1>2 DEF qr

\* The order of two streams, if what comes later is not to come before.
LEMMA UptoCat ==
    ASSUME NEW S, NEW q \in Seq(S), NEW r \in Seq(S), NEW M, NEW N,
           Upto(q, M, N), Upto(r, M, N), ~ Some(r, M) \/ ~ Some(q, N)
    PROVE  Upto(q \o r, M, N)
<1> DEFINE qr == q \o r
<1>1. Len(q) \in Nat /\ DOMAIN q = 1..Len(q) /\ DOMAIN r = 1..Len(r) /\ Len(r) \in Nat
  BY LenProperties
<1>2. \A i \in DOMAIN qr :
                  \/ i \in DOMAIN q /\ qr[i] = q[i]
                  \/ i - Len(q) \in DOMAIN r /\ qr[i] = r[i - Len(q)]
  BY Joints
<1>3. DOMAIN qr \subseteq Nat
  <2>1. qr \in Seq(S) /\ DOMAIN qr = 1..Len(qr) /\ Len(qr) \in Nat
    BY Joints, LenProperties
  <2> QED BY <2>1
<1> HIDE DEF qr
<1>4. ASSUME NEW i \in DOMAIN qr, NEW j \in DOMAIN qr, qr[i] \in M, qr[j] \in N
      PROVE  i <= j
  <2>1. CASE i \in DOMAIN q /\ j \in DOMAIN q /\ qr[i] = q[i] /\ qr[j] = q[j]
    BY <2>1, <1>4 DEF Upto
  <2>2. CASE i \in DOMAIN q /\ j - Len(q) \in DOMAIN r
    BY <2>2, <1>1, <1>3
  <2>3. CASE i - Len(q) \in DOMAIN r /\ j \in DOMAIN q /\ qr[i] = r[i - Len(q)] /\ qr[j] = q[j]
    BY <2>3, <1>4 DEF Some
  <2>4. CASE i - Len(q) \in DOMAIN r /\ j - Len(q) \in DOMAIN r /\ qr[i] = r[i - Len(q)] /\ qr[j] = r[j - Len(q)]
    <3>1. i - Len(q) <= j - Len(q)
      BY <2>4, <1>4 DEF Upto
    <3> QED BY <3>1, <1>1, <1>3
  <2> QED BY <2>1, <2>2, <2>3, <2>4, <1>2
<1> QED BY <1>4 DEF Upto, qr

\* The last flag of two streams: that of the second, after that of the first.
LEMMA LastCat ==
    ASSUME NEW S, NEW q \in Seq(S), NEW r \in Seq(S), NEW M, NEW d, NEW x, NEW y,
           LastIs(q, M, d, y), LastIs(r, M, y, x)
    PROVE  LastIs(q \o r, M, d, x)
<1> DEFINE qr == q \o r
<1>1. Len(q) \in Nat /\ DOMAIN q = 1..Len(q) /\ DOMAIN r = 1..Len(r) /\ Len(r) \in Nat
  BY LenProperties
<1>2. /\ \A i \in DOMAIN qr :
                  \/ i \in DOMAIN q /\ qr[i] = q[i]
                  \/ i - Len(q) \in DOMAIN r /\ qr[i] = r[i - Len(q)]
      /\ \A i \in DOMAIN q : i \in DOMAIN qr /\ qr[i] = q[i]
      /\ \A i \in DOMAIN r : i + Len(q) \in DOMAIN qr /\ qr[i + Len(q)] = r[i]
  BY Joints
<1>3. DOMAIN qr \subseteq Nat
  <2>1. qr \in Seq(S) /\ DOMAIN qr = 1..Len(qr) /\ Len(qr) \in Nat
    BY Joints, LenProperties
  <2> QED BY <2>1
<1>4. Some(qr, M) <=> Some(q, M) \/ Some(r, M)
  BY SomeCat
<1> HIDE DEF qr
<1>5. CASE y = x /\ ~ Some(r, M)
  <2>1. CASE d = y /\ ~ Some(q, M)
    BY <2>1, <1>5, <1>4 DEF LastIs, qr
  <2>2. ASSUME NEW i \in DOMAIN q, q[i] \in M, q[i].flag = y, \A j \in DOMAIN q : q[j] \in M => j <= i
        PROVE  LastIs(qr, M, d, x)
    <3>1. i \in DOMAIN qr /\ qr[i] \in M /\ qr[i].flag = x
      BY <2>2, <1>2, <1>5
    <3>2. ASSUME NEW j \in DOMAIN qr, qr[j] \in M PROVE j <= i
      BY <3>2, <2>2, <1>2, <1>5 DEF Some
    <3> QED BY <3>1, <3>2 DEF LastIs
  <2> QED BY <2>1, <2>2 DEF LastIs, qr
<1>6. ASSUME NEW i \in DOMAIN r, r[i] \in M, r[i].flag = x, \A j \in DOMAIN r : r[j] \in M => j <= i
      PROVE  LastIs(qr, M, d, x)
  <2>1. i + Len(q) \in DOMAIN qr /\ qr[i + Len(q)] \in M /\ qr[i + Len(q)].flag = x
    BY <1>6, <1>2
  <2>2. ASSUME NEW j \in DOMAIN qr, qr[j] \in M PROVE j <= i + Len(q)
    <3>1. CASE j \in DOMAIN q
      BY <3>1, <1>1
    <3>2. CASE j - Len(q) \in DOMAIN r /\ qr[j] = r[j - Len(q)]
      <4>1. j - Len(q) <= i
        BY <3>2, <2>2, <1>6
      <4> QED BY <4>1, <1>1, <1>3
    <3> QED BY <3>1, <3>2, <1>2
  <2> QED BY <2>1, <2>2 DEF LastIs
<1> QED BY <1>5, <1>6 DEF LastIs, qr

\* One message; it is put at the end.
LEMMA One ==
    ASSUME NEW S, NEW x \in S, NEW M, NEW N, NEW d
    PROVE  /\ <<x>> \in Seq(S)
           /\ Some(<<x>>, M) <=> x \in M
           /\ Upto(<<x>>, M, N)
           /\ x \in M => LastIs(<<x>>, M, d, x.flag)
           /\ x \notin M => LastIs(<<x>>, M, d, d)
<1>1. DOMAIN <<x>> = {1} /\ <<x>>[1] = x
  OBVIOUS
<1> QED BY <1>1 DEF Some, Upto, LastIs

\* No message at all.
LEMMA NothingSent ==
    ASSUME NEW M, NEW N, NEW d
    PROVE  ~ Some(<<>>, M) /\ Upto(<<>>, M, N) /\ LastIs(<<>>, M, d, d)
BY DEF Some, Upto, LastIs

\* A set of messages that is a part of one of which there is none.
LEMMA SomePart ==
    ASSUME NEW q, NEW M, NEW N, M \subseteq N
    PROVE  Some(q, M) => Some(q, N)
BY DEF Some

\* There is nothing to be in order.
LEMMA UptoNone ==
    ASSUME NEW q, NEW M, NEW N, ~ Some(q, M) \/ ~ Some(q, N)
    PROVE  Upto(q, M, N)
BY DEF Some, Upto

----------------------------------------------------------------------------
\* The messages of one character p, and those of its session n.

Ask(p) == [kind : {"Add", "Join"}, who : {p}, session : Nat]
AskNow(p, n) == [kind : {"Add", "Join"}, who : {p}, session : {n}]
AddReq(p) == [kind : {"Add"}, who : {p}, session : Nat]
AddOld(p, n) == [kind : {"Add"}, who : {p}, session : Nat \ {n}]
LoginReq(p, n) == [kind : {"Login"}, who : {p}, session : {n}]
Door(p) == [kind : {"Login", "Logout"}, who : {p}, session : Nat]
Old(p, n) == [kind : {"Add", "Join", "Login"}, who : {p}, session : Nat \ {n}]
             \cup [kind : {"Logout"}, who : {p}, session : Nat]
LaterReq(p, n) == [kind : {"Add", "Join", "Login"}, who : {p}, session : {k \in Nat : k > n}]
Asks(p) == Ask(p) \cup Door(p)

Ans(p, kinds, sessions, oks) ==
    [kind : kinds, who : {p}, session : sessions, ok : oks, flag : Flags, slot : Places \cup {-1}]
Refusal(p, n) == Ans(p, {"Add", "Join"}, {n}, {FALSE})
Founded(p, n) == Ans(p, {"Add"}, {n}, BOOLEAN)
Verdict(p, n) == Refusal(p, n) \cup Founded(p, n)
Tell(p, n) == Ans(p, {"Login"}, {n}, BOOLEAN)
Clear(p, n) == Ans(p, {"Login"}, {n}, {FALSE})
LaterAns(p, n) == Ans(p, {"Login", "Add", "Join"}, {k \in Nat : k > n}, BOOLEAN)
Told(p, n) == Verdict(p, n) \cup Tell(p, n) \cup LaterAns(p, n)

\* Which sets of requests of p are parts of which.
LEMMA AskParts ==
    ASSUME NEW p \in Folk, NEW n \in Nat
    PROVE  /\ Ask(p) \in SUBSET Asks(p) /\ AskNow(p, n) \in SUBSET Ask(p) /\ AddReq(p) \in SUBSET Ask(p)
           /\ AddOld(p, n) \in SUBSET AddReq(p) /\ LoginReq(p, n) \in SUBSET Door(p)
           /\ Door(p) \in SUBSET Asks(p) /\ Old(p, n) \in SUBSET Asks(p) /\ LaterReq(p, n) \in SUBSET Asks(p)
           /\ AskNow(p, n) \in SUBSET Asks(p) /\ AddReq(p) \in SUBSET Asks(p)
           /\ AddOld(p, n) \in SUBSET Asks(p) /\ LoginReq(p, n) \in SUBSET Asks(p)
<1>1. AskNow(p, n) \in SUBSET Ask(p) /\ AddReq(p) \in SUBSET Ask(p)
  BY DEF Ask, AskNow, AddReq
<1>2. AddOld(p, n) \in SUBSET AddReq(p) /\ LoginReq(p, n) \in SUBSET Door(p)
  BY DEF AddOld, AddReq, LoginReq, Door
<1>3. Ask(p) \in SUBSET Asks(p) /\ Door(p) \in SUBSET Asks(p)
  BY DEF Asks
<1>4. Old(p, n) \in SUBSET Asks(p)
  BY DEF Asks, Old, Ask, Door
<1>5. LaterReq(p, n) \in SUBSET Asks(p)
  BY DEF Asks, LaterReq, Ask, Door
<1> QED BY <1>1, <1>2, <1>3, <1>4, <1>5

\* Which sets of answers to p are parts of which.
LEMMA ToldParts ==
    ASSUME NEW p \in Folk, NEW n \in Nat
    PROVE  /\ Refusal(p, n) \in SUBSET Verdict(p, n) /\ Founded(p, n) \in SUBSET Verdict(p, n)
           /\ Clear(p, n) \in SUBSET Tell(p, n)
           /\ Refusal(p, n) \in SUBSET Told(p, n) /\ Founded(p, n) \in SUBSET Told(p, n)
           /\ Verdict(p, n) \in SUBSET Told(p, n) /\ Clear(p, n) \in SUBSET Told(p, n)
           /\ Tell(p, n) \in SUBSET Told(p, n) /\ LaterAns(p, n) \in SUBSET Told(p, n)
<1>1. Clear(p, n) \in SUBSET Tell(p, n)
  BY DEF Clear, Tell, Ans
<1> QED BY <1>1 DEF Verdict, Told

\* What a request, and an answer, is to its sender and to the others.
LEMMA RequestKinds ==
    ASSUME NEW p \in Folk, NEW n \in Nat, NEW x \in Requests
    PROVE  /\ x.who \in Folk
           /\ x.kind \in {"Add", "Join", "Leave", "Del", "Login", "Logout"} => x.session \in Nat
           /\ x \in Ask(p) <=> x.kind \in {"Add", "Join"} /\ x.who = p
           /\ x \in AskNow(p, n) <=> x.kind \in {"Add", "Join"} /\ x.who = p /\ x.session = n
           /\ x \in AddReq(p) <=> x.kind = "Add" /\ x.who = p
           /\ x \in AddOld(p, n) <=> x.kind = "Add" /\ x.who = p /\ x.session # n
           /\ x \in LoginReq(p, n) <=> x.kind = "Login" /\ x.who = p /\ x.session = n
           /\ x \in Door(p) <=> x.kind \in {"Login", "Logout"} /\ x.who = p
           /\ x \in Old(p, n) <=> \/ x.kind \in {"Add", "Join", "Login"} /\ x.who = p /\ x.session # n
                                  \/ x.kind = "Logout" /\ x.who = p
           /\ x \in LaterReq(p, n) <=> x.kind \in {"Add", "Join", "Login"} /\ x.who = p /\ x.session > n
           /\ x \in Asks(p) <=> x.kind \in {"Add", "Join", "Login", "Logout"} /\ x.who = p
<1>1. CASE x \in OwnRequests
  BY <1>1 DEF OwnRequests, Ask, AskNow, AddReq, AddOld, LoginReq, Door, Old, LaterReq, Asks
<1>2. CASE x \in Orders \cup Accepts \cup Fixes
  <2>1. x.who \in Folk /\ x.kind \in {"MemberLeave", "MemberJoin", "Accept", "Fix"}
    BY <1>2 DEF Orders, Accepts, Fixes
  <2>2. x \notin Asks(p)
    BY <2>1 DEF Asks, Ask, Door
  <2> QED BY <2>1, <2>2, AskParts
<1> QED BY <1>1, <1>2 DEF Requests

\* The sets of answers, by the kind, the session and the result of an answer.
LEMMA AnswerKinds ==
    ASSUME NEW p \in Folk, NEW n \in Nat, NEW x \in Answers
    PROVE  /\ x \in Refusal(p, n) <=> x.kind \in {"Add", "Join"} /\ x.who = p /\ x.session = n /\ ~ x.ok
           /\ x \in Founded(p, n) <=> x.kind = "Add" /\ x.who = p /\ x.session = n
           /\ x \in Verdict(p, n) <=> /\ x.who = p /\ x.session = n
                                      /\ x.kind = "Add" \/ (x.kind = "Join" /\ ~ x.ok)
           /\ x \in Tell(p, n) <=> x.kind = "Login" /\ x.who = p /\ x.session = n
           /\ x \in Clear(p, n) <=> x.kind = "Login" /\ x.who = p /\ x.session = n /\ ~ x.ok
           /\ x \in LaterAns(p, n) <=> x.kind \in {"Login", "Add", "Join"} /\ x.who = p /\ x.session > n
           /\ x \in Told(p, n) <=> \/ x \in Verdict(p, n) \/ x \in Tell(p, n)
                                   \/ x.kind \in {"Login", "Add", "Join"} /\ x.who = p /\ x.session > n
<1>1. x \in Refusal(p, n) <=> x.kind \in {"Add", "Join"} /\ x.who = p /\ x.session = n /\ ~ x.ok
  BY DEF Answers, Refusal, Ans
<1>2. x \in Founded(p, n) <=> x.kind = "Add" /\ x.who = p /\ x.session = n
  BY DEF Answers, Founded, Ans
<1>3. x \in Tell(p, n) <=> x.kind = "Login" /\ x.who = p /\ x.session = n
  BY DEF Answers, Tell, Ans
<1>4. x \in Clear(p, n) <=> x.kind = "Login" /\ x.who = p /\ x.session = n /\ ~ x.ok
  BY DEF Answers, Clear, Ans
<1>5. x \in LaterAns(p, n) <=> x.kind \in {"Login", "Add", "Join"} /\ x.who = p /\ x.session > n
  BY DEF Answers, LaterAns, Ans
<1> HIDE FamilyAssumption
<1> QED BY <1>1, <1>2, <1>3, <1>4, <1>5 DEF Verdict, Told

----------------------------------------------------------------------------
\* The story of a character p that missed no answer: m are its marks, n its
\* session, mem the list, ac the requests and gs the answers under way.

In(mem, p) == \E s \in Places : mem[s].who = p
Alone(p, mem) == \A s, t \in Places : mem[s].who = p /\ mem[t].who = p => s = t

Past(p, n, mem, ac, gs) ==
    /\ ~ Some(ac, LaterReq(p, n)) /\ ~ Some(gs, LaterAns(p, n))
    /\ \A s \in Places : mem[s].who = p => mem[s].session <= n

FreeTale(p, m, n, mem, ac, gs) ==
    /\ m.index => m.name
    /\ ~ m.name => /\ ~ Some(ac, Ask(p)) /\ ~ Some(ac, Door(p))
                   /\ ~ Some(gs, Verdict(p, n)) /\ ~ Some(gs, Tell(p, n)) /\ ~ In(mem, p)

AskTale(p, m, n, mem, ac, gs) ==
    /\ Some(ac, Ask(p)) => ~ Some(gs, Verdict(p, n)) /\ ~ Some(gs, Tell(p, n)) /\ ~ In(mem, p)
    /\ Upto(ac, Ask(p), Ask(p)) /\ Upto(ac, Ask(p), LoginReq(p, n))
    /\ ~ Some(ac, AddOld(p, n))
    /\ Some(ac, AddReq(p)) => ~ m.index /\ m.flag = "LEADER"

LoginTale(p, m, n, mem, ac, gs) ==
    /\ Upto(ac, LoginReq(p, n), LoginReq(p, n))
    /\ Some(ac, LoginReq(p, n)) =>
          /\ m.index /\ ~ Some(ac, AskNow(p, n))
          /\ ~ Some(gs, Verdict(p, n)) /\ ~ Some(gs, Tell(p, n))
          /\ \A s \in Places : mem[s].who = p => ~ (mem[s].online /\ mem[s].session = n)

AnswerTale(p, n, mem, gs) ==
    /\ Upto(gs, Verdict(p, n), Verdict(p, n)) /\ Upto(gs, Verdict(p, n), Clear(p, n))
    /\ Upto(gs, Tell(p, n), Clear(p, n))
    /\ Some(gs, Refusal(p, n)) => ~ In(mem, p) /\ ~ Some(gs, Tell(p, n))
    /\ Some(gs, Clear(p, n)) => ~ In(mem, p)

OnlineTale(p, m, n, mem, ac, gs) ==
    /\ Some(ac, Old(p, n)) => Some(ac, LoginReq(p, n))
    /\ Upto(ac, Old(p, n), LoginReq(p, n))
    /\ m.name /\ ~ m.index => Some(ac, AddReq(p)) \/ Some(gs, Founded(p, n))
    /\ m.name /\ ~ In(mem, p) => \/ Some(ac, Ask(p)) \/ Some(ac, LoginReq(p, n))
                                 \/ Some(gs, Refusal(p, n)) \/ Some(gs, Clear(p, n))
    /\ \A s \in Places : mem[s].who = p /\ ~ Some(ac, LoginReq(p, n)) =>
          mem[s].online /\ mem[s].session = n /\ LastIs(gs, Tell(p, n), m.flag, mem[s].flag)

Tale(p, m, n, on, mem, ac, gs) ==
    /\ Alone(p, mem) /\ Past(p, n, mem, ac, gs)
    /\ FreeTale(p, m, n, mem, ac, gs) /\ AskTale(p, m, n, mem, ac, gs)
    /\ LoginTale(p, m, n, mem, ac, gs) /\ AnswerTale(p, n, mem, gs)
    /\ on => OnlineTale(p, m, n, mem, ac, gs)

\* Requests that are not those of p come and go.
LEMMA OtherRequests ==
    ASSUME NEW p \in Folk, NEW m \in MarksOf, NEW n \in Nat, NEW on \in BOOLEAN, NEW mem \in Lists,
           NEW ac, NEW ac2, NEW gs,
           \A M \in SUBSET Asks(p) : Some(ac2, M) <=> Some(ac, M),
           \A M, N \in SUBSET Asks(p) : Upto(ac, M, N) => Upto(ac2, M, N),
           Tale(p, m, n, on, mem, ac, gs)
    PROVE  Tale(p, m, n, on, mem, ac2, gs)
<1>1. Past(p, n, mem, ac2, gs)
  BY AskParts DEF Tale, Past
<1>2. FreeTale(p, m, n, mem, ac2, gs)
  BY AskParts DEF Tale, FreeTale
<1>3. AskTale(p, m, n, mem, ac2, gs)
  BY AskParts DEF Tale, AskTale
<1>4. LoginTale(p, m, n, mem, ac2, gs)
  BY AskParts DEF Tale, LoginTale
<1>5. on => OnlineTale(p, m, n, mem, ac2, gs)
  BY AskParts DEF Tale, OnlineTale
<1> QED BY <1>1, <1>2, <1>3, <1>4, <1>5 DEF Tale

\* A message is put at the end: what is under way then.
LEMMA SomeAppend ==
    ASSUME NEW S, NEW q \in Seq(S), NEW x \in S, NEW M
    PROVE  /\ Append(q, x) \in Seq(S)
           /\ Some(Append(q, x), M) <=> Some(q, M) \/ x \in M
<1> DEFINE r == <<x>>
           qr == q \o r
           qa == Append(q, x)
<1>1. qa = qr
  BY AppendIsConcat
<1>2. r \in Seq(S) /\ (Some(r, M) <=> x \in M)
  BY One
<1> HIDE DEF r
<1>3. qr \in Seq(S) /\ (Some(qr, M) <=> Some(q, M) \/ Some(r, M))
  BY <1>2, SomeCat, Joints
<1> HIDE DEF qr, qa
<1>4. qa \in Seq(S) /\ (Some(qa, M) <=> Some(q, M) \/ x \in M)
  BY <1>1, <1>2, <1>3
<1> QED BY <1>4 DEF qa

\* A message is put at the end: the order.
LEMMA UptoAppend ==
    ASSUME NEW S, NEW q \in Seq(S), NEW x \in S, NEW M, NEW N, Upto(q, M, N), x \notin M \/ ~ Some(q, N)
    PROVE  Upto(Append(q, x), M, N)
<1> DEFINE r == <<x>>
           qr == q \o r
           qa == Append(q, x)
<1>1. qa = qr
  BY AppendIsConcat
<1>2. r \in Seq(S) /\ Upto(r, M, N) /\ (Some(r, M) <=> x \in M)
  BY One
<1> HIDE DEF r
<1>3. Upto(qr, M, N)
  BY <1>2, UptoCat
<1> HIDE DEF qr, qa
<1>4. Upto(qa, M, N)
  BY <1>1, <1>3
<1> QED BY <1>4 DEF qa

\* A message is put at the end: the last flag.
LEMMA LastAppend ==
    ASSUME NEW S, NEW q \in Seq(S), NEW x \in S, NEW M, NEW d, NEW y, LastIs(q, M, d, y)
    PROVE  LastIs(Append(q, x), M, d, IF x \in M THEN x.flag ELSE y)
<1> DEFINE r == <<x>>
           qr == q \o r
           qa == Append(q, x)
           z == IF x \in M THEN x.flag ELSE y
<1>1. qa = qr
  BY AppendIsConcat
<1>2. r \in Seq(S) /\ LastIs(r, M, y, z)
  BY One
<1> HIDE DEF r, z
<1>3. LastIs(qr, M, d, z)
  BY <1>2, LastCat
<1> HIDE DEF qr, qa
<1>4. LastIs(qa, M, d, z)
  BY <1>1, <1>3
<1> QED BY <1>4 DEF qa, z

\* A request that p does not look at is put at the end.
LEMMA PutOther ==
    ASSUME NEW p \in Folk, NEW m \in MarksOf, NEW n \in Nat, NEW on \in BOOLEAN, NEW mem \in Lists,
           NEW ac \in Seq(Requests), NEW gs, NEW x \in Requests, x \notin Asks(p),
           Tale(p, m, n, on, mem, ac, gs)
    PROVE  Tale(p, m, n, on, mem, Append(ac, x), gs)
<1>1. ASSUME NEW M \in SUBSET Asks(p) PROVE Some(Append(ac, x), M) <=> Some(ac, M)
  BY <1>1, SomeAppend
<1>2. ASSUME NEW M \in SUBSET Asks(p), NEW N \in SUBSET Asks(p), Upto(ac, M, N) PROVE Upto(Append(ac, x), M, N)
  BY <1>2, UptoAppend
<1> QED BY <1>1, <1>2, OtherRequests

\* A request that p does not look at is taken.
LEMMA TakeOther ==
    ASSUME NEW p \in Folk, NEW m \in MarksOf, NEW n \in Nat, NEW on \in BOOLEAN, NEW mem \in Lists,
           NEW ac \in Seq(Requests), NEW gs, ac # <<>>, Head(ac) \notin Asks(p),
           Tale(p, m, n, on, mem, ac, gs)
    PROVE  Tale(p, m, n, on, mem, Tail(ac), gs)
<1>1. ASSUME NEW M \in SUBSET Asks(p) PROVE Some(Tail(ac), M) <=> Some(ac, M)
  BY <1>1, SomeTail
<1>2. ASSUME NEW M \in SUBSET Asks(p), NEW N \in SUBSET Asks(p), Upto(ac, M, N) PROVE Upto(Tail(ac), M, N)
  BY <1>2, UptoTail
<1> QED BY <1>1, <1>2, OtherRequests

\* Answers that p does not look at come and go.
LEMMA OtherAnswers ==
    ASSUME NEW p \in Folk, NEW m \in MarksOf, NEW n \in Nat, NEW on \in BOOLEAN, NEW mem \in Lists,
           NEW ac, NEW gs, NEW gs2,
           \A M \in SUBSET Told(p, n) : Some(gs2, M) <=> Some(gs, M),
           \A M, N \in SUBSET Told(p, n) : Upto(gs, M, N) => Upto(gs2, M, N),
           \A d, x \in Flags : LastIs(gs, Tell(p, n), d, x) => LastIs(gs2, Tell(p, n), d, x),
           Tale(p, m, n, on, mem, ac, gs)
    PROVE  Tale(p, m, n, on, mem, ac, gs2)
<1>1. Past(p, n, mem, ac, gs2)
  BY ToldParts DEF Tale, Past
<1>2. FreeTale(p, m, n, mem, ac, gs2)
  BY ToldParts DEF Tale, FreeTale
<1>3. AskTale(p, m, n, mem, ac, gs2)
  BY ToldParts DEF Tale, AskTale
<1>4. LoginTale(p, m, n, mem, ac, gs2)
  BY ToldParts DEF Tale, LoginTale
<1>5. AnswerTale(p, n, mem, gs2)
  BY ToldParts DEF Tale, AnswerTale
<1>6. on => OnlineTale(p, m, n, mem, ac, gs2)
  <2>1. m.flag \in Flags /\ \A s \in Places : mem[s].flag \in Flags
    BY DEF MarksOf, Lists, Ranked
  <2> QED BY <2>1, ToldParts DEF Tale, OnlineTale
<1> QED BY <1>1, <1>2, <1>3, <1>4, <1>5, <1>6 DEF Tale

\* Answers that p does not look at are put at the end.
LEMMA ReplyOther ==
    ASSUME NEW p \in Folk, NEW m \in MarksOf, NEW n \in Nat, NEW on \in BOOLEAN, NEW mem \in Lists,
           NEW ac, NEW gs \in Seq(Answers), NEW r \in Seq(Answers), ~ Some(r, Told(p, n)),
           Tale(p, m, n, on, mem, ac, gs)
    PROVE  Tale(p, m, n, on, mem, ac, gs \o r)
<1>1. ASSUME NEW M \in SUBSET Told(p, n) PROVE ~ Some(r, M)
  BY <1>1 DEF Some
<1>2. ASSUME NEW M \in SUBSET Told(p, n) PROVE Some(gs \o r, M) <=> Some(gs, M)
  BY <1>1, SomeCat
<1>3. ASSUME NEW M \in SUBSET Told(p, n), NEW N \in SUBSET Told(p, n), Upto(gs, M, N) PROVE Upto(gs \o r, M, N)
  <2>1. ~ Some(r, M) /\ Upto(r, M, N)
    BY <1>1, UptoNone
  <2> QED BY <2>1, <1>3, UptoCat
<1>4. ASSUME NEW d \in Flags, NEW x \in Flags, LastIs(gs, Tell(p, n), d, x) PROVE LastIs(gs \o r, Tell(p, n), d, x)
  <2>1. LastIs(r, Tell(p, n), x, x)
    BY <1>1, ToldParts DEF LastIs
  <2> QED BY <2>1, <1>4, LastCat
<1> QED BY <1>2, <1>3, <1>4, OtherAnswers

\* An answer that p does not look at is taken.
LEMMA ArriveOther ==
    ASSUME NEW p \in Folk, NEW m \in MarksOf, NEW n \in Nat, NEW on \in BOOLEAN, NEW mem \in Lists,
           NEW ac, NEW gs \in Seq(Answers), gs # <<>>, Head(gs) \notin Told(p, n),
           Tale(p, m, n, on, mem, ac, gs)
    PROVE  Tale(p, m, n, on, mem, ac, Tail(gs))
<1>1. ASSUME NEW M \in SUBSET Told(p, n) PROVE Some(Tail(gs), M) <=> Some(gs, M)
  BY <1>1, SomeTail
<1>2. ASSUME NEW M \in SUBSET Told(p, n), NEW N \in SUBSET Told(p, n), Upto(gs, M, N) PROVE Upto(Tail(gs), M, N)
  BY <1>2, UptoTail
<1>3. ASSUME NEW d \in Flags, NEW x \in Flags, LastIs(gs, Tell(p, n), d, x) PROVE LastIs(Tail(gs), Tell(p, n), d, x)
  <2>1. Head(gs) \notin Tell(p, n)
    BY ToldParts
  <2> QED BY <2>1, <1>3, LastTail
<1> QED BY <1>1, <1>2, <1>3, OtherAnswers

\* The places of others change hands.
LEMMA OtherPlaces ==
    ASSUME NEW p \in Folk, NEW m \in MarksOf, NEW n \in Nat, NEW on \in BOOLEAN, NEW mem \in Lists, NEW mem2 \in Lists,
           NEW ac, NEW gs,
           \A s \in Places : mem[s].who = p \/ mem2[s].who = p => mem2[s] = mem[s],
           Tale(p, m, n, on, mem, ac, gs)
    PROVE  Tale(p, m, n, on, mem2, ac, gs)
<1>1. In(mem2, p) <=> In(mem, p)
  BY DEF In
<1>2. Alone(p, mem2) /\ Past(p, n, mem2, ac, gs)
  BY DEF Tale, Alone, Past
<1>3. FreeTale(p, m, n, mem2, ac, gs) /\ AskTale(p, m, n, mem2, ac, gs)
  BY <1>1 DEF Tale, FreeTale, AskTale
<1>4. LoginTale(p, m, n, mem2, ac, gs) /\ AnswerTale(p, n, mem2, gs)
  BY <1>1 DEF Tale, LoginTale, AnswerTale
<1>5. on => OnlineTale(p, m, n, mem2, ac, gs)
  BY <1>1 DEF Tale, OnlineTale
<1> QED BY <1>2, <1>3, <1>4, <1>5 DEF Tale

\* Marks that are not of the family change.
LEMMA OtherMarks ==
    ASSUME NEW p \in Folk, NEW m \in MarksOf, NEW m2 \in MarksOf, NEW n \in Nat, NEW on \in BOOLEAN, NEW mem \in Lists,
           NEW ac, NEW gs, m2.index = m.index, m2.name = m.name, m2.flag = m.flag,
           Tale(p, m, n, on, mem, ac, gs)
    PROVE  Tale(p, m2, n, on, mem, ac, gs)
<1>1. FreeTale(p, m2, n, mem, ac, gs)
  BY DEF Tale, FreeTale
<1>2. AskTale(p, m2, n, mem, ac, gs)
  BY DEF Tale, AskTale
<1>3. LoginTale(p, m2, n, mem, ac, gs)
  BY DEF Tale, LoginTale
<1>4. on => OnlineTale(p, m2, n, mem, ac, gs)
  BY DEF Tale, OnlineTale
<1> QED BY <1>1, <1>2, <1>3, <1>4 DEF Tale

----------------------------------------------------------------------------
\* What is put into a queue, and what is taken from it, as p sees it.

Puts(p, ac, x, ac2) ==
    /\ \A M \in SUBSET Asks(p) : Some(ac2, M) <=> Some(ac, M) \/ x \in M
    /\ \A M, N \in SUBSET Asks(p) : Upto(ac, M, N) /\ (x \notin M \/ ~ Some(ac, N)) => Upto(ac2, M, N)

Takes(p, ac, x, ac2) ==
    /\ \A M \in SUBSET Asks(p) : Some(ac, M) <=> x \in M \/ Some(ac2, M)
    /\ \A M, N \in SUBSET Asks(p) :
           Upto(ac, M, N) => Upto(ac2, M, N) /\ (x \in N => ~ Some(ac2, M))

Says(p, n, gs, r, gs2) ==
    /\ \A M \in SUBSET Told(p, n) : Some(gs2, M) <=> Some(gs, M) \/ Some(r, M)
    /\ \A M, N \in SUBSET Told(p, n) :
           Upto(gs, M, N) /\ Upto(r, M, N) /\ (~ Some(r, M) \/ ~ Some(gs, N)) => Upto(gs2, M, N)
    /\ \A d, x, y \in Flags :
           LastIs(gs, Tell(p, n), d, y) /\ LastIs(r, Tell(p, n), y, x) => LastIs(gs2, Tell(p, n), d, x)

Hears(p, n, gs, x, gs2) ==
    /\ \A M \in SUBSET Told(p, n) : Some(gs, M) <=> x \in M \/ Some(gs2, M)
    /\ \A M, N \in SUBSET Told(p, n) :
           Upto(gs, M, N) => Upto(gs2, M, N) /\ (x \in N => ~ Some(gs2, M))
    /\ \A d, y \in Flags :
           LastIs(gs, Tell(p, n), d, y) => LastIs(gs2, Tell(p, n), IF x \in Tell(p, n) THEN x.flag ELSE d, y)

\* A request at the end is put, as p sees it.
LEMMA WhenPut ==
    ASSUME NEW p \in Folk, NEW ac \in Seq(Requests), NEW x \in Requests
    PROVE  Puts(p, ac, x, Append(ac, x))
BY SomeAppend, UptoAppend DEF Puts

\* The first request is taken, as p sees it.
LEMMA WhenTaken ==
    ASSUME NEW p \in Folk, NEW ac \in Seq(Requests), ac # <<>>
    PROVE  Takes(p, ac, Head(ac), Tail(ac))
BY SomeTail, UptoTail DEF Takes

\* Answers at the end are said, as p sees it.
LEMMA WhenSaid ==
    ASSUME NEW p \in Folk, NEW n \in Nat, NEW gs \in Seq(Answers), NEW r \in Seq(Answers)
    PROVE  Says(p, n, gs, r, gs \o r)
BY SomeCat, UptoCat, LastCat DEF Says

\* The first answer is heard, as p sees it.
LEMMA WhenHeard ==
    ASSUME NEW p \in Folk, NEW n \in Nat, NEW gs \in Seq(Answers), gs # <<>>
    PROVE  Hears(p, n, gs, Head(gs), Tail(gs))
BY SomeTail, UptoTail, LastTail DEF Hears

----------------------------------------------------------------------------
\* A character asks to found a family, or to join one.
LEMMA Founding ==
    ASSUME NEW p \in Folk, NEW m \in MarksOf, NEW m2 \in MarksOf, NEW n \in Nat, NEW mem \in Lists,
           NEW ac, NEW ac2, NEW gs, NEW x \in Requests,
           Tale(p, m, n, TRUE, mem, ac, gs), Puts(p, ac, x, ac2),
           ~ m.name, m2.name, ~ m2.index, m2.flag = "LEADER",
           x.kind = "Add", x.who = p, x.session = n
    PROVE  Tale(p, m2, n, TRUE, mem, ac2, gs)
<1>1. /\ x \in Ask(p) /\ x \in AskNow(p, n) /\ x \in AddReq(p) /\ x \notin AddOld(p, n)
      /\ x \notin LoginReq(p, n) /\ x \notin Door(p) /\ x \notin Old(p, n) /\ x \notin LaterReq(p, n)
  BY RequestKinds
<1>2. ~ Some(ac, LoginReq(p, n)) /\ ~ Some(ac, Ask(p)) /\ ~ Some(ac, Old(p, n)) /\ ~ Some(gs, Verdict(p, n))
      /\ ~ Some(gs, Tell(p, n)) /\ ~ In(mem, p)
  <2>1. ~ Some(ac, Ask(p)) /\ ~ Some(ac, Door(p)) /\ ~ Some(gs, Verdict(p, n)) /\ ~ Some(gs, Tell(p, n)) /\ ~ In(mem, p)
    BY DEF Tale, FreeTale
  <2>2. ~ Some(ac, LoginReq(p, n))
    BY <2>1, SomePart, AskParts
  <2> QED BY <2>1, <2>2 DEF Tale, OnlineTale
<1>3. Alone(p, mem) /\ Past(p, n, mem, ac2, gs)
  BY <1>1, AskParts DEF Tale, Past, Puts
<1>4. FreeTale(p, m2, n, mem, ac2, gs)
  BY DEF FreeTale
<1>5. AskTale(p, m2, n, mem, ac2, gs)
  <2>1. Upto(ac2, Ask(p), Ask(p)) /\ Upto(ac2, Ask(p), LoginReq(p, n))
    BY <1>1, <1>2, AskParts DEF Tale, AskTale, Puts
  <2>2. ~ Some(ac2, AddOld(p, n))
    BY <1>1, <1>2, AskParts DEF Tale, AskTale, Puts
  <2> QED BY <1>2, <2>1, <2>2 DEF AskTale
<1>6. LoginTale(p, m2, n, mem, ac2, gs)
  BY <1>1, <1>2, AskParts DEF Tale, LoginTale, Puts
<1>7. OnlineTale(p, m2, n, mem, ac2, gs)
  <2>1. Some(ac2, AddReq(p)) /\ Some(ac2, Ask(p)) /\ ~ Some(ac2, Old(p, n)) /\ Upto(ac2, Old(p, n), LoginReq(p, n))
    BY <1>1, <1>2, AskParts DEF Tale, OnlineTale, Puts
  <2> QED BY <2>1, <1>2 DEF OnlineTale, In
<1> QED BY <1>3, <1>4, <1>5, <1>6, <1>7 DEF Tale

\* The same for who asks to join: the marks are complete at once.
LEMMA Joining ==
    ASSUME NEW p \in Folk, NEW m \in MarksOf, NEW m2 \in MarksOf, NEW n \in Nat, NEW mem \in Lists,
           NEW ac, NEW ac2, NEW gs, NEW x \in Requests,
           Tale(p, m, n, TRUE, mem, ac, gs), Puts(p, ac, x, ac2),
           ~ m.name, m2.name, m2.index,
           x.kind = "Join", x.who = p, x.session = n
    PROVE  Tale(p, m2, n, TRUE, mem, ac2, gs)
<1>1. /\ x \in Ask(p) /\ x \in AskNow(p, n) /\ x \notin AddReq(p) /\ x \notin AddOld(p, n)
      /\ x \notin LoginReq(p, n) /\ x \notin Door(p) /\ x \notin Old(p, n) /\ x \notin LaterReq(p, n)
  BY RequestKinds
<1>2. ~ Some(ac, LoginReq(p, n)) /\ ~ Some(ac, Ask(p)) /\ ~ Some(ac, Old(p, n)) /\ ~ Some(gs, Verdict(p, n))
      /\ ~ Some(gs, Tell(p, n)) /\ ~ In(mem, p) /\ ~ Some(ac, AddReq(p))
  <2>1. ~ Some(ac, Ask(p)) /\ ~ Some(ac, Door(p)) /\ ~ Some(gs, Verdict(p, n)) /\ ~ Some(gs, Tell(p, n)) /\ ~ In(mem, p)
    BY DEF Tale, FreeTale
  <2>2. ~ Some(ac, LoginReq(p, n)) /\ ~ Some(ac, AddReq(p))
    BY <2>1, SomePart, AskParts
  <2> QED BY <2>1, <2>2 DEF Tale, OnlineTale
<1>3. Alone(p, mem) /\ Past(p, n, mem, ac2, gs)
  BY <1>1, AskParts DEF Tale, Past, Puts
<1>4. FreeTale(p, m2, n, mem, ac2, gs)
  BY DEF FreeTale
<1>5. AskTale(p, m2, n, mem, ac2, gs)
  <2>1. Upto(ac2, Ask(p), Ask(p)) /\ Upto(ac2, Ask(p), LoginReq(p, n))
    BY <1>1, <1>2, AskParts DEF Tale, AskTale, Puts
  <2>2. ~ Some(ac2, AddOld(p, n)) /\ ~ Some(ac2, AddReq(p))
    BY <1>1, <1>2, AskParts DEF Tale, AskTale, Puts
  <2> QED BY <1>2, <2>1, <2>2 DEF AskTale
<1>6. LoginTale(p, m2, n, mem, ac2, gs)
  BY <1>1, <1>2, AskParts DEF Tale, LoginTale, Puts
<1>7. OnlineTale(p, m2, n, mem, ac2, gs)
  <2>1. Some(ac2, Ask(p)) /\ ~ Some(ac2, Old(p, n)) /\ Upto(ac2, Old(p, n), LoginReq(p, n))
    BY <1>1, <1>2, AskParts DEF Tale, OnlineTale, Puts
  <2> QED BY <2>1, <1>2 DEF OnlineTale, In
<1> QED BY <1>3, <1>4, <1>5, <1>6, <1>7 DEF Tale

\* A character logs in: its session is a new one, which nothing under way is of.
LEMMA NewSession ==
    ASSUME NEW p \in Folk, NEW n \in Nat, NEW mem \in Lists, NEW ac, NEW gs, Past(p, n, mem, ac, gs)
    PROVE  /\ ~ Some(ac, LoginReq(p, n + 1)) /\ ~ Some(ac, AskNow(p, n + 1))
           /\ ~ Some(gs, Verdict(p, n + 1)) /\ ~ Some(gs, Tell(p, n + 1)) /\ ~ Some(gs, Clear(p, n + 1))
           /\ ~ Some(gs, Refusal(p, n + 1))
           /\ Past(p, n + 1, mem, ac, gs)
           /\ \A s \in Places : mem[s].who = p => mem[s].session # n + 1
<1>1. /\ LoginReq(p, n + 1) \subseteq LaterReq(p, n) /\ AskNow(p, n + 1) \subseteq LaterReq(p, n)
      /\ LaterReq(p, n + 1) \subseteq LaterReq(p, n)
  BY DEF LoginReq, LaterReq, AskNow
<1>2. /\ Verdict(p, n + 1) \subseteq LaterAns(p, n) /\ Tell(p, n + 1) \subseteq LaterAns(p, n)
      /\ Clear(p, n + 1) \subseteq LaterAns(p, n) /\ Refusal(p, n + 1) \subseteq LaterAns(p, n)
      /\ LaterAns(p, n + 1) \subseteq LaterAns(p, n)
  <2>1. Refusal(p, n + 1) \subseteq LaterAns(p, n)
    <3> DEFINE S1 == {n + 1}
               S2 == {k \in Nat : k > n}
               O1 == {FALSE}
    <3>1. S1 \subseteq S2 /\ O1 \subseteq BOOLEAN
      OBVIOUS
    <3>2. Refusal(p, n + 1) = Ans(p, {"Add", "Join"}, S1, O1) /\ LaterAns(p, n) = Ans(p, {"Login", "Add", "Join"}, S2, BOOLEAN)
      BY DEF Refusal, LaterAns
    <3> HIDE DEF S1, S2, O1
    <3>3. Ans(p, {"Add", "Join"}, S1, O1) \subseteq Ans(p, {"Login", "Add", "Join"}, S2, BOOLEAN)
      BY <3>1 DEF Ans
    <3> QED BY <3>2, <3>3
  <2>2. Founded(p, n + 1) \subseteq LaterAns(p, n)
    BY DEF Founded, LaterAns, Ans
  <2>3. Tell(p, n + 1) \subseteq LaterAns(p, n)
    BY DEF Tell, LaterAns, Ans
  <2>4. LaterAns(p, n + 1) \subseteq LaterAns(p, n)
    BY DEF LaterAns, Ans
  <2>5. Clear(p, n + 1) \subseteq Tell(p, n + 1)
    BY ToldParts
  <2> QED BY <2>1, <2>2, <2>3, <2>4, <2>5 DEF Verdict
<1>3. \A s \in Places : mem[s].who = p => mem[s].session # n + 1 /\ mem[s].session <= n + 1
  BY DEF Past, Lists, Ranked
<1>4. ~ Some(ac, LaterReq(p, n)) /\ ~ Some(gs, LaterAns(p, n))
  BY DEF Past
<1>5. /\ ~ Some(ac, LoginReq(p, n + 1)) /\ ~ Some(ac, AskNow(p, n + 1)) /\ ~ Some(ac, LaterReq(p, n + 1))
  BY <1>1, <1>4, SomePart
<1>6. /\ ~ Some(gs, Verdict(p, n + 1)) /\ ~ Some(gs, Tell(p, n + 1)) /\ ~ Some(gs, Clear(p, n + 1))
      /\ ~ Some(gs, Refusal(p, n + 1)) /\ ~ Some(gs, LaterAns(p, n + 1))
  BY <1>2, <1>4, SomePart
<1> QED BY <1>3, <1>5, <1>6 DEF Past

\* A character without marks logs in: what it missed is over.
LEMMA LogsInFree ==
    ASSUME NEW p \in Folk, NEW m \in MarksOf, NEW m2 \in MarksOf, NEW n \in Nat, NEW mem \in Lists,
           NEW ac, NEW gs, NEW on \in BOOLEAN,
           Tale(p, m, n, on, mem, ac, gs), ~ m.name, ~ m2.name, ~ m2.index
    PROVE  Tale(p, m2, n + 1, TRUE, mem, ac, gs)
<1>1. /\ ~ Some(ac, LoginReq(p, n + 1)) /\ ~ Some(ac, AskNow(p, n + 1))
      /\ ~ Some(gs, Verdict(p, n + 1)) /\ ~ Some(gs, Tell(p, n + 1)) /\ ~ Some(gs, Clear(p, n + 1))
      /\ ~ Some(gs, Refusal(p, n + 1)) /\ Past(p, n + 1, mem, ac, gs)
  BY NewSession DEF Tale
<1>2. ~ Some(ac, Ask(p)) /\ ~ Some(ac, Door(p)) /\ ~ In(mem, p)
  BY DEF Tale, FreeTale
<1>3. ~ Some(ac, AddOld(p, n + 1)) /\ ~ Some(ac, AddReq(p)) /\ ~ Some(ac, Old(p, n + 1))
  <2>1. Old(p, n + 1) \subseteq Ask(p) \cup Door(p)
    BY DEF Old, Ask, Door
  <2>2. ~ Some(ac, Ask(p) \cup Door(p))
    BY <1>2 DEF Some
  <2>3. ~ Some(ac, AddReq(p))
    BY <1>2, SomePart, AskParts
  <2> QED BY <2>1, <2>2, <2>3, SomePart, AskParts
<1>4. FreeTale(p, m2, n + 1, mem, ac, gs) /\ AskTale(p, m2, n + 1, mem, ac, gs)
  BY <1>1, <1>2, <1>3, UptoNone DEF FreeTale, AskTale
<1>5. LoginTale(p, m2, n + 1, mem, ac, gs) /\ AnswerTale(p, n + 1, mem, gs)
  BY <1>1, <1>2, <1>3, UptoNone DEF LoginTale, AnswerTale
<1>6. OnlineTale(p, m2, n + 1, mem, ac, gs)
  BY <1>1, <1>2, <1>3, UptoNone DEF OnlineTale, In
<1> QED BY <1>1, <1>4, <1>5, <1>6 DEF Tale

\* A character with marks logs in, and asks the account server what it is.
LEMMA LogsInListed ==
    ASSUME NEW p \in Folk, NEW m \in MarksOf, NEW m2 \in MarksOf, NEW n \in Nat, NEW mem \in Lists,
           NEW ac, NEW ac2, NEW gs, NEW on \in BOOLEAN, NEW x \in Requests,
           Tale(p, m, n, on, mem, ac, gs), Puts(p, ac, x, ac2), m.index, m2.index, m2.name,
           x.kind = "Login", x.who = p, x.session = n + 1
    PROVE  Tale(p, m2, n + 1, TRUE, mem, ac2, gs)
<1>1. /\ ~ Some(ac, LoginReq(p, n + 1)) /\ ~ Some(ac, AskNow(p, n + 1))
      /\ ~ Some(gs, Verdict(p, n + 1)) /\ ~ Some(gs, Tell(p, n + 1)) /\ ~ Some(gs, Clear(p, n + 1))
      /\ ~ Some(gs, Refusal(p, n + 1)) /\ Past(p, n + 1, mem, ac, gs)
      /\ \A s \in Places : mem[s].who = p => mem[s].session # n + 1
  BY NewSession DEF Tale
<1>2. n + 1 \in Nat
  OBVIOUS
<1>3. /\ x \notin Ask(p) /\ x \notin AskNow(p, n + 1) /\ x \notin AddReq(p) /\ x \notin AddOld(p, n + 1)
      /\ x \in LoginReq(p, n + 1) /\ x \notin Old(p, n + 1) /\ x \notin LaterReq(p, n + 1)
  BY <1>2, RequestKinds
<1>4. ~ Some(ac, AddReq(p)) /\ ~ Some(ac, AddOld(p, n + 1)) /\ Upto(ac, Ask(p), Ask(p))
      /\ (Some(ac, Ask(p)) => ~ In(mem, p))
  BY <1>2, SomePart, AskParts DEF Tale, AskTale
<1>5. Past(p, n + 1, mem, ac2, gs)
  BY <1>1, <1>2, <1>3, AskParts DEF Past, Puts
<1>6. FreeTale(p, m2, n + 1, mem, ac2, gs)
  BY DEF FreeTale
<1>7. AskTale(p, m2, n + 1, mem, ac2, gs)
  <2>1. Upto(ac2, Ask(p), Ask(p)) /\ Upto(ac2, Ask(p), LoginReq(p, n + 1))
    <3>1. Upto(ac, Ask(p), LoginReq(p, n + 1))
      BY <1>1, UptoNone
    <3> QED BY <3>1, <1>2, <1>3, <1>4, AskParts DEF Puts
  <2>2. ~ Some(ac2, AddOld(p, n + 1)) /\ ~ Some(ac2, AddReq(p)) /\ (Some(ac2, Ask(p)) => ~ In(mem, p))
    BY <1>2, <1>3, <1>4, AskParts DEF Puts
  <2> QED BY <1>1, <2>1, <2>2 DEF AskTale
<1>8. LoginTale(p, m2, n + 1, mem, ac2, gs)
  <2>1. Upto(ac2, LoginReq(p, n + 1), LoginReq(p, n + 1))
    <3>1. Upto(ac, LoginReq(p, n + 1), LoginReq(p, n + 1))
      BY <1>1, UptoNone
    <3> QED BY <3>1, <1>1, <1>2, AskParts DEF Puts
  <2>2. ~ Some(ac2, AskNow(p, n + 1))
    BY <1>1, <1>2, <1>3, AskParts DEF Puts
  <2> QED BY <1>1, <2>1, <2>2 DEF LoginTale
<1>9. AnswerTale(p, n + 1, mem, gs)
  BY <1>1, UptoNone DEF AnswerTale
<1>10. OnlineTale(p, m2, n + 1, mem, ac2, gs)
  <2>1. Some(ac2, LoginReq(p, n + 1))
    BY <1>2, <1>3, AskParts DEF Puts
  <2>2. Upto(ac2, Old(p, n + 1), LoginReq(p, n + 1))
    <3>1. Upto(ac, Old(p, n + 1), LoginReq(p, n + 1))
      BY <1>1, UptoNone
    <3> QED BY <3>1, <1>2, <1>3, AskParts DEF Puts
  <2> QED BY <2>1, <2>2 DEF OnlineTale
<1> QED BY <1>5, <1>6, <1>7, <1>8, <1>9, <1>10 DEF Tale

\* A character logs out.
LEMMA LogsOut ==
    ASSUME NEW p \in Folk, NEW m \in MarksOf, NEW n \in Nat, NEW mem \in Lists,
           NEW ac, NEW gs, Tale(p, m, n, TRUE, mem, ac, gs)
    PROVE  Tale(p, m, n, FALSE, mem, ac, gs)
BY DEF Tale

\* A character with marks logs out, and says so.
LEMMA LogsOutListed ==
    ASSUME NEW p \in Folk, NEW m \in MarksOf, NEW n \in Nat, NEW mem \in Lists,
           NEW ac, NEW ac2, NEW gs, NEW x \in Requests,
           Tale(p, m, n, TRUE, mem, ac, gs), Puts(p, ac, x, ac2), m.name,
           x.kind = "Logout", x.who = p
    PROVE  Tale(p, m, n, FALSE, mem, ac2, gs)
<1>1. /\ x \notin Ask(p) /\ x \notin AskNow(p, n) /\ x \notin AddReq(p) /\ x \notin AddOld(p, n)
      /\ x \notin LoginReq(p, n) /\ x \notin LaterReq(p, n)
  BY RequestKinds
<1>2. Past(p, n, mem, ac2, gs)
  BY <1>1, AskParts DEF Tale, Past, Puts
<1>3. FreeTale(p, m, n, mem, ac2, gs)
  BY DEF Tale, FreeTale
<1>4. AskTale(p, m, n, mem, ac2, gs)
  <2>1. Upto(ac2, Ask(p), Ask(p)) /\ Upto(ac2, Ask(p), LoginReq(p, n))
    BY <1>1, AskParts DEF Tale, AskTale, Puts
  <2>2. /\ Some(ac2, AddOld(p, n)) <=> Some(ac, AddOld(p, n))
        /\ Some(ac2, AddReq(p)) <=> Some(ac, AddReq(p))
        /\ Some(ac2, Ask(p)) <=> Some(ac, Ask(p))
    BY <1>1, AskParts DEF Puts
  <2> QED BY <2>1, <2>2 DEF Tale, AskTale
<1>5. LoginTale(p, m, n, mem, ac2, gs)
  BY <1>1, AskParts DEF Tale, LoginTale, Puts
<1> QED BY <1>2, <1>3, <1>4, <1>5 DEF Tale

----------------------------------------------------------------------------
\* The account server takes a request and answers.

SaysOne(p, n, gs, a, gs2) ==
    /\ \A M \in SUBSET Told(p, n) : Some(gs2, M) <=> Some(gs, M) \/ a \in M
    /\ \A M, N \in SUBSET Told(p, n) : Upto(gs, M, N) /\ (a \notin M \/ ~ Some(gs, N)) => Upto(gs2, M, N)
    /\ \A d, y \in Flags :
           LastIs(gs, Tell(p, n), d, y) => LastIs(gs2, Tell(p, n), d, IF a \in Tell(p, n) THEN a.flag ELSE y)

\* One answer at the end is said, as p sees it.
LEMMA WhenOneSaid ==
    ASSUME NEW p \in Folk, NEW n \in Nat, NEW gs \in Seq(Answers), NEW a \in Answers
    PROVE  SaysOne(p, n, gs, a, gs \o <<a>>)
<1> DEFINE g == Append(gs, a)
<1>1. ASSUME NEW M \in SUBSET Told(p, n) PROVE Some(g, M) <=> Some(gs, M) \/ a \in M
  BY SomeAppend
<1>2. ASSUME NEW M \in SUBSET Told(p, n), NEW N \in SUBSET Told(p, n), Upto(gs, M, N), a \notin M \/ ~ Some(gs, N)
      PROVE  Upto(g, M, N)
  BY <1>2, UptoAppend
<1>3. ASSUME NEW d \in Flags, NEW y \in Flags, LastIs(gs, Tell(p, n), d, y)
      PROVE  LastIs(g, Tell(p, n), d, IF a \in Tell(p, n) THEN a.flag ELSE y)
  BY <1>3, LastAppend
<1>4. g = gs \o <<a>>
  BY AppendIsConcat
<1> HIDE DEF g
<1>5. SaysOne(p, n, gs, a, g)
  BY <1>1, <1>2, <1>3 DEF SaysOne
<1> QED BY <1>4, <1>5

\* A character that is free, and that nothing is under way about.
LEMMA FreeIsFine ==
    ASSUME NEW p \in Folk, NEW m2 \in MarksOf, NEW n \in Nat, NEW mem \in Lists, NEW on \in BOOLEAN,
           NEW ac, NEW gs, ~ m2.name, ~ m2.index, Past(p, n, mem, ac, gs),
           ~ Some(ac, Ask(p)), ~ Some(ac, Door(p)), ~ Some(gs, Verdict(p, n)), ~ Some(gs, Tell(p, n)),
           ~ In(mem, p)
    PROVE  Tale(p, m2, n, on, mem, ac, gs)
<1>1. /\ ~ Some(ac, LoginReq(p, n)) /\ ~ Some(ac, AskNow(p, n)) /\ ~ Some(ac, AddOld(p, n)) /\ ~ Some(ac, AddReq(p))
      /\ ~ Some(ac, Old(p, n))
  <2>1. Old(p, n) \subseteq Ask(p) \cup Door(p)
    BY DEF Old, Ask, Door
  <2>2. ~ Some(ac, Ask(p) \cup Door(p))
    BY DEF Some
  <2>3. ~ Some(ac, AddReq(p)) /\ ~ Some(ac, AskNow(p, n)) /\ ~ Some(ac, LoginReq(p, n)) /\ ~ Some(ac, Old(p, n))
    BY <2>1, <2>2, SomePart, AskParts
  <2> QED BY <2>3, SomePart, AskParts
<1>2. ~ Some(gs, Clear(p, n)) /\ ~ Some(gs, Refusal(p, n))
  BY SomePart, ToldParts
<1>3. Alone(p, mem)
  BY DEF Alone, In
<1>4. FreeTale(p, m2, n, mem, ac, gs) /\ AskTale(p, m2, n, mem, ac, gs)
  BY <1>1, UptoNone DEF FreeTale, AskTale
<1>5. LoginTale(p, m2, n, mem, ac, gs) /\ AnswerTale(p, n, mem, gs)
  BY <1>1, <1>2, UptoNone DEF LoginTale, AnswerTale
<1>6. OnlineTale(p, m2, n, mem, ac, gs)
  BY <1>1, <1>2, UptoNone DEF OnlineTale, In
<1> QED BY <1>3, <1>4, <1>5, <1>6 DEF Tale

\* What is known when the request of p to found or to join is the next one.
LEMMA AskIsNext ==
    ASSUME NEW p \in Folk, NEW m \in MarksOf, NEW n \in Nat, NEW on \in BOOLEAN, NEW mem \in Lists,
           NEW ac, NEW ac2, NEW gs, NEW x \in Requests,
           Tale(p, m, n, on, mem, ac, gs), Takes(p, ac, x, ac2), x \in Ask(p)
    PROVE  /\ m.name /\ ~ In(mem, p)
           /\ ~ Some(ac2, Ask(p)) /\ ~ Some(ac2, AddReq(p)) /\ ~ Some(ac2, AddOld(p, n)) /\ ~ Some(ac2, AskNow(p, n))
           /\ ~ Some(ac2, LaterReq(p, n)) /\ x.session <= n /\ x.session \in Nat
           /\ ~ Some(gs, Verdict(p, n)) /\ ~ Some(gs, Tell(p, n)) /\ ~ Some(gs, Clear(p, n))
           /\ ~ Some(gs, Refusal(p, n)) /\ ~ Some(gs, Founded(p, n)) /\ ~ Some(gs, LaterAns(p, n))
           /\ Some(ac2, LoginReq(p, n)) <=> Some(ac, LoginReq(p, n))
           /\ x.session = n => ~ Some(ac2, LoginReq(p, n))
           /\ on => Upto(ac2, Old(p, n), LoginReq(p, n)) /\ (Some(ac2, Old(p, n)) => Some(ac2, LoginReq(p, n)))
           /\ on /\ x.session # n => Some(ac2, LoginReq(p, n))
           /\ Upto(ac2, LoginReq(p, n), LoginReq(p, n))
           /\ Some(ac2, LoginReq(p, n)) => m.index
           /\ x.kind = "Join" => m.index \/ ~ on
           /\ x.kind = "Add" => x.session = n /\ ~ m.index /\ m.flag = "LEADER"
<1>0. /\ x.kind \in {"Add", "Join"} /\ x.who = p /\ x.session \in Nat
      /\ x \notin LoginReq(p, n)
      /\ x \in AskNow(p, n) <=> x.session = n
      /\ x \in Old(p, n) <=> x.session # n
      /\ x \in LaterReq(p, n) <=> x.session > n
      /\ x \in AddReq(p) <=> x.kind = "Add"
      /\ x \in AddOld(p, n) <=> x.kind = "Add" /\ x.session # n
  BY RequestKinds
<1>1. Some(ac, Ask(p)) /\ ~ Some(ac2, Ask(p))
  BY AskParts DEF Tale, AskTale, Takes
<1>2. ~ Some(gs, Verdict(p, n)) /\ ~ Some(gs, Tell(p, n)) /\ ~ In(mem, p) /\ m.name
  BY <1>1 DEF Tale, AskTale, FreeTale
<1>3. ~ Some(gs, Clear(p, n)) /\ ~ Some(gs, Refusal(p, n)) /\ ~ Some(gs, Founded(p, n)) /\ ~ Some(gs, LaterAns(p, n))
  BY <1>2, SomePart, ToldParts DEF Tale, Past
<1>4. ~ Some(ac2, AddReq(p)) /\ ~ Some(ac2, AddOld(p, n)) /\ ~ Some(ac2, AskNow(p, n))
  <2>1. ~ Some(ac2, AddReq(p)) /\ ~ Some(ac2, AskNow(p, n))
    BY <1>1, SomePart, AskParts
  <2> QED BY <2>1, SomePart, AskParts
<1>5. ~ Some(ac2, LaterReq(p, n)) /\ x.session <= n
  BY <1>0, AskParts DEF Tale, Past, Takes
<1>6. Some(ac2, LoginReq(p, n)) <=> Some(ac, LoginReq(p, n))
  BY <1>0, AskParts DEF Takes
<1>7. x.session = n => ~ Some(ac2, LoginReq(p, n))
  BY <1>0, <1>6, AskParts DEF Tale, LoginTale, Takes
<1>8. on => Upto(ac2, Old(p, n), LoginReq(p, n)) /\ (Some(ac2, Old(p, n)) => Some(ac2, LoginReq(p, n)))
  BY <1>6, AskParts DEF Tale, OnlineTale, Takes
<1>9. on /\ x.session # n => Some(ac2, LoginReq(p, n))
  BY <1>0, <1>6, AskParts DEF Tale, OnlineTale, Takes
<1>10. Upto(ac2, LoginReq(p, n), LoginReq(p, n)) /\ (Some(ac2, LoginReq(p, n)) => m.index)
  BY <1>6, AskParts DEF Tale, LoginTale, Takes
<1>11. x.kind = "Add" => x.session = n /\ ~ m.index /\ m.flag = "LEADER"
  BY <1>0, AskParts DEF Tale, AskTale, Takes
<1>12. ASSUME x.kind = "Join", on, ~ m.index PROVE FALSE
  <2>1. ~ Some(ac, AddReq(p))
    BY <1>0, <1>4, <1>12, AskParts DEF Takes
  <2> QED BY <2>1, <1>2, <1>3, <1>12 DEF Tale, OnlineTale
<1> QED BY <1>0, <1>1, <1>2, <1>3, <1>4, <1>5, <1>6, <1>7, <1>8, <1>9, <1>10, <1>11, <1>12

\* p sits in place z, and there only, in its session n.
SitsAt(p, mem, z, flag, n) ==
    /\ \A s \in Places : mem[s].who = p <=> s = z
    /\ mem[z].flag = flag /\ mem[z].online /\ mem[z].session = n

\* ACAddFM: the family is founded, or the founder is refused.
LEMMA AddTaken ==
    ASSUME NEW p \in Folk, NEW m \in MarksOf, NEW n \in Nat, NEW on \in BOOLEAN, NEW mem \in Lists,
           NEW mem2 \in Lists, NEW ac, NEW ac2, NEW gs, NEW gs2, NEW x \in Requests, NEW a \in Answers, NEW z \in Places,
           Tale(p, m, n, on, mem, ac, gs), Takes(p, ac, x, ac2), SaysOne(p, n, gs, a, gs2),
           x.kind = "Add", x.who = p,
           a.kind = "Add", a.who = p, a.session = x.session, a.ok,
           SitsAt(p, mem2, z, "LEADER", x.session)
    PROVE  Tale(p, m, n, on, mem2, ac2, gs2)
<1>20. /\ \A s \in Places : mem2[s].who = p <=> s = z
       /\ mem2[z].flag = "LEADER" /\ mem2[z].online /\ mem2[z].session = x.session
  BY DEF SitsAt
<1> USE <1>20
<1>0. x \in Ask(p)
  BY RequestKinds
<1>1. /\ m.name /\ ~ In(mem, p) /\ x.session = n /\ ~ m.index /\ m.flag = "LEADER"
      /\ ~ Some(ac2, Ask(p)) /\ ~ Some(ac2, AddReq(p)) /\ ~ Some(ac2, AddOld(p, n)) /\ ~ Some(ac2, AskNow(p, n))
      /\ ~ Some(ac2, LaterReq(p, n))
      /\ ~ Some(gs, Verdict(p, n)) /\ ~ Some(gs, Tell(p, n)) /\ ~ Some(gs, Clear(p, n))
      /\ ~ Some(gs, Refusal(p, n)) /\ ~ Some(gs, Founded(p, n)) /\ ~ Some(gs, LaterAns(p, n))
      /\ ~ Some(ac2, LoginReq(p, n))
      /\ on => ~ Some(ac2, Old(p, n))
  BY <1>0, AskIsNext
<1>2. /\ a \in Founded(p, n) /\ a \in Verdict(p, n) /\ a \notin Refusal(p, n) /\ a \notin Tell(p, n)
      /\ a \notin Clear(p, n) /\ a \notin LaterAns(p, n)
  BY <1>1, AnswerKinds
<1>3. /\ ~ Some(gs2, Tell(p, n)) /\ ~ Some(gs2, Clear(p, n)) /\ ~ Some(gs2, Refusal(p, n)) /\ ~ Some(gs2, LaterAns(p, n))
      /\ Some(gs2, Founded(p, n))
  BY <1>1, <1>2, ToldParts DEF SaysOne
<1>4. Alone(p, mem2) /\ Past(p, n, mem2, ac2, gs2)
  BY <1>1, <1>3 DEF Alone, Past
<1>5. FreeTale(p, m, n, mem2, ac2, gs2) /\ AskTale(p, m, n, mem2, ac2, gs2) /\ LoginTale(p, m, n, mem2, ac2, gs2)
  BY <1>1, UptoNone DEF FreeTale, AskTale, LoginTale
<1>6. AnswerTale(p, n, mem2, gs2)
  <2>1. Upto(gs, Verdict(p, n), Verdict(p, n))
    BY <1>1, UptoNone
  <2>2. Upto(gs2, Verdict(p, n), Verdict(p, n))
    BY <2>1, <1>1, ToldParts DEF SaysOne
  <2> QED BY <2>2, <1>3, UptoNone DEF AnswerTale
<1>7. on => OnlineTale(p, m, n, mem2, ac2, gs2)
  <2>1. In(mem2, p)
    BY DEF In
  <2>2. LastIs(gs2, Tell(p, n), m.flag, "LEADER")
    BY <1>1, <1>3 DEF LastIs
  <2> QED BY <2>1, <2>2, <1>1, <1>3, UptoNone DEF OnlineTale
<1> QED BY <1>4, <1>5, <1>6, <1>7 DEF Tale

\* Who asked to found or to join is refused.
LEMMA AskRefused ==
    ASSUME NEW p \in Folk, NEW m \in MarksOf, NEW n \in Nat, NEW on \in BOOLEAN, NEW mem \in Lists,
           NEW ac, NEW ac2, NEW gs, NEW gs2, NEW x \in Requests, NEW a \in Answers,
           Tale(p, m, n, on, mem, ac, gs), Takes(p, ac, x, ac2), SaysOne(p, n, gs, a, gs2),
           x.kind \in {"Add", "Join"}, x.who = p,
           a.kind = x.kind, a.who = p, a.session = x.session, ~ a.ok
    PROVE  Tale(p, m, n, on, mem, ac2, gs2)
<1>0. x \in Ask(p)
  BY RequestKinds
<1>1. /\ m.name /\ ~ In(mem, p)
      /\ ~ Some(ac2, Ask(p)) /\ ~ Some(ac2, AddReq(p)) /\ ~ Some(ac2, AddOld(p, n)) /\ ~ Some(ac2, AskNow(p, n))
      /\ ~ Some(ac2, LaterReq(p, n)) /\ x.session <= n /\ x.session \in Nat
      /\ ~ Some(gs, Verdict(p, n)) /\ ~ Some(gs, Tell(p, n)) /\ ~ Some(gs, Clear(p, n))
      /\ ~ Some(gs, Refusal(p, n)) /\ ~ Some(gs, LaterAns(p, n))
      /\ x.session = n => ~ Some(ac2, LoginReq(p, n))
      /\ on => Upto(ac2, Old(p, n), LoginReq(p, n)) /\ (Some(ac2, Old(p, n)) => Some(ac2, LoginReq(p, n)))
      /\ on /\ x.session # n => Some(ac2, LoginReq(p, n))
      /\ Upto(ac2, LoginReq(p, n), LoginReq(p, n))
      /\ Some(ac2, LoginReq(p, n)) => m.index
      /\ x.kind = "Join" => m.index \/ ~ on
      /\ x.kind = "Add" => x.session = n
  BY <1>0, AskIsNext
<1>2. /\ a \in Verdict(p, n) <=> x.session = n
      /\ a \in Refusal(p, n) <=> x.session = n
      /\ a \in Founded(p, n) <=> x.kind = "Add" /\ x.session = n
      /\ a \notin Tell(p, n) /\ a \notin Clear(p, n) /\ a \notin LaterAns(p, n)
  BY <1>1, AnswerKinds
<1>3. /\ ~ Some(gs2, Tell(p, n)) /\ ~ Some(gs2, Clear(p, n)) /\ ~ Some(gs2, LaterAns(p, n))
      /\ Some(gs2, Verdict(p, n)) <=> x.session = n
      /\ x.session = n => Some(gs2, Refusal(p, n))
      /\ x.kind = "Add" => Some(gs2, Founded(p, n))
  BY <1>1, <1>2, ToldParts DEF SaysOne
<1>4. Alone(p, mem) /\ Past(p, n, mem, ac2, gs2)
  BY <1>1, <1>3 DEF Tale, Past
<1>5. FreeTale(p, m, n, mem, ac2, gs2) /\ AskTale(p, m, n, mem, ac2, gs2)
  BY <1>1, UptoNone DEF FreeTale, AskTale
<1>6. LoginTale(p, m, n, mem, ac2, gs2)
  BY <1>1, <1>3 DEF LoginTale, In
<1>7. AnswerTale(p, n, mem, gs2)
  <2>1. Upto(gs, Verdict(p, n), Verdict(p, n))
    BY <1>1, UptoNone
  <2>2. Upto(gs2, Verdict(p, n), Verdict(p, n))
    BY <2>1, <1>1, ToldParts DEF SaysOne
  <2> QED BY <2>2, <1>1, <1>3, UptoNone DEF AnswerTale
<1>8. on => OnlineTale(p, m, n, mem, ac2, gs2)
  <2>1. x.kind = "Add" \/ x.kind = "Join"
    OBVIOUS
  <2> QED BY <2>1, <1>1, <1>3 DEF OnlineTale, In
<1> QED BY <1>4, <1>5, <1>6, <1>7, <1>8 DEF Tale

\* ACJoinFM: the applicant gets a place and is told.
LEMMA JoinTaken ==
    ASSUME NEW p \in Folk, NEW m \in MarksOf, NEW n \in Nat, NEW on \in BOOLEAN, NEW mem \in Lists,
           NEW mem2 \in Lists, NEW ac, NEW ac2, NEW gs, NEW gs2, NEW x \in Requests, NEW a \in Answers, NEW z \in Places,
           Tale(p, m, n, on, mem, ac, gs), Takes(p, ac, x, ac2), SaysOne(p, n, gs, a, gs2),
           x.kind = "Join", x.who = p,
           a.kind = "Login", a.who = p, a.session = x.session, a.ok, a.flag = "APPLY",
           SitsAt(p, mem2, z, "APPLY", x.session)
    PROVE  Tale(p, m, n, on, mem2, ac2, gs2)
<1>20. /\ \A s \in Places : mem2[s].who = p <=> s = z
       /\ mem2[z].flag = "APPLY" /\ mem2[z].online /\ mem2[z].session = x.session
  BY DEF SitsAt
<1> USE <1>20
<1>0. x \in Ask(p)
  BY RequestKinds
<1>1. /\ m.name /\ ~ In(mem, p)
      /\ ~ Some(ac2, Ask(p)) /\ ~ Some(ac2, AddReq(p)) /\ ~ Some(ac2, AddOld(p, n)) /\ ~ Some(ac2, AskNow(p, n))
      /\ ~ Some(ac2, LaterReq(p, n)) /\ x.session <= n /\ x.session \in Nat
      /\ ~ Some(gs, Verdict(p, n)) /\ ~ Some(gs, Tell(p, n)) /\ ~ Some(gs, Clear(p, n))
      /\ ~ Some(gs, Refusal(p, n)) /\ ~ Some(gs, LaterAns(p, n))
      /\ x.session = n => ~ Some(ac2, LoginReq(p, n))
      /\ on => Upto(ac2, Old(p, n), LoginReq(p, n)) /\ (Some(ac2, Old(p, n)) => Some(ac2, LoginReq(p, n)))
      /\ on /\ x.session # n => Some(ac2, LoginReq(p, n))
      /\ Upto(ac2, LoginReq(p, n), LoginReq(p, n))
      /\ Some(ac2, LoginReq(p, n)) => m.index
      /\ on => m.index
  BY <1>0, AskIsNext
<1>2. /\ a \notin Verdict(p, n) /\ a \notin Refusal(p, n) /\ a \notin Clear(p, n) /\ a \notin LaterAns(p, n)
      /\ a \in Tell(p, n) <=> x.session = n
  BY <1>1, AnswerKinds
<1>3. /\ ~ Some(gs2, Verdict(p, n)) /\ ~ Some(gs2, Clear(p, n)) /\ ~ Some(gs2, LaterAns(p, n)) /\ ~ Some(gs2, Refusal(p, n))
      /\ Some(gs2, Tell(p, n)) <=> x.session = n
  BY <1>1, <1>2, ToldParts DEF SaysOne
<1>4. Alone(p, mem2) /\ Past(p, n, mem2, ac2, gs2)
  BY <1>1, <1>3 DEF Alone, Past
<1>5. FreeTale(p, m, n, mem2, ac2, gs2) /\ AskTale(p, m, n, mem2, ac2, gs2)
  BY <1>1, UptoNone DEF FreeTale, AskTale
<1>6. LoginTale(p, m, n, mem2, ac2, gs2)
  BY <1>1, <1>3 DEF LoginTale
<1>7. AnswerTale(p, n, mem2, gs2)
  BY <1>3, UptoNone DEF AnswerTale
<1>8. on => OnlineTale(p, m, n, mem2, ac2, gs2)
  <2>1. In(mem2, p)
    BY DEF In
  <2>2. x.session = n => LastIs(gs2, Tell(p, n), m.flag, "APPLY")
    <3>1. m.flag \in Flags
      BY DEF MarksOf
    <3>2. LastIs(gs, Tell(p, n), m.flag, m.flag)
      BY <1>1 DEF LastIs
    <3> QED BY <3>1, <3>2, <1>2 DEF SaysOne
  <2> QED BY <2>1, <2>2, <1>1 DEF OnlineTale
<1> QED BY <1>4, <1>5, <1>6, <1>7, <1>8 DEF Tale

\* A member is struck off the list, and told.
LEMMA StruckOff ==
    ASSUME NEW p \in Folk, NEW m \in MarksOf, NEW n \in Nat, NEW on \in BOOLEAN, NEW mem \in Lists,
           NEW mem2 \in Lists, NEW ac, NEW gs, NEW gs2, NEW r, NEW z \in Places,
           Tale(p, m, n, on, mem, ac, gs), Says(p, n, gs, r, gs2),
           mem[z].who = p, ~ In(mem2, p),
           Upto(r, Clear(p, n), Clear(p, n)), ~ Some(r, Told(p, n) \ Clear(p, n)),
           Some(r, Clear(p, n)) <=> mem[z].online /\ mem[z].session = n
    PROVE  Tale(p, m, n, on, mem2, ac, gs2)
<1>1. /\ In(mem, p) /\ m.name /\ ~ Some(ac, Ask(p)) /\ ~ Some(gs, Refusal(p, n)) /\ ~ Some(gs, Clear(p, n))
      /\ ~ Some(ac, AddReq(p)) /\ ~ Some(ac, AddOld(p, n))
  <2>1. In(mem, p)
    BY DEF In
  <2>2. m.name /\ ~ Some(ac, Ask(p)) /\ ~ Some(gs, Refusal(p, n)) /\ ~ Some(gs, Clear(p, n))
    BY <2>1 DEF Tale, FreeTale, AskTale, AnswerTale
  <2>3. ~ Some(ac, AddReq(p))
    BY <2>2, SomePart, AskParts
  <2> QED BY <2>1, <2>2, <2>3, SomePart, AskParts
<1>2. /\ ~ Some(r, Verdict(p, n)) /\ ~ Some(r, LaterAns(p, n)) /\ ~ Some(r, Refusal(p, n)) /\ ~ Some(r, Founded(p, n))
      /\ Some(r, Tell(p, n)) <=> Some(r, Clear(p, n))
      /\ Upto(r, Tell(p, n), Clear(p, n))
  <2>1. /\ Verdict(p, n) \subseteq Told(p, n) \ Clear(p, n)
        /\ LaterAns(p, n) \subseteq Told(p, n) \ Clear(p, n)
    <3>1. \A x \in Verdict(p, n) \cup LaterAns(p, n) : x \in LaterAns(p, n) \/ x \notin Clear(p, n)
      BY DEF Verdict, Refusal, Founded, Clear, Ans
    <3>2. \A x \in LaterAns(p, n) : x.session > n
      BY DEF LaterAns, Ans
    <3>3. \A x \in Clear(p, n) : x.session = n
      BY DEF Clear, Ans
    <3> QED BY <3>1, <3>2, <3>3 DEF Told
  <2>2. ~ Some(r, Verdict(p, n)) /\ ~ Some(r, LaterAns(p, n))
    BY <2>1, SomePart
  <2>3. ~ Some(r, Refusal(p, n)) /\ ~ Some(r, Founded(p, n))
    BY <2>2, SomePart, ToldParts
  <2>4. \A i \in DOMAIN r : r[i] \in Tell(p, n) => r[i] \in Clear(p, n)
    BY ToldParts DEF Some
  <2>5. \A i \in DOMAIN r : r[i] \in Clear(p, n) => r[i] \in Tell(p, n)
    BY ToldParts
  <2> QED BY <2>2, <2>3, <2>4, <2>5 DEF Some, Upto
<1>3. /\ Some(gs2, Verdict(p, n)) <=> Some(gs, Verdict(p, n))
      /\ Some(gs2, Founded(p, n)) <=> Some(gs, Founded(p, n))
      /\ ~ Some(gs2, Refusal(p, n))
      /\ Some(gs2, LaterAns(p, n)) <=> Some(gs, LaterAns(p, n))
      /\ Some(gs2, Clear(p, n)) <=> Some(r, Clear(p, n))
      /\ Some(gs2, Tell(p, n)) <=> Some(gs, Tell(p, n)) \/ Some(r, Clear(p, n))
  BY <1>1, <1>2, ToldParts DEF Says
<1>4. /\ Upto(gs2, Verdict(p, n), Verdict(p, n)) /\ Upto(gs2, Verdict(p, n), Clear(p, n))
      /\ Upto(gs2, Tell(p, n), Clear(p, n))
  <2>1. Upto(r, Verdict(p, n), Verdict(p, n)) /\ Upto(r, Verdict(p, n), Clear(p, n))
    BY <1>2, UptoNone
  <2> QED BY <2>1, <1>1, <1>2, ToldParts DEF Says, Tale, AnswerTale
<1>5. Alone(p, mem2) /\ Past(p, n, mem2, ac, gs2)
  BY <1>3 DEF Tale, Past, Alone, In
<1>6. FreeTale(p, m, n, mem2, ac, gs2) /\ AskTale(p, m, n, mem2, ac, gs2)
  BY <1>1 DEF Tale, FreeTale, AskTale
<1>7. LoginTale(p, m, n, mem2, ac, gs2)
  BY <1>3 DEF Tale, LoginTale, In
<1>8. AnswerTale(p, n, mem2, gs2)
  BY <1>3, <1>4 DEF AnswerTale
<1>9. on => OnlineTale(p, m, n, mem2, ac, gs2)
  BY <1>3 DEF Tale, OnlineTale, In
<1> QED BY <1>5, <1>6, <1>7, <1>8, <1>9 DEF Tale

\* The member q moves from y to z, or stays there.
Moved(q, mem, y, mem2, z) ==
    /\ mem[y].who = q
    /\ \A s \in Places : mem2[s].who = q <=> s = z
    /\ mem2[z].online = mem[y].online /\ mem2[z].session = mem[y].session

\* Who is not online is not told.
SaysIf(told, p, n, gs, a, gs2) == IF told THEN SaysOne(p, n, gs, a, gs2) ELSE gs2 = gs

\* A member gets a rank, perhaps another place, and is told.
LEMMA RankGiven ==
    ASSUME NEW p \in Folk, NEW m \in MarksOf, NEW n \in Nat, NEW on \in BOOLEAN, NEW mem \in Lists,
           NEW mem2 \in Lists, NEW ac, NEW gs, NEW gs2, NEW a \in Answers, NEW y \in Places, NEW z \in Places,
           Tale(p, m, n, on, mem, ac, gs), Moved(p, mem, y, mem2, z), SaysIf(mem[y].online, p, n, gs, a, gs2),
           a.kind = "Login", a.who = p, a.session = mem[y].session, a.ok, a.flag = mem2[z].flag
    PROVE  Tale(p, m, n, on, mem2, ac, gs2)
<1>0. /\ IF mem[y].online THEN SaysOne(p, n, gs, a, gs2) ELSE gs2 = gs
      /\ mem[y].who = p /\ \A s \in Places : mem2[s].who = p <=> s = z
      /\ mem2[z].online = mem[y].online /\ mem2[z].session = mem[y].session
  BY DEF Moved, SaysIf
<1> USE <1>0
<1>1. /\ In(mem, p) /\ In(mem2, p) /\ ~ Some(ac, Ask(p)) /\ ~ Some(gs, Refusal(p, n)) /\ ~ Some(gs, Clear(p, n))
      /\ mem[y].session <= n /\ mem[y].session \in Nat
  <2>1. In(mem, p) /\ In(mem2, p)
    BY DEF In
  <2>2. mem[y].session <= n /\ mem[y].session \in Nat
    BY DEF Tale, Past, Lists, Ranked
  <2> QED BY <2>1, <2>2 DEF Tale, AskTale, AnswerTale
<1>2. m.flag \in Flags /\ mem2[z].flag \in Flags /\ mem[y].flag \in Flags
  BY DEF MarksOf, Lists, Ranked
<1>3. /\ a \notin Verdict(p, n) /\ a \notin Refusal(p, n) /\ a \notin Clear(p, n) /\ a \notin LaterAns(p, n)
      /\ a \notin Founded(p, n)
      /\ a \in Tell(p, n) <=> mem[y].session = n
  BY <1>1, AnswerKinds
<1>4. /\ Some(gs2, Verdict(p, n)) <=> Some(gs, Verdict(p, n))
      /\ Some(gs2, Refusal(p, n)) <=> Some(gs, Refusal(p, n))
      /\ Some(gs2, Founded(p, n)) <=> Some(gs, Founded(p, n))
      /\ Some(gs2, LaterAns(p, n)) <=> Some(gs, LaterAns(p, n))
      /\ Some(gs2, Clear(p, n)) <=> Some(gs, Clear(p, n))
      /\ Some(gs2, Tell(p, n)) <=> Some(gs, Tell(p, n)) \/ (mem[y].online /\ mem[y].session = n)
  BY <1>3, ToldParts DEF SaysOne
<1>5. Upto(gs, Verdict(p, n), Verdict(p, n)) => Upto(gs2, Verdict(p, n), Verdict(p, n))
  BY <1>3, ToldParts DEF SaysOne
<1>6. Alone(p, mem2) /\ Past(p, n, mem2, ac, gs2)
  BY <1>1, <1>4 DEF Tale, Past, Alone
<1>7. FreeTale(p, m, n, mem2, ac, gs2) /\ AskTale(p, m, n, mem2, ac, gs2)
  BY <1>1 DEF Tale, FreeTale, AskTale
<1>8. LoginTale(p, m, n, mem2, ac, gs2)
  BY <1>4 DEF Tale, LoginTale
<1>9. AnswerTale(p, n, mem2, gs2)
  BY <1>1, <1>4, <1>5, UptoNone DEF Tale, AnswerTale
<1>10. ASSUME on PROVE OnlineTale(p, m, n, mem2, ac, gs2)
  <2>1. ASSUME ~ Some(ac, LoginReq(p, n))
        PROVE  mem2[z].online /\ mem2[z].session = n /\ LastIs(gs2, Tell(p, n), m.flag, mem2[z].flag)
    <3>1. mem[y].online /\ mem[y].session = n /\ LastIs(gs, Tell(p, n), m.flag, mem[y].flag)
      BY <1>10, <2>1 DEF Tale, OnlineTale
    <3> QED BY <3>1, <1>2, <1>3 DEF SaysOne
  <2> QED BY <2>1, <1>1, <1>4, <1>10 DEF Tale, OnlineTale
<1> QED BY <1>6, <1>7, <1>8, <1>9, <1>10 DEF Tale

\* ACFMCharLogin: a member is back, and is told its rank.
LEMMA BackAgain ==
    ASSUME NEW p \in Folk, NEW m \in MarksOf, NEW n \in Nat, NEW on \in BOOLEAN, NEW mem \in Lists,
           NEW mem2 \in Lists, NEW ac, NEW ac2, NEW gs, NEW gs2, NEW x \in Requests, NEW a \in Answers, NEW z \in Places,
           Tale(p, m, n, on, mem, ac, gs), Takes(p, ac, x, ac2), SaysOne(p, n, gs, a, gs2),
           x.kind = "Login", x.who = p,
           mem[z].who = p, SitsAt(p, mem2, z, a.flag, x.session),
           a.kind = "Login", a.who = p, a.session = x.session, a.ok
    PROVE  Tale(p, m, n, on, mem2, ac2, gs2)
<1>0. /\ \A s \in Places : mem2[s].who = p <=> s = z
      /\ a.flag = mem2[z].flag /\ mem2[z].online /\ mem2[z].session = x.session
  BY DEF SitsAt
<1> USE <1>0
<1>1. /\ In(mem, p) /\ In(mem2, p) /\ ~ Some(ac, Ask(p)) /\ ~ Some(gs, Refusal(p, n)) /\ ~ Some(gs, Clear(p, n))
      /\ m.name /\ ~ Some(ac, AddReq(p)) /\ ~ Some(ac, AddOld(p, n)) /\ ~ Some(ac, AskNow(p, n))
  <2>1. In(mem, p) /\ In(mem2, p)
    BY DEF In
  <2>2. m.name /\ ~ Some(ac, Ask(p)) /\ ~ Some(gs, Refusal(p, n)) /\ ~ Some(gs, Clear(p, n))
    BY <2>1 DEF Tale, FreeTale, AskTale, AnswerTale
  <2>3. ~ Some(ac, AddReq(p)) /\ ~ Some(ac, AskNow(p, n))
    BY <2>2, SomePart, AskParts
  <2> QED BY <2>1, <2>2, <2>3, SomePart, AskParts
<1>2. m.flag \in Flags /\ mem2[z].flag \in Flags
  BY DEF MarksOf, Lists, Ranked
<1>3. /\ x \notin Ask(p) /\ x \notin AskNow(p, n) /\ x \notin AddReq(p) /\ x \notin AddOld(p, n) /\ x.session \in Nat
      /\ x \in LoginReq(p, n) <=> x.session = n
      /\ x \in Old(p, n) <=> x.session # n
      /\ x \in LaterReq(p, n) <=> x.session > n
  BY RequestKinds
<1>4. x.session <= n
  BY <1>3, AskParts DEF Tale, Past, Takes
<1>5. /\ a \notin Verdict(p, n) /\ a \notin Refusal(p, n) /\ a \notin Clear(p, n) /\ a \notin LaterAns(p, n)
      /\ a \notin Founded(p, n)
      /\ a \in Tell(p, n) <=> x.session = n
  BY <1>3, <1>4, AnswerKinds
<1>6. /\ Some(gs2, Verdict(p, n)) <=> Some(gs, Verdict(p, n))
      /\ Some(gs2, Refusal(p, n)) <=> Some(gs, Refusal(p, n))
      /\ Some(gs2, Founded(p, n)) <=> Some(gs, Founded(p, n))
      /\ Some(gs2, LaterAns(p, n)) <=> Some(gs, LaterAns(p, n))
      /\ Some(gs2, Clear(p, n)) <=> Some(gs, Clear(p, n))
      /\ Some(gs2, Tell(p, n)) <=> Some(gs, Tell(p, n)) \/ x.session = n
  BY <1>5, ToldParts DEF SaysOne
<1>7. /\ ~ Some(ac2, Ask(p)) /\ ~ Some(ac2, AddReq(p)) /\ ~ Some(ac2, AddOld(p, n)) /\ ~ Some(ac2, AskNow(p, n))
      /\ ~ Some(ac2, LaterReq(p, n))
  BY <1>1, <1>3, AskParts DEF Tale, Past, Takes
<1>8. Upto(gs, Verdict(p, n), Verdict(p, n)) => Upto(gs2, Verdict(p, n), Verdict(p, n))
  BY <1>5, ToldParts DEF SaysOne
<1>9. /\ Upto(ac2, LoginReq(p, n), LoginReq(p, n))
      /\ x.session = n => ~ Some(ac2, LoginReq(p, n))
      /\ Some(ac2, LoginReq(p, n)) => Some(ac, LoginReq(p, n))
      /\ x.session # n => (Some(ac2, LoginReq(p, n)) <=> Some(ac, LoginReq(p, n)))
      /\ x.session = n => Some(ac, LoginReq(p, n))
  BY <1>3, AskParts DEF Tale, LoginTale, Takes
<1>10. Alone(p, mem2) /\ Past(p, n, mem2, ac2, gs2)
  BY <1>4, <1>6, <1>7 DEF Tale, Past, Alone
<1>11. FreeTale(p, m, n, mem2, ac2, gs2) /\ AskTale(p, m, n, mem2, ac2, gs2)
  BY <1>1, <1>7, UptoNone DEF Tale, FreeTale, AskTale
<1>12. LoginTale(p, m, n, mem2, ac2, gs2)
  BY <1>6, <1>7, <1>9 DEF Tale, LoginTale
<1>13. AnswerTale(p, n, mem2, gs2)
  BY <1>1, <1>6, <1>8, UptoNone DEF Tale, AnswerTale
<1>14. ASSUME on PROVE OnlineTale(p, m, n, mem2, ac2, gs2)
  <2>1. /\ Upto(ac2, Old(p, n), LoginReq(p, n))
        /\ Some(ac2, Old(p, n)) => Some(ac, Old(p, n))
        /\ x.session = n => ~ Some(ac2, Old(p, n))
        /\ x.session # n => Some(ac, Old(p, n))
    BY <1>3, <1>14, AskParts DEF Tale, OnlineTale, Takes
  <2>2. Some(ac, Old(p, n)) => Some(ac, LoginReq(p, n))
    BY <1>14 DEF Tale, OnlineTale
  <2>3. m.index
    BY <2>1, <2>2, <1>9 DEF Tale, LoginTale
  <2>4. ASSUME ~ Some(ac2, LoginReq(p, n))
        PROVE  mem2[z].session = n /\ LastIs(gs2, Tell(p, n), m.flag, mem2[z].flag)
    <3>1. x.session = n
      BY <2>1, <2>2, <2>4, <1>9
    <3>2. ~ Some(gs, Tell(p, n))
      BY <3>1, <1>9 DEF Tale, LoginTale
    <3>3. LastIs(gs, Tell(p, n), m.flag, m.flag)
      BY <3>2 DEF LastIs
    <3> QED BY <3>1, <3>3, <1>2, <1>5 DEF SaysOne
  <2> QED BY <2>1, <2>2, <2>3, <2>4, <1>1, <1>9 DEF OnlineTale
<1> QED BY <1>10, <1>11, <1>12, <1>13, <1>14 DEF Tale

\* Who logs in and is on no list is told so.
LEMMA NotListedAnyMore ==
    ASSUME NEW p \in Folk, NEW m \in MarksOf, NEW n \in Nat, NEW on \in BOOLEAN, NEW mem \in Lists,
           NEW ac, NEW ac2, NEW gs, NEW gs2, NEW x \in Requests, NEW a \in Answers,
           Tale(p, m, n, on, mem, ac, gs), Takes(p, ac, x, ac2), SaysOne(p, n, gs, a, gs2),
           x.kind = "Login", x.who = p, ~ In(mem, p),
           a.kind = "Login", a.who = p, a.session = x.session, ~ a.ok
    PROVE  Tale(p, m, n, on, mem, ac2, gs2)
<1>3. /\ x \notin Ask(p) /\ x \notin AskNow(p, n) /\ x \notin AddReq(p) /\ x \notin AddOld(p, n) /\ x.session \in Nat
      /\ x \in LoginReq(p, n) <=> x.session = n
      /\ x \in Old(p, n) <=> x.session # n
      /\ x \in LaterReq(p, n) <=> x.session > n
  BY RequestKinds
<1>4. x.session <= n
  BY <1>3, AskParts DEF Tale, Past, Takes
<1>5. /\ a \notin Verdict(p, n) /\ a \notin Refusal(p, n) /\ a \notin LaterAns(p, n) /\ a \notin Founded(p, n)
      /\ a \in Tell(p, n) <=> x.session = n
      /\ a \in Clear(p, n) <=> x.session = n
  BY <1>3, <1>4, AnswerKinds
<1>6. /\ Some(gs2, Verdict(p, n)) <=> Some(gs, Verdict(p, n))
      /\ Some(gs2, Refusal(p, n)) <=> Some(gs, Refusal(p, n))
      /\ Some(gs2, Founded(p, n)) <=> Some(gs, Founded(p, n))
      /\ Some(gs2, LaterAns(p, n)) <=> Some(gs, LaterAns(p, n))
      /\ Some(gs2, Clear(p, n)) <=> Some(gs, Clear(p, n)) \/ x.session = n
      /\ Some(gs2, Tell(p, n)) <=> Some(gs, Tell(p, n)) \/ x.session = n
  BY <1>5, ToldParts DEF SaysOne
<1>7. /\ Some(ac2, Ask(p)) <=> Some(ac, Ask(p))
      /\ Some(ac2, AddReq(p)) <=> Some(ac, AddReq(p))
      /\ Some(ac2, AddOld(p, n)) <=> Some(ac, AddOld(p, n))
      /\ Some(ac2, AskNow(p, n)) <=> Some(ac, AskNow(p, n))
      /\ ~ Some(ac2, LaterReq(p, n)) /\ m.name
  BY <1>3, AskParts, RequestKinds DEF Tale, Past, Takes, FreeTale
<1>8. x.session = n => /\ ~ Some(ac2, Ask(p)) /\ ~ Some(ac2, LoginReq(p, n)) /\ m.index
                       /\ ~ Some(gs, Verdict(p, n)) /\ ~ Some(gs, Tell(p, n)) /\ ~ Some(gs, Refusal(p, n))
                       /\ ~ Some(gs, Clear(p, n)) /\ Some(ac, LoginReq(p, n))
  <2>1. ASSUME x.session = n
        PROVE /\ ~ Some(ac2, Ask(p)) /\ ~ Some(ac2, LoginReq(p, n)) /\ m.index
              /\ ~ Some(gs, Verdict(p, n)) /\ ~ Some(gs, Tell(p, n)) /\ Some(ac, LoginReq(p, n))
    BY <2>1, <1>3, AskParts DEF Tale, AskTale, LoginTale, Takes
  <2> QED BY <2>1, SomePart, ToldParts
<1>9. /\ Upto(gs2, Verdict(p, n), Verdict(p, n)) /\ Upto(gs2, Verdict(p, n), Clear(p, n))
      /\ Upto(gs2, Tell(p, n), Clear(p, n))
  <2>1. CASE x.session = n
    BY <2>1, <1>5, <1>8, ToldParts DEF SaysOne, Tale, AnswerTale
  <2>2. CASE x.session # n
    BY <2>2, <1>5, ToldParts DEF SaysOne, Tale, AnswerTale
  <2> QED BY <2>1, <2>2
<1>10. /\ Upto(ac2, LoginReq(p, n), LoginReq(p, n)) /\ Upto(ac2, Ask(p), Ask(p)) /\ Upto(ac2, Ask(p), LoginReq(p, n))
       /\ Some(ac2, LoginReq(p, n)) => Some(ac, LoginReq(p, n))
       /\ x.session # n => (Some(ac2, LoginReq(p, n)) <=> Some(ac, LoginReq(p, n)))
  BY <1>3, AskParts DEF Tale, LoginTale, AskTale, Takes
<1>11. Alone(p, mem) /\ Past(p, n, mem, ac2, gs2)
  BY <1>6, <1>7 DEF Tale, Past
<1>12. FreeTale(p, m, n, mem, ac2, gs2) /\ AskTale(p, m, n, mem, ac2, gs2)
  BY <1>6, <1>7, <1>8, <1>10 DEF Tale, FreeTale, AskTale
<1>13. LoginTale(p, m, n, mem, ac2, gs2)
  BY <1>6, <1>7, <1>8, <1>10 DEF Tale, LoginTale
<1>14. AnswerTale(p, n, mem, gs2)
  BY <1>6, <1>8, <1>9 DEF Tale, AnswerTale
<1>15. ASSUME on PROVE OnlineTale(p, m, n, mem, ac2, gs2)
  <2>1. /\ Upto(ac2, Old(p, n), LoginReq(p, n))
        /\ Some(ac2, Old(p, n)) => Some(ac, Old(p, n))
        /\ x.session = n => ~ Some(ac2, Old(p, n))
        /\ x.session # n => Some(ac, Old(p, n))
    BY <1>3, <1>15, AskParts DEF Tale, OnlineTale, Takes
  <2>2. Some(ac, Old(p, n)) => Some(ac, LoginReq(p, n))
    BY <1>15 DEF Tale, OnlineTale
  <2>3. m.index
    BY <2>1, <2>2, <1>8 DEF Tale, LoginTale
  <2>4. Some(ac2, LoginReq(p, n)) \/ Some(gs2, Clear(p, n))
    BY <2>1, <2>2, <1>6, <1>10
  <2> QED BY <2>1, <2>2, <2>3, <2>4, <1>10 DEF OnlineTale, In
<1> QED BY <1>11, <1>12, <1>13, <1>14, <1>15 DEF Tale

\* The members named p, in the list mem and then in mem2, are not online any more.
SignedOff(p, mem, mem2) ==
    /\ \A s \in Places : mem2[s].who = p <=> mem[s].who = p
    /\ \A s \in Places : mem2[s].who = p => ~ mem2[s].online /\ mem2[s].session = 0

\* ACFMCharLogout
LEMMA GoneAway ==
    ASSUME NEW p \in Folk, NEW m \in MarksOf, NEW n \in Nat, NEW on \in BOOLEAN, NEW mem \in Lists,
           NEW mem2 \in Lists, NEW ac, NEW ac2, NEW gs, NEW x \in Requests,
           Tale(p, m, n, on, mem, ac, gs), Takes(p, ac, x, ac2),
           x.kind = "Logout", x.who = p,
           SignedOff(p, mem, mem2)
    PROVE  Tale(p, m, n, on, mem2, ac2, gs)
<1>0. /\ \A s \in Places : mem2[s].who = p <=> mem[s].who = p
      /\ \A s \in Places : mem2[s].who = p => ~ mem2[s].online /\ mem2[s].session = 0
  BY DEF SignedOff
<1> USE <1>0
<1>1. In(mem2, p) <=> In(mem, p)
  BY DEF In
<1>2. /\ x \notin Ask(p) /\ x \notin AskNow(p, n) /\ x \notin AddReq(p) /\ x \notin AddOld(p, n)
      /\ x \notin LoginReq(p, n) /\ x \in Old(p, n) /\ x \in Door(p)
  BY RequestKinds
<1>3. /\ Some(ac2, Ask(p)) <=> Some(ac, Ask(p))
      /\ Some(ac2, AddReq(p)) <=> Some(ac, AddReq(p))
      /\ Some(ac2, AddOld(p, n)) <=> Some(ac, AddOld(p, n))
      /\ Some(ac2, AskNow(p, n)) <=> Some(ac, AskNow(p, n))
      /\ Some(ac2, LoginReq(p, n)) <=> Some(ac, LoginReq(p, n))
      /\ Some(ac2, LaterReq(p, n)) => Some(ac, LaterReq(p, n))
      /\ Some(ac, Old(p, n)) /\ Some(ac, Door(p))
  BY <1>2, AskParts DEF Takes
<1>4. Alone(p, mem2) /\ Past(p, n, mem2, ac2, gs)
  BY <1>3 DEF Tale, Alone, Past
<1>5. FreeTale(p, m, n, mem2, ac2, gs)
  BY <1>3 DEF Tale, FreeTale
<1>6. AskTale(p, m, n, mem2, ac2, gs)
  <2>1. Upto(ac2, Ask(p), Ask(p)) /\ Upto(ac2, Ask(p), LoginReq(p, n))
    BY AskParts DEF Tale, AskTale, Takes
  <2> QED BY <2>1, <1>1, <1>3 DEF Tale, AskTale
<1>7. LoginTale(p, m, n, mem2, ac2, gs)
  <2>1. Upto(ac2, LoginReq(p, n), LoginReq(p, n))
    BY AskParts DEF Tale, LoginTale, Takes
  <2> QED BY <2>1, <1>3 DEF Tale, LoginTale
<1>8. AnswerTale(p, n, mem2, gs)
  BY <1>1 DEF Tale, AnswerTale
<1>9. ASSUME on PROVE OnlineTale(p, m, n, mem2, ac2, gs)
  <2>1. Upto(ac2, Old(p, n), LoginReq(p, n)) /\ Some(ac2, LoginReq(p, n))
    BY <1>3, <1>9, AskParts DEF Tale, OnlineTale, Takes
  <2> QED BY <2>1, <1>3, <1>9 DEF Tale, OnlineTale
<1> QED BY <1>4, <1>5, <1>6, <1>7, <1>8, <1>9 DEF Tale

----------------------------------------------------------------------------
\* The answers, on the game server.

\* An answer that finds nobody is dropped.
LEMMA Dropped ==
    ASSUME NEW p \in Folk, NEW m \in MarksOf, NEW n \in Nat, NEW mem \in Lists, NEW ac, NEW gs, NEW gs2, NEW x,
           Tale(p, m, n, FALSE, mem, ac, gs), Hears(p, n, gs, x, gs2)
    PROVE  Tale(p, m, n, FALSE, mem, ac, gs2)
<1>1. \A M \in SUBSET Told(p, n) : Some(gs2, M) => Some(gs, M)
  BY DEF Hears
<1>2. Past(p, n, mem, ac, gs2) /\ FreeTale(p, m, n, mem, ac, gs2)
  BY <1>1, ToldParts DEF Tale, Past, FreeTale
<1>3. AskTale(p, m, n, mem, ac, gs2) /\ LoginTale(p, m, n, mem, ac, gs2)
  BY <1>1, ToldParts DEF Tale, AskTale, LoginTale
<1>4. AnswerTale(p, n, mem, gs2)
  <2>1. /\ Upto(gs2, Verdict(p, n), Verdict(p, n)) /\ Upto(gs2, Verdict(p, n), Clear(p, n))
        /\ Upto(gs2, Tell(p, n), Clear(p, n))
    BY ToldParts DEF Tale, AnswerTale, Hears
  <2> QED BY <2>1, <1>1, ToldParts DEF Tale, AnswerTale
<1> QED BY <1>2, <1>3, <1>4 DEF Tale

\* ACAddFM: the family is founded.
LEMMA HearsFounded ==
    ASSUME NEW p \in Folk, NEW m \in MarksOf, NEW m2 \in MarksOf, NEW n \in Nat, NEW mem \in Lists,
           NEW ac, NEW gs, NEW gs2, NEW x \in Answers,
           Tale(p, m, n, TRUE, mem, ac, gs), Hears(p, n, gs, x, gs2),
           x.kind = "Add", x.who = p, x.session = n, x.ok,
           m2.index, m2.name = m.name, m2.flag = m.flag
    PROVE  Tale(p, m2, n, TRUE, mem, ac, gs2)
<1>1. /\ x \in Founded(p, n) /\ x \in Verdict(p, n) /\ x \notin Refusal(p, n) /\ x \notin Tell(p, n)
      /\ x \notin Clear(p, n)
  BY AnswerKinds
<1>2. /\ Some(gs, Verdict(p, n)) /\ ~ Some(gs2, Verdict(p, n))
      /\ Some(gs2, Refusal(p, n)) <=> Some(gs, Refusal(p, n))
      /\ Some(gs2, Tell(p, n)) <=> Some(gs, Tell(p, n))
      /\ Some(gs2, Clear(p, n)) <=> Some(gs, Clear(p, n))
      /\ Some(gs2, LaterAns(p, n)) => Some(gs, LaterAns(p, n))
  BY <1>1, ToldParts DEF Tale, AnswerTale, Hears
<1>3. m.name /\ ~ Some(ac, Ask(p)) /\ ~ Some(ac, AddReq(p)) /\ ~ Some(ac, LoginReq(p, n))
  <2>1. m.name /\ ~ Some(ac, Ask(p)) /\ ~ Some(ac, LoginReq(p, n))
    BY <1>2 DEF Tale, FreeTale, AskTale, LoginTale
  <2> QED BY <2>1, SomePart, AskParts
<1>4. m.flag \in Flags /\ \A s \in Places : mem[s].flag \in Flags
  BY DEF MarksOf, Lists, Ranked
<1>5. Past(p, n, mem, ac, gs2) /\ FreeTale(p, m2, n, mem, ac, gs2)
  BY <1>2, <1>3 DEF Tale, Past, FreeTale
<1>6. AskTale(p, m2, n, mem, ac, gs2) /\ LoginTale(p, m2, n, mem, ac, gs2)
  BY <1>3 DEF Tale, AskTale, LoginTale
<1>7. AnswerTale(p, n, mem, gs2)
  <2>1. /\ Upto(gs2, Verdict(p, n), Verdict(p, n)) /\ Upto(gs2, Verdict(p, n), Clear(p, n))
        /\ Upto(gs2, Tell(p, n), Clear(p, n))
    BY ToldParts DEF Tale, AnswerTale, Hears
  <2> QED BY <2>1, <1>2 DEF Tale, AnswerTale
<1>8. OnlineTale(p, m2, n, mem, ac, gs2)
  <2>1. ASSUME NEW s \in Places, mem[s].who = p PROVE LastIs(gs2, Tell(p, n), m2.flag, mem[s].flag)
    <3>1. LastIs(gs, Tell(p, n), m.flag, mem[s].flag)
      BY <2>1, <1>3 DEF Tale, OnlineTale
    <3> QED BY <3>1, <1>1, <1>4 DEF Hears
  <2> QED BY <2>1, <1>2, <1>3 DEF Tale, OnlineTale
<1> QED BY <1>5, <1>6, <1>7, <1>8 DEF Tale

\* ACAddFM and ACJoinFM: the character is refused.
LEMMA HearsRefused ==
    ASSUME NEW p \in Folk, NEW m \in MarksOf, NEW m2 \in MarksOf, NEW n \in Nat, NEW mem \in Lists,
           NEW ac, NEW gs, NEW gs2, NEW x \in Answers,
           Tale(p, m, n, TRUE, mem, ac, gs), Hears(p, n, gs, x, gs2),
           x.kind \in {"Add", "Join"}, x.who = p, x.session = n, ~ x.ok,
           ~ m2.index, ~ m2.name
    PROVE  Tale(p, m2, n, TRUE, mem, ac, gs2)
<1>1. x \in Verdict(p, n) /\ x \in Refusal(p, n)
  BY AnswerKinds
<1>2. /\ Some(gs, Verdict(p, n)) /\ ~ Some(gs2, Verdict(p, n)) /\ Some(gs, Refusal(p, n))
      /\ Some(gs2, Tell(p, n)) => Some(gs, Tell(p, n))
      /\ Some(gs2, LaterAns(p, n)) => Some(gs, LaterAns(p, n))
  BY <1>1, ToldParts DEF Tale, AnswerTale, Hears
<1>3. ~ Some(ac, Ask(p)) /\ ~ Some(ac, LoginReq(p, n)) /\ ~ Some(gs2, Tell(p, n)) /\ ~ In(mem, p)
  BY <1>2 DEF Tale, AskTale, LoginTale, AnswerTale
<1>4. ~ Some(ac, Door(p))
  <2>1. ~ Some(ac, Old(p, n))
    BY <1>3 DEF Tale, OnlineTale
  <2>2. Door(p) \subseteq LoginReq(p, n) \cup Old(p, n)
    BY DEF Door, LoginReq, Old
  <2>3. ~ Some(ac, LoginReq(p, n) \cup Old(p, n))
    BY <2>1, <1>3 DEF Some
  <2> QED BY <2>2, <2>3, SomePart
<1>5. Past(p, n, mem, ac, gs2)
  BY <1>2 DEF Tale, Past
<1> QED BY <1>2, <1>3, <1>4, <1>5, FreeIsFine

\* ACFMCharLogin: the character is no member any more.
LEMMA HearsStruckOff ==
    ASSUME NEW p \in Folk, NEW m \in MarksOf, NEW m2 \in MarksOf, NEW n \in Nat, NEW mem \in Lists,
           NEW ac, NEW gs, NEW gs2, NEW x \in Answers,
           Tale(p, m, n, TRUE, mem, ac, gs), Hears(p, n, gs, x, gs2),
           x.kind = "Login", x.who = p, x.session = n, ~ x.ok,
           ~ m2.index, ~ m2.name
    PROVE  Tale(p, m2, n, TRUE, mem, ac, gs2)
<1>1. x \in Tell(p, n) /\ x \in Clear(p, n)
  BY AnswerKinds
<1>2. /\ Some(gs, Tell(p, n)) /\ Some(gs, Clear(p, n))
      /\ ~ Some(gs2, Verdict(p, n)) /\ ~ Some(gs2, Tell(p, n))
      /\ Some(gs2, LaterAns(p, n)) => Some(gs, LaterAns(p, n))
  BY <1>1, ToldParts DEF Tale, AnswerTale, Hears
<1>3. ~ Some(ac, Ask(p)) /\ ~ Some(ac, LoginReq(p, n)) /\ ~ In(mem, p)
  BY <1>2 DEF Tale, AskTale, LoginTale, AnswerTale
<1>4. ~ Some(ac, Door(p))
  <2>1. ~ Some(ac, Old(p, n))
    BY <1>3 DEF Tale, OnlineTale
  <2>2. Door(p) \subseteq LoginReq(p, n) \cup Old(p, n)
    BY DEF Door, LoginReq, Old
  <2>3. ~ Some(ac, LoginReq(p, n) \cup Old(p, n))
    BY <2>1, <1>3 DEF Some
  <2> QED BY <2>2, <2>3, SomePart
<1>5. Past(p, n, mem, ac, gs2)
  BY <1>2 DEF Tale, Past
<1> QED BY <1>2, <1>3, <1>4, <1>5, FreeIsFine

\* ACFMCharLogin: the character is told its rank.
LEMMA HearsRank ==
    ASSUME NEW p \in Folk, NEW m \in MarksOf, NEW m2 \in MarksOf, NEW n \in Nat, NEW mem \in Lists,
           NEW ac, NEW gs, NEW gs2, NEW x \in Answers,
           Tale(p, m, n, TRUE, mem, ac, gs), Hears(p, n, gs, x, gs2),
           x.kind = "Login", x.who = p, x.session = n, x.ok,
           m2.index = m.index, m2.name = m.name, m2.flag = x.flag
    PROVE  Tale(p, m2, n, TRUE, mem, ac, gs2)
<1>1. /\ x \notin Founded(p, n) /\ x \notin Verdict(p, n) /\ x \notin Refusal(p, n) /\ x \in Tell(p, n)
      /\ x \notin Clear(p, n)
  BY AnswerKinds
<1>2. /\ Some(gs, Tell(p, n))
      /\ Some(gs2, Verdict(p, n)) <=> Some(gs, Verdict(p, n))
      /\ Some(gs2, Founded(p, n)) <=> Some(gs, Founded(p, n))
      /\ Some(gs2, Refusal(p, n)) <=> Some(gs, Refusal(p, n))
      /\ Some(gs2, Tell(p, n)) => Some(gs, Tell(p, n))
      /\ Some(gs2, Clear(p, n)) <=> Some(gs, Clear(p, n))
      /\ Some(gs2, LaterAns(p, n)) => Some(gs, LaterAns(p, n))
  BY <1>1, ToldParts DEF Hears
<1>3. ~ Some(ac, Ask(p)) /\ ~ Some(ac, AddReq(p)) /\ ~ Some(ac, LoginReq(p, n))
  <2>1. ~ Some(ac, Ask(p)) /\ ~ Some(ac, LoginReq(p, n))
    BY <1>2 DEF Tale, AskTale, LoginTale
  <2> QED BY <2>1, SomePart, AskParts
<1>4. m.flag \in Flags /\ \A s \in Places : mem[s].flag \in Flags
  BY DEF MarksOf, Lists, Ranked
<1>5. Past(p, n, mem, ac, gs2) /\ FreeTale(p, m2, n, mem, ac, gs2)
  BY <1>2 DEF Tale, Past, FreeTale
<1>6. AskTale(p, m2, n, mem, ac, gs2) /\ LoginTale(p, m2, n, mem, ac, gs2)
  BY <1>3 DEF Tale, AskTale, LoginTale
<1>7. AnswerTale(p, n, mem, gs2)
  <2>1. /\ Upto(gs2, Verdict(p, n), Verdict(p, n)) /\ Upto(gs2, Verdict(p, n), Clear(p, n))
        /\ Upto(gs2, Tell(p, n), Clear(p, n))
    BY ToldParts DEF Tale, AnswerTale, Hears
  <2> QED BY <2>1, <1>2 DEF Tale, AnswerTale
<1>8. OnlineTale(p, m2, n, mem, ac, gs2)
  <2>1. ASSUME NEW s \in Places, mem[s].who = p PROVE LastIs(gs2, Tell(p, n), m2.flag, mem[s].flag)
    <3>1. LastIs(gs, Tell(p, n), m.flag, mem[s].flag)
      BY <2>1, <1>3 DEF Tale, OnlineTale
    <3> QED BY <3>1, <1>1, <1>4 DEF Hears
  <2> QED BY <2>1, <1>2, <1>3 DEF Tale, OnlineTale
<1> QED BY <1>5, <1>6, <1>7, <1>8 DEF Tale

\* ACLeaveFM and ACDelFM: marks that were cleared before are cleared.
LEMMA ClearedAgain ==
    ASSUME NEW p \in Folk, NEW m \in MarksOf, NEW m2 \in MarksOf, NEW n \in Nat, NEW on \in BOOLEAN, NEW mem \in Lists,
           NEW ac, NEW gs, Tale(p, m, n, on, mem, ac, gs), ~ m.name, ~ m2.index, ~ m2.name
    PROVE  Tale(p, m2, n, on, mem, ac, gs)
BY FreeIsFine DEF Tale, FreeTale

----------------------------------------------------------------------------
\* Everybody is told: the messages one after the other, in the order of the slots.

\* A set of numbers has a least one.
LEMMA FirstOfMany ==
    ASSUME NEW T \in SUBSET Nat, T # {}
    PROVE  \E k \in T : \A j \in T : k <= j
<1>1. PICK k \in T : \A j \in T : ~ (<<j, k>> \in OpToRel(<, Nat))
  BY NatLessThanWellFounded, WFMin
<1>2. \A j \in T : ~ (j < k)
  BY <1>1 DEF OpToRel
<1> QED BY <1>2

\* g puts the first k of the sequences q one after the other.
Strung(g, q, k) == \A i \in 1..k : g[i] = IF i = 1 THEN q[i] ELSE g[i - 1] \o q[i]

\* The streams can be strung together one by one.
LEMMA StrungExists ==
    ASSUME NEW S, NEW q \in Seq(Seq(S))
    PROVE  \A k \in 1..Len(q) : \E g \in [1..k -> Seq(S)] : Strung(g, q, k)
<1> DEFINE T == {k \in 1..Len(q) : ~ \E g \in [1..k -> Seq(S)] : Strung(g, q, k)}
<1>0. Len(q) \in Nat /\ \A i \in 1..Len(q) : q[i] \in Seq(S)
  BY LenProperties, ElementOfSeq
<1>1. SUFFICES ASSUME T # {} PROVE FALSE
  OBVIOUS
<1>2. PICK k \in T : \A j \in T : k <= j
  <2>1. T \in SUBSET Nat
    BY <1>0
  <2> HIDE DEF T
  <2> QED BY <1>1, <2>1, FirstOfMany
<1>3. k \in 1..Len(q) /\ k \in Nat /\ ~ \E g \in [1..k -> Seq(S)] : Strung(g, q, k)
  BY <1>0, <1>2
<1>4. CASE k = 1
  <2> DEFINE g == [i \in 1..k |-> q[i]]
  <2>1. g \in [1..k -> Seq(S)]
    BY <1>0, <1>3
  <2>2. Strung(g, q, k)
    BY <1>4 DEF Strung
  <2> QED BY <2>1, <2>2, <1>3
<1>5. CASE k # 1
  <2>1. k - 1 \in 1..Len(q) /\ k - 1 \notin T
    <3>1. k - 1 \in 1..Len(q) /\ k - 1 \in Nat /\ ~ (k <= k - 1)
      BY <1>0, <1>3, <1>5
    <3> HIDE DEF T
    <3> QED BY <3>1, <1>2
  <2>2. PICK h \in [1..(k - 1) -> Seq(S)] : Strung(h, q, k - 1)
    BY <2>1
  <2> DEFINE e == h[k - 1] \o q[k]
             g == [i \in 1..k |-> IF i = k THEN e ELSE h[i]]
  <2>3. h[k - 1] \in Seq(S) /\ q[k] \in Seq(S)
    BY <1>0, <1>3, <1>5
  <2>4. h[k - 1] \o q[k] \in Seq(S)
    BY <2>3, ConcatProperties
  <2>5. g \in [1..k -> Seq(S)]
    BY <2>4, <1>3
  <2>6. ASSUME NEW i \in 1..k PROVE g[i] = IF i = 1 THEN q[i] ELSE g[i - 1] \o q[i]
    <3>1. CASE i = k
      <4>1. g[k] = e /\ g[k - 1] = h[k - 1]
        <5> HIDE DEF e
        <5>1. k - 1 \in 1..k /\ k \in 1..k /\ k - 1 # k
          BY <1>3, <1>5
        <5> QED BY <5>1
      <4> QED BY <4>1, <3>1, <1>5
    <3>2. CASE i # k
      <4>1. i \in 1..(k - 1) /\ g[i] = h[i] /\ (i # 1 => g[i - 1] = h[i - 1])
        BY <3>2, <1>3
      <4>2. h[i] = IF i = 1 THEN q[i] ELSE h[i - 1] \o q[i]
        BY <4>1, <2>2 DEF Strung
      <4> QED BY <4>1, <4>2
    <3> QED BY <3>1, <3>2
  <2> QED BY <2>5, <2>6, <1>3 DEF Strung
<1> QED BY <1>4, <1>5

\* FlattenSeq is the last of those that are strung together.
LEMMA FlatIsStrung ==
    ASSUME NEW S, NEW q \in Seq(Seq(S)), Len(q) # 0
    PROVE  \E g \in [1..Len(q) -> Seq(S)] : Strung(g, q, Len(q)) /\ FlattenSeq(q) = g[Len(q)]
<1> DEFINE F(h) == [i \in 1..Len(q) |-> IF i = 1 THEN q[i] ELSE h[i - 1] \o q[i]]
           c == CHOOSE h : h = F(h)
<1>0. Len(q) \in Nat /\ Len(q) \in 1..Len(q)
  BY LenProperties
<1>1. FlattenSeq(q) = c[Len(q)]
  BY DEF FlattenSeq
<1>2. PICK g \in [1..Len(q) -> Seq(S)] : Strung(g, q, Len(q))
  BY <1>0, StrungExists
<1>3. g = F(g)
  BY <1>2 DEF Strung
<1>4. c = F(c)
  <2>1. \E h : h = F(h)
    BY <1>3
  <2> QED BY <2>1, Zenon
<1>5. \A i \in 1..Len(q) : c[i] = IF i = 1 THEN q[i] ELSE c[i - 1] \o q[i]
  <2> HIDE DEF c
  <2> QED BY <1>4
<1>6. \A i \in 1..Len(q) : c[i] = g[i]
  <2> HIDE DEF c, F
  <2> DEFINE T == {i \in 1..Len(q) : c[i] # g[i]}
  <2>1. SUFFICES ASSUME T # {} PROVE FALSE
    OBVIOUS
  <2>2. PICK k \in T : \A j \in T : k <= j
    <3>1. T \in SUBSET Nat
      BY <1>0
    <3> HIDE DEF T
    <3> QED BY <2>1, <3>1, FirstOfMany
  <2>3. k \in 1..Len(q) /\ c[k] # g[k]
    BY <2>2
  <2>4. k # 1 => k - 1 \in 1..Len(q) /\ c[k - 1] = g[k - 1]
    BY <2>2, <2>3, <1>0
  <2>5. /\ c[k] = IF k = 1 THEN q[k] ELSE c[k - 1] \o q[k]
        /\ g[k] = IF k = 1 THEN q[k] ELSE g[k - 1] \o q[k]
    BY <2>3, <1>2, <1>5 DEF Strung
  <2> QED BY <2>3, <2>4, <2>5
<1> QED BY <1>0, <1>1, <1>2, <1>6

\* The messages of the slots below k that have one.
OfSlots(w, q, k) ==
    /\ \A i \in DOMAIN w : \E j \in 1..k : Len(q[j]) = 1 /\ w[i] = q[j][1]
    /\ \A j \in 1..k : Len(q[j]) = 1 => \E i \in DOMAIN w : w[i] = q[j][1]
    /\ \A i, j \in DOMAIN w : i < j => w[i].slot < w[j].slot

\* What everybody is told is what every member is told, one after the other.
LEMMA FlatOfSlots ==
    ASSUME NEW q \in Seq(Seq(Answers)), Len(q) # 0,
           \A j \in 1..Len(q) : Len(q[j]) \in {0, 1} /\ (Len(q[j]) = 1 => q[j][1].slot = j - 1)
    PROVE  FlattenSeq(q) \in Seq(Answers) /\ OfSlots(FlattenSeq(q), q, Len(q))
<1>0. Len(q) \in Nat /\ Len(q) \in 1..Len(q) /\ \A i \in 1..Len(q) : q[i] \in Seq(Answers)
  BY LenProperties, ElementOfSeq
<1>1. PICK g \in [1..Len(q) -> Seq(Answers)] : Strung(g, q, Len(q)) /\ FlattenSeq(q) = g[Len(q)]
  BY FlatIsStrung
<1> DEFINE T == {k \in 1..Len(q) : ~ OfSlots(g[k], q, k)}
<1>2. SUFFICES ASSUME T # {} PROVE FALSE
  BY <1>0, <1>1
<1>3. PICK k \in T : \A j \in T : k <= j
  <2>1. T \in SUBSET Nat
    BY <1>0
  <2> HIDE DEF T
  <2> QED BY <1>2, <2>1, FirstOfMany
<1>4. k \in 1..Len(q) /\ k \in Nat /\ ~ OfSlots(g[k], q, k) /\ q[k] \in Seq(Answers)
  BY <1>0, <1>3
<1>5. Len(q[k]) \in {0, 1} /\ (Len(q[k]) = 1 => q[k][1].slot = k - 1) /\ DOMAIN q[k] = 1..Len(q[k])
  BY <1>4, LenProperties
<1>6. CASE k = 1
  <2>1. g[k] = q[k]
    BY <1>1, <1>4, <1>6 DEF Strung
  <2>2. DOMAIN q[k] = IF Len(q[k]) = 1 THEN {1} ELSE {}
    BY <1>5
  <2> QED BY <2>1, <2>2, <1>4, <1>6 DEF OfSlots
<1>7. CASE k # 1
  <2> DEFINE w == g[k - 1]
  <2>1. k - 1 \in 1..Len(q) /\ OfSlots(w, q, k - 1) /\ w \in Seq(Answers)
    <3>1. k - 1 \in 1..Len(q) /\ k - 1 \in Nat /\ ~ (k <= k - 1)
      BY <1>0, <1>4, <1>7
    <3>2. k - 1 \notin T
      <4> HIDE DEF T
      <4> QED BY <3>1, <1>3
    <3>3. g[k - 1] \in Seq(Answers)
      BY <3>1
    <3> QED BY <3>1, <3>2, <3>3
  <2>2. g[k] = w \o q[k]
    BY <1>1, <1>4, <1>7 DEF Strung
  <2> DEFINE u == q[k]
             v == w \o u
  <2>0. u \in Seq(Answers)
    BY <1>4
  <2> HIDE DEF w, u
  <2>3. /\ \A i \in DOMAIN w : i \in DOMAIN v /\ v[i] = w[i]
        /\ \A i \in DOMAIN u : i + Len(w) \in DOMAIN v /\ v[i + Len(w)] = u[i]
        /\ \A i \in DOMAIN v :
               \/ i \in DOMAIN w /\ v[i] = w[i]
               \/ i - Len(w) \in DOMAIN u /\ v[i] = u[i - Len(w)]
    BY <2>0, <2>1, Joints
  <2>4. Len(w) \in Nat /\ DOMAIN w = 1..Len(w) /\ DOMAIN u = IF Len(u) = 1 THEN {1} ELSE {}
    BY <2>1, <1>5, LenProperties DEF u
  <2>5. DOMAIN v \subseteq Nat
    <3>1. v \in Seq(Answers)
      BY <2>0, <2>1, Joints
    <3> HIDE DEF v
    <3>2. DOMAIN v = 1..Len(v) /\ Len(v) \in Nat
      BY <3>1, LenProperties
    <3> QED BY <3>2
  <2> HIDE DEF v
  <2>6. ASSUME NEW i \in DOMAIN v PROVE \E j \in 1..k : Len(q[j]) = 1 /\ v[i] = q[j][1]
    <3>1. CASE i \in DOMAIN w /\ v[i] = w[i]
      <4>1. PICK j \in 1..(k - 1) : Len(q[j]) = 1 /\ w[i] = q[j][1]
        BY <3>1, <2>1 DEF OfSlots
      <4> QED BY <4>1, <3>1, <1>4
    <3>2. CASE i - Len(w) \in DOMAIN u /\ v[i] = u[i - Len(w)]
      <4>1. Len(u) = 1 /\ v[i] = u[1]
        BY <3>2, <2>4
      <4>2. Len(q[k]) = 1 /\ v[i] = q[k][1]
        BY <4>1 DEF u
      <4>3. k \in 1..k
        BY <1>4
      <4> QED BY <4>2, <4>3
    <3> QED BY <3>1, <3>2, <2>3
  <2>7. ASSUME NEW j \in 1..k, Len(q[j]) = 1 PROVE \E i \in DOMAIN v : v[i] = q[j][1]
    <3>1. CASE j = k
      BY <3>1, <2>3, <2>4, <2>7 DEF u
    <3>2. CASE j # k
      <4>1. j \in 1..(k - 1)
        BY <3>2, <1>4
      <4> QED BY <4>1, <2>1, <2>3, <2>7 DEF OfSlots
    <3> QED BY <3>1, <3>2
  <2>8. ASSUME NEW i \in DOMAIN v, NEW j \in DOMAIN v, i < j PROVE v[i].slot < v[j].slot
    <3>1. CASE i \in DOMAIN w /\ v[i] = w[i] /\ j \in DOMAIN w /\ v[j] = w[j]
      BY <3>1, <2>1, <2>8 DEF OfSlots
    <3>2. CASE i \in DOMAIN w /\ v[i] = w[i] /\ j - Len(w) \in DOMAIN u /\ v[j] = u[j - Len(w)]
      <4>1. PICK l \in 1..(k - 1) : Len(q[l]) = 1 /\ w[i] = q[l][1]
        BY <3>2, <2>1 DEF OfSlots
      <4>2. l \in 1..Len(q) /\ l < k /\ l \in Nat
        BY <1>0, <1>4
      <4>4. q[l][1].slot = l - 1
        BY <4>1, <4>2
      <4>3. v[j].slot = k - 1
        BY <3>2, <2>4, <1>5 DEF u
      <4> QED BY <4>1, <4>2, <4>3, <4>4, <3>2, <1>4
    <3>3. CASE i - Len(w) \in DOMAIN u /\ j \in DOMAIN w
      BY <3>3, <2>4, <2>5, <2>8
    <3>4. CASE i - Len(w) \in DOMAIN u /\ j - Len(w) \in DOMAIN u
      BY <3>4, <2>4, <2>5, <2>8
    <3> QED BY <3>1, <3>2, <3>3, <3>4, <2>3
  <2>9. OfSlots(v, q, k)
    BY <2>6, <2>7, <2>8 DEF OfSlots
  <2> QED BY <2>9, <2>2, <1>4 DEF v, w, u
<1> QED BY <1>6, <1>7

----------------------------------------------------------------------------
\* The list and its counts.

Seats(f) ==
    \A s \in Places : /\ f.member[s].flag = "NONE" <=> f.member[s].who = NoOne
                      /\ f.member[s].online => f.member[s].who # NoOne
                      /\ f.member[s].who # NoOne => f.used /\ s < f.top

Counts(f, sl) ==
    /\ ~ f.used => sl = 0
    /\ f.used => /\ f.member[0].flag = "LEADER"
                 /\ \A s \in Places \ {0} : f.member[s].flag # "LEADER"
                 /\ Count(f.member, {"ELDER"}) <= ElderMax
                 /\ f.num = Count(f.member, Flags \ {"NONE"})
                 /\ f.joined = Count(f.member, Joined) + sl

ListInv == Seats(family) /\ Counts(family, slips)

\* The places are finitely many numbers, from 0.
LEMMA PlacesFacts == Places \subseteq Nat /\ 0 \in Places /\ IsFiniteSet(Places) /\ -1 \notin Places
                     /\ \A s \in Places : s < MemberMax
<1>1. MemberMax \in Nat \ {0}
  BY DEF FamilyAssumption
<1>2. Places \subseteq Nat /\ 0 \in Places /\ -1 \notin Places /\ \A s \in Places : s < MemberMax
  BY <1>1 DEF Places
<1>3. IsFiniteSet(Places)
  BY <1>1, FS_Interval DEF Places
<1> QED BY <1>2, <1>3

\* The flag of one place changes.
LEMMA CountOne ==
    ASSUME NEW mem \in Lists, NEW mem2 \in Lists, NEW s \in Places, NEW F,
           \A t \in Places \ {s} : mem2[t].flag = mem[t].flag
    PROVE  /\ Count(mem, F) \in Nat
           /\ Count(mem2, F) = Count(mem, F) - (IF mem[s].flag \in F THEN 1 ELSE 0) + (IF mem2[s].flag \in F THEN 1 ELSE 0)
<1> DEFINE A == {t \in Places : mem[t].flag \in F}
           B == {t \in Places : mem2[t].flag \in F}
<1>1. IsFiniteSet(A) /\ IsFiniteSet(B)
  BY PlacesFacts, FS_Subset
<1>2. A \ {s} = B \ {s}
  OBVIOUS
<1>3. s \in A <=> mem[s].flag \in F
  OBVIOUS
<1>4. s \in B <=> mem2[s].flag \in F
  OBVIOUS
<1>5. Count(mem, F) = Cardinality(A) /\ Count(mem2, F) = Cardinality(B)
  BY DEF Count
<1> HIDE DEF A, B
<1>6. /\ Cardinality(A) \in Nat /\ Cardinality(B) \in Nat
      /\ Cardinality(A \ {s}) = IF s \in A THEN Cardinality(A) - 1 ELSE Cardinality(A)
      /\ Cardinality(B \ {s}) = IF s \in B THEN Cardinality(B) - 1 ELSE Cardinality(B)
  <2>1. Cardinality(A) \in Nat /\ Cardinality(B) \in Nat
    BY <1>1, FS_CardinalityType
  <2>2. Cardinality(A \ {s}) = IF s \in A THEN Cardinality(A) - 1 ELSE Cardinality(A)
    BY <1>1, FS_RemoveElement
  <2>3. Cardinality(B \ {s}) = IF s \in B THEN Cardinality(B) - 1 ELSE Cardinality(B)
    BY <1>1, FS_RemoveElement
  <2> QED BY <2>1, <2>2, <2>3
<1>7. Cardinality(A \ {s}) = Cardinality(B \ {s})
  BY <1>2
<1> DEFINE a == Cardinality(A)
           b == Cardinality(B)
           c == Cardinality(A \ {s})
<1>8. a \in Nat /\ b \in Nat /\ c = (IF s \in A THEN a - 1 ELSE a) /\ c = (IF s \in B THEN b - 1 ELSE b)
  BY <1>6, <1>7
<1> HIDE DEF a, b, c
<1>9. a \in Nat /\ b = a - (IF mem[s].flag \in F THEN 1 ELSE 0) + (IF mem2[s].flag \in F THEN 1 ELSE 0)
  BY <1>3, <1>4, <1>8
<1> QED BY <1>5, <1>9 DEF a, b

\* Nobody's flag changes.
LEMMA CountSame ==
    ASSUME NEW mem \in Lists, NEW mem2 \in Lists, NEW F, \A t \in Places : mem2[t].flag = mem[t].flag
    PROVE  Count(mem2, F) = Count(mem, F)
BY DEF Count

\* Nobody is counted.
LEMMA CountNone ==
    ASSUME NEW mem \in Lists, NEW F, \A t \in Places : mem[t].flag \notin F
    PROVE  Count(mem, F) = 0
<1>1. {t \in Places : mem[t].flag \in F} = {}
  OBVIOUS
<1> QED BY <1>1, FS_EmptySet DEF Count

\* The sets of flags that are counted.
LEMMA CountedFlags ==
    /\ "ELDER" \in {"ELDER"} /\ "LEADER" \notin {"ELDER"} /\ "APPLY" \notin {"ELDER"} /\ "MEMBER" \notin {"ELDER"} /\ "NONE" \notin {"ELDER"}
    /\ {"LEADER", "ELDER", "MEMBER"} \subseteq Joined /\ "APPLY" \notin Joined /\ "NONE" \notin Joined
    /\ {"LEADER", "ELDER", "MEMBER", "APPLY"} \subseteq Flags \ {"NONE"} /\ "NONE" \notin Flags \ {"NONE"}
    /\ Flags = {"LEADER", "ELDER", "MEMBER", "APPLY", "NONE"}
BY DEF Joined, Flags

\* ACAddFM
LEMMA ListFounded ==
    ASSUME NEW f \in Families, NEW f2 \in Families, NEW sl \in Int, Seats(f), Counts(f, sl), ~ f.used,
           f2.used, f2.num = 1, f2.joined = 1, f2.top = 1,
           f2.member[0].flag = "LEADER", f2.member[0].who \in Folk,
           \A t \in Places \ {0} : f2.member[t] = f.member[t]
    PROVE  Seats(f2) /\ Counts(f2, sl)
<1>0. f.member \in Lists /\ f2.member \in Lists /\ ElderMax \in Nat /\ NoOne \notin Folk
  BY DEF Families, FamilyAssumption
<1>1. \A t \in Places : f.member[t].flag = "NONE" /\ f.member[t].who = NoOne
  BY DEF Seats
<1>2. Seats(f2)
  BY <1>0, <1>1, PlacesFacts DEF Seats
<1>3. Count(f.member, {"ELDER"}) = 0 /\ Count(f.member, Joined) = 0 /\ Count(f.member, Flags \ {"NONE"}) = 0
  BY <1>0, <1>1, CountNone, CountedFlags
<1>4. Count(f2.member, {"ELDER"}) = 0 /\ Count(f2.member, Joined) = 1 /\ Count(f2.member, Flags \ {"NONE"}) = 1
  BY <1>0, <1>1, <1>3, CountOne, CountedFlags, PlacesFacts
<1> QED BY <1>0, <1>1, <1>2, <1>4 DEF Counts

\* ACJoinFM
LEMMA ListJoined ==
    ASSUME NEW f \in Families, NEW f2 \in Families, NEW sl \in Int, NEW s \in Places \ {0},
           Seats(f), Counts(f, sl), f.used, f.member[s].who = NoOne,
           f2.used, f2.num = f.num + 1, f2.joined = f.joined, f2.top > s, f2.top >= f.top,
           f2.member[s].flag = "APPLY", f2.member[s].who \in Folk,
           \A t \in Places \ {s} : f2.member[t] = f.member[t]
    PROVE  Seats(f2) /\ Counts(f2, sl)
<1>0. f.member \in Lists /\ f2.member \in Lists /\ NoOne \notin Folk
      /\ f.top \in Int /\ f2.top \in Int /\ s \in Places
  BY DEF Families, FamilyAssumption
<1>1. f.member[s].flag = "NONE"
  BY DEF Seats
<1>2. Seats(f2)
  <2>1. ASSUME NEW t \in Places \ {s}, f2.member[t].who # NoOne PROVE t < f2.top
    <3>1. t < f.top
      BY <2>1 DEF Seats
    <3> QED BY <3>1, <1>0, PlacesFacts
  <2> QED BY <2>1, <1>0, PlacesFacts DEF Seats
<1>3. /\ Count(f2.member, {"ELDER"}) = Count(f.member, {"ELDER"})
      /\ Count(f2.member, Joined) = Count(f.member, Joined)
      /\ Count(f2.member, Flags \ {"NONE"}) = Count(f.member, Flags \ {"NONE"}) + 1
  <2>1. /\ Count(f.member, {"ELDER"}) \in Nat /\ Count(f.member, Joined) \in Nat /\ Count(f.member, Flags \ {"NONE"}) \in Nat
    BY <1>0, CountOne
  <2>2. ASSUME NEW F
        PROVE  Count(f2.member, F) = Count(f.member, F) - (IF "NONE" \in F THEN 1 ELSE 0) + (IF "APPLY" \in F THEN 1 ELSE 0)
    BY <1>0, <1>1, CountOne
  <2>3. Count(f2.member, {"ELDER"}) = Count(f.member, {"ELDER"})
    BY <2>1, <2>2
  <2>4. Count(f2.member, Joined) = Count(f.member, Joined)
    BY <2>1, <2>2, CountedFlags
  <2>5. Count(f2.member, Flags \ {"NONE"}) = Count(f.member, Flags \ {"NONE"}) + 1
    <3>1. Count(f2.member, Flags \ {"NONE"}) = Count(f.member, Flags \ {"NONE"})
             - (IF "NONE" \in Flags \ {"NONE"} THEN 1 ELSE 0) + (IF "APPLY" \in Flags \ {"NONE"} THEN 1 ELSE 0)
      BY <2>2
    <3>2. "NONE" \notin Flags \ {"NONE"} /\ "APPLY" \in Flags \ {"NONE"}
      BY CountedFlags
    <3> QED BY <2>1, <3>1, <3>2
  <2> QED BY <2>3, <2>4, <2>5
<1>4. f2.member[0] = f.member[0] /\ \A t \in Places \ {0} : f2.member[t].flag # "LEADER"
  BY PlacesFacts DEF Counts
<1>5. f.num = Count(f.member, Flags \ {"NONE"}) /\ f.joined = Count(f.member, Joined) + sl
      /\ Count(f.member, {"ELDER"}) <= ElderMax /\ f.member[0].flag = "LEADER"
  BY DEF Counts
<1>6. Counts(f2, sl)
  BY <1>3, <1>4, <1>5 DEF Counts
<1> QED BY <1>2, <1>6

\* f2 and sl2 are the record f and the number sl of slips without the member in
\* place s; the counts were taken anew, or not.
Emptied(f, sl, s, anew, f2, sl2) ==
    /\ f2.used /\ f2.top = f.top /\ f2.member[s] = NoMember
    /\ f2.num = IF anew THEN Count(f2.member, Flags \ {"NONE"}) ELSE f.num - 1
    /\ f2.joined = IF anew THEN Count(f2.member, Joined)
                   ELSE f.joined - (IF f.member[s].flag = "APPLY" THEN 0 ELSE 1)
    /\ sl2 = IF anew THEN 0 ELSE sl
    /\ \A t \in Places \ {s} : f2.member[t] = f.member[t]

\* ACMemberLeaveFM and ACLeaveFM
LEMMA ListLeft ==
    ASSUME NEW f \in Families, NEW f2 \in Families, NEW sl \in Int, NEW sl2 \in Int, NEW s \in Places \ {0}, NEW anew \in BOOLEAN,
           Seats(f), Counts(f, sl), f.used, f.member[s].who # NoOne, Emptied(f, sl, s, anew, f2, sl2)
    PROVE  Seats(f2) /\ Counts(f2, sl2)
<1>20. /\ f2.used /\ f2.top = f.top /\ f2.member[s] = NoMember
       /\ f2.num = IF anew THEN Count(f2.member, Flags \ {"NONE"}) ELSE f.num - 1
       /\ f2.joined = IF anew THEN Count(f2.member, Joined)
                      ELSE f.joined - (IF f.member[s].flag = "APPLY" THEN 0 ELSE 1)
       /\ sl2 = IF anew THEN 0 ELSE sl
       /\ \A t \in Places \ {s} : f2.member[t] = f.member[t]
  BY DEF Emptied
<1> USE <1>20
<1>0. f.member \in Lists /\ f2.member \in Lists /\ NoOne \notin Folk /\ s \in Places /\ ElderMax \in Nat
      /\ f.num \in Int /\ f.joined \in Int
  BY DEF Families, FamilyAssumption
<1>1. f.member[s].flag \in {"MEMBER", "APPLY", "ELDER"} /\ f2.member[s].flag = "NONE"
  <2>1. f.member[s].flag # "NONE" /\ f.member[s].flag # "LEADER"
    BY DEF Seats, Counts
  <2>2. f.member[s].flag \in Flags
    BY <1>0 DEF Lists, Ranked
  <2> QED BY <2>1, <2>2, CountedFlags DEF NoMember
<1>2. Seats(f2)
  BY DEF Seats, NoMember
<1>3. /\ Count(f2.member, {"ELDER"}) <= Count(f.member, {"ELDER"})
      /\ Count(f2.member, Joined) = Count(f.member, Joined) - (IF f.member[s].flag = "APPLY" THEN 0 ELSE 1)
      /\ Count(f2.member, Flags \ {"NONE"}) = Count(f.member, Flags \ {"NONE"}) - 1
      /\ Count(f.member, {"ELDER"}) \in Nat /\ Count(f2.member, {"ELDER"}) \in Nat
      /\ Count(f.member, Joined) \in Nat /\ Count(f.member, Flags \ {"NONE"}) \in Nat
      /\ Count(f2.member, Joined) \in Nat
  <2>1. /\ Count(f.member, {"ELDER"}) \in Nat /\ Count(f.member, Joined) \in Nat /\ Count(f.member, Flags \ {"NONE"}) \in Nat
        /\ Count(f2.member, {"ELDER"}) \in Nat /\ Count(f2.member, Joined) \in Nat
    BY <1>0, CountOne
  <2>2. Count(f2.member, {"ELDER"}) = Count(f.member, {"ELDER"}) - (IF f.member[s].flag \in {"ELDER"} THEN 1 ELSE 0)
    BY <2>1, <1>0, <1>1, CountOne, CountedFlags
  <2>3. Count(f2.member, Joined) = Count(f.member, Joined) - (IF f.member[s].flag \in Joined THEN 1 ELSE 0)
    BY <2>1, <1>0, <1>1, CountOne, CountedFlags
  <2>4. Count(f2.member, Flags \ {"NONE"}) = Count(f.member, Flags \ {"NONE"}) - (IF f.member[s].flag \in Flags \ {"NONE"} THEN 1 ELSE 0)
    BY <2>1, <1>0, <1>1, CountOne, CountedFlags
  <2> QED BY <2>1, <2>2, <2>3, <2>4, <1>1, CountedFlags
<1>4. /\ f2.member[0].flag = "LEADER" /\ \A t \in Places \ {0} : f2.member[t].flag # "LEADER"
  BY <1>1, PlacesFacts DEF Counts
<1>5. Count(f2.member, {"ELDER"}) <= ElderMax
  BY <1>0, <1>3 DEF Counts
<1>6. f2.num = Count(f2.member, Flags \ {"NONE"})
  BY <1>0, <1>3 DEF Counts
<1>7. f2.joined = Count(f2.member, Joined) + sl2
  BY <1>0, <1>3 DEF Counts
<1> QED BY <1>2, <1>4, <1>5, <1>6, <1>7 DEF Counts

\* f2 is the record f with another rank of the member in place s.
Promoted(f, s, rank, f2) ==
    /\ rank = "ELDER" => Count(f.member, {"ELDER"}) < ElderMax
    /\ f2.used /\ f2.num = f.num /\ f2.top >= f.top /\ f2.member[s].flag = rank
    /\ f2.member[s].who = f.member[s].who
    /\ f2.joined = f.joined + (IF f.member[s].flag = "APPLY" THEN 1 ELSE 0)
    /\ \A t \in Places \ {s} : f2.member[t] = f.member[t]

\* ACMemberJoinFM: a rank is given.
LEMMA ListRanked ==
    ASSUME NEW f \in Families, NEW f2 \in Families, NEW sl \in Int, NEW s \in Places \ {0}, NEW rank \in {"MEMBER", "ELDER"},
           Seats(f), Counts(f, sl), f.used, f.member[s].who # NoOne, Promoted(f, s, rank, f2)
    PROVE  Seats(f2) /\ Counts(f2, sl)
<1>20. /\ rank = "ELDER" => Count(f.member, {"ELDER"}) < ElderMax
       /\ f2.used /\ f2.num = f.num /\ f2.top >= f.top /\ f2.member[s].flag = rank
       /\ f2.member[s].who = f.member[s].who
       /\ f2.joined = f.joined + (IF f.member[s].flag = "APPLY" THEN 1 ELSE 0)
       /\ \A t \in Places \ {s} : f2.member[t] = f.member[t]
  BY DEF Promoted
<1> USE <1>20
<1>0. f.member \in Lists /\ f2.member \in Lists /\ NoOne \notin Folk /\ s \in Places /\ ElderMax \in Nat
      /\ f.num \in Int /\ f.joined \in Int /\ f.top \in Int /\ f2.top \in Int
  BY DEF Families, FamilyAssumption
<1>1. f.member[s].flag \in {"MEMBER", "APPLY", "ELDER"}
  <2>1. f.member[s].flag # "NONE" /\ f.member[s].flag # "LEADER"
    BY DEF Seats, Counts
  <2>2. f.member[s].flag \in Flags
    BY <1>0 DEF Lists, Ranked
  <2> QED BY <2>1, <2>2, CountedFlags
<1>2. Seats(f2)
  <2>1. ASSUME NEW t \in Places, f2.member[t].who # NoOne PROVE t < f2.top
    <3>1. t < f.top
      BY <2>1 DEF Seats
    <3> QED BY <3>1, <1>0, PlacesFacts
  <2> QED BY <2>1 DEF Seats
<1>3. /\ Count(f.member, {"ELDER"}) \in Nat /\ Count(f.member, Joined) \in Nat /\ Count(f.member, Flags \ {"NONE"}) \in Nat
      /\ Count(f2.member, {"ELDER"}) \in Nat
  BY <1>0, CountOne
<1>4. Count(f2.member, {"ELDER"}) = Count(f.member, {"ELDER"}) - (IF f.member[s].flag \in {"ELDER"} THEN 1 ELSE 0)
                                    + (IF rank \in {"ELDER"} THEN 1 ELSE 0)
  BY <1>0, CountOne
<1>5. Count(f2.member, Joined) = Count(f.member, Joined) + (IF f.member[s].flag = "APPLY" THEN 1 ELSE 0)
  <2>1. Count(f2.member, Joined) = Count(f.member, Joined) - (IF f.member[s].flag \in Joined THEN 1 ELSE 0)
                                    + (IF rank \in Joined THEN 1 ELSE 0)
    BY <1>0, CountOne
  <2>2. rank \in Joined /\ (f.member[s].flag \in Joined <=> f.member[s].flag # "APPLY")
    BY <1>1, CountedFlags
  <2> QED BY <2>1, <2>2, <1>3
<1>6. Count(f2.member, Flags \ {"NONE"}) = Count(f.member, Flags \ {"NONE"})
  <2>1. Count(f2.member, Flags \ {"NONE"}) = Count(f.member, Flags \ {"NONE"})
                                    - (IF f.member[s].flag \in Flags \ {"NONE"} THEN 1 ELSE 0)
                                    + (IF rank \in Flags \ {"NONE"} THEN 1 ELSE 0)
    BY <1>0, CountOne
  <2>2. rank \in Flags \ {"NONE"} /\ f.member[s].flag \in Flags \ {"NONE"}
    BY <1>1, CountedFlags
  <2> QED BY <2>1, <2>2, <1>3
<1>7. Count(f2.member, {"ELDER"}) <= ElderMax
  <2>1. Count(f.member, {"ELDER"}) <= ElderMax
    BY DEF Counts
  <2> QED BY <2>1, <1>0, <1>3, <1>4
<1>8. /\ f2.member[0].flag = "LEADER" /\ \A t \in Places \ {0} : f2.member[t].flag # "LEADER"
  BY PlacesFacts DEF Counts
<1>9. f2.joined = Count(f2.member, Joined) + sl
  BY <1>0, <1>3, <1>5 DEF Counts
<1> QED BY <1>2, <1>6, <1>7, <1>8, <1>9 DEF Counts

\* f2 and sl2 are the record f and the number sl of slips when the leader and the
\* member in place s have changed places.
Swapped(f, sl, s, f2, sl2) ==
    /\ f2.used /\ f2.num = f.num /\ f2.joined = f.joined /\ f2.top = f.top
    /\ f2.member[0].flag = "LEADER" /\ f2.member[0].who = f.member[s].who
    /\ s # 0 => f2.member[s].flag = "MEMBER" /\ f2.member[s].who = f.member[0].who
    /\ sl2 = sl - (IF f.member[s].flag = "APPLY" THEN 1 ELSE 0)
    /\ \A t \in Places \ {0, s} : f2.member[t] = f.member[t]

\* ACFixFMLeader: the two change places.
LEMMA ListSwapped ==
    ASSUME NEW f \in Families, NEW f2 \in Families, NEW sl \in Int, NEW sl2 \in Int, NEW s \in Places,
           Seats(f), Counts(f, sl), f.used, f.member[s].who # NoOne, Swapped(f, sl, s, f2, sl2)
    PROVE  Seats(f2) /\ Counts(f2, sl2)
<1>20. /\ f2.used /\ f2.num = f.num /\ f2.joined = f.joined /\ f2.top = f.top
       /\ f2.member[0].flag = "LEADER" /\ f2.member[0].who = f.member[s].who
       /\ s # 0 => f2.member[s].flag = "MEMBER" /\ f2.member[s].who = f.member[0].who
       /\ sl2 = sl - (IF f.member[s].flag = "APPLY" THEN 1 ELSE 0)
       /\ \A t \in Places \ {0, s} : f2.member[t] = f.member[t]
  BY DEF Swapped
<1> USE <1>20
<1>0. f.member \in Lists /\ f2.member \in Lists /\ NoOne \notin Folk /\ ElderMax \in Nat
      /\ f.num \in Int /\ f.joined \in Int /\ f.top \in Int /\ 0 \in Places
  BY PlacesFacts DEF Families, FamilyAssumption
<1>1. f.member[0].flag = "LEADER" /\ f.member[0].who # NoOne /\ f.member[0].flag # "APPLY"
  BY <1>0 DEF Seats, Counts
<1>2. CASE s = 0
  <2>1. \A t \in Places : f2.member[t].flag = f.member[t].flag /\ f2.member[t].who = f.member[t].who
    BY <1>1, <1>2
  <2>2. \A t \in Places : f2.member[t].online => f2.member[t].who # NoOne
    BY <1>1, <1>2, <2>1 DEF Seats
  <2>3. Seats(f2)
    BY <2>1, <2>2 DEF Seats
  <2>4. sl2 = sl
    BY <1>1, <1>2
  <2> QED BY <1>0, <2>1, <2>3, <2>4, CountSame DEF Counts
<1>3. CASE s # 0
  <2>1. f.member[s].flag \in {"MEMBER", "APPLY", "ELDER"}
    <3>1. f.member[s].flag # "NONE" /\ f.member[s].flag # "LEADER"
      BY <1>3 DEF Seats, Counts
    <3>2. f.member[s].flag \in Flags
      BY <1>0 DEF Lists, Ranked
    <3> QED BY <3>1, <3>2, CountedFlags
  <2>2. \A t \in Places : f2.member[t].who # NoOne => t < f2.top
    BY <1>0, <1>1 DEF Seats
  <2>3. \A t \in Places : (f2.member[t].flag = "NONE" <=> f2.member[t].who = NoOne) /\ (f2.member[t].online => f2.member[t].who # NoOne)
    <3>1. \A t \in Places \ {0, s} : (f2.member[t].flag = "NONE" <=> f2.member[t].who = NoOne) /\ (f2.member[t].online => f2.member[t].who # NoOne)
      BY DEF Seats
    <3>2. f2.member[0].flag # "NONE" /\ f2.member[0].who # NoOne /\ f2.member[s].flag # "NONE" /\ f2.member[s].who # NoOne
      BY <1>1, <1>3
    <3> QED BY <3>1, <3>2
  <2>4. Seats(f2)
    BY <2>2, <2>3 DEF Seats
  <2> DEFINE mid == [f.member EXCEPT ![s] = f2.member[s]]
  <2>5. mid \in Lists /\ (\A t \in Places \ {s} : mid[t].flag = f.member[t].flag) /\ mid[s] = f2.member[s]
        /\ \A t \in Places \ {0} : f2.member[t].flag = mid[t].flag
    <3>1. f2.member[s] \in Ranked
      BY <1>0 DEF Lists
    <3> QED BY <3>1, <1>0 DEF Lists
  <2>6. mid[0].flag = "LEADER"
    BY <2>5, <1>0, <1>1, <1>3
  <2> HIDE DEF mid
  <2>7. ASSUME NEW F
        PROVE  /\ Count(f.member, F) \in Nat
               /\ Count(f2.member, F) = Count(f.member, F) - (IF f.member[s].flag \in F THEN 1 ELSE 0)
                                        + (IF "MEMBER" \in F THEN 1 ELSE 0)
    <3>1. /\ Count(f.member, F) \in Nat
          /\ Count(mid, F) = Count(f.member, F) - (IF f.member[s].flag \in F THEN 1 ELSE 0) + (IF mid[s].flag \in F THEN 1 ELSE 0)
      BY <1>0, <2>5, CountOne
    <3>2. /\ Count(mid, F) \in Nat
          /\ Count(f2.member, F) = Count(mid, F) - (IF mid[0].flag \in F THEN 1 ELSE 0) + (IF f2.member[0].flag \in F THEN 1 ELSE 0)
      BY <1>0, <2>5, CountOne
    <3>3. mid[s].flag = "MEMBER" /\ mid[0].flag = f2.member[0].flag
      BY <2>5, <2>6, <1>3
    <3> QED BY <3>1, <3>2, <3>3
  <2>8. Count(f2.member, {"ELDER"}) <= ElderMax
    <3>1. Count(f.member, {"ELDER"}) <= ElderMax
      BY DEF Counts
    <3> QED BY <3>1, <2>7, <1>0, CountedFlags
  <2>9. Count(f2.member, Joined) = Count(f.member, Joined) + (IF f.member[s].flag = "APPLY" THEN 1 ELSE 0) /\ Count(f.member, Joined) \in Nat
    <3>1. "MEMBER" \in Joined /\ (f.member[s].flag \in Joined <=> f.member[s].flag # "APPLY")
      BY <2>1, CountedFlags
    <3> QED BY <3>1, <2>7
  <2>10. Count(f2.member, Flags \ {"NONE"}) = Count(f.member, Flags \ {"NONE"})
    <3>1. "MEMBER" \in Flags \ {"NONE"} /\ f.member[s].flag \in Flags \ {"NONE"}
      BY <2>1, CountedFlags
    <3> QED BY <3>1, <2>7
  <2>11. f2.joined = Count(f2.member, Joined) + sl2
    BY <1>0, <2>9 DEF Counts
  <2>12. f2.member[0].flag = "LEADER" /\ \A t \in Places \ {0} : f2.member[t].flag # "LEADER"
    BY <1>3 DEF Counts
  <2> QED BY <2>4, <2>8, <2>10, <2>11, <2>12 DEF Counts
<1> QED BY <1>2, <1>3

\* Nobody changes rank: logins and logouts, and applicants that are only counted.
SameRanks(f, sl, f2, sl2) ==
    /\ f2.used /\ f2.num = f.num /\ f2.joined = f.joined + (sl2 - sl) /\ f2.top >= f.top
    /\ \A t \in Places : /\ f2.member[t].flag = f.member[t].flag /\ f2.member[t].who = f.member[t].who
                         /\ f2.member[t].online => f2.member[t].who # NoOne

\* Then list and counts stay right.
LEMMA ListKept ==
    ASSUME NEW f \in Families, NEW f2 \in Families, NEW sl \in Int, NEW sl2 \in Int,
           Seats(f), Counts(f, sl), f.used, SameRanks(f, sl, f2, sl2)
    PROVE  Seats(f2) /\ Counts(f2, sl2)
<1>20. /\ f2.used /\ f2.num = f.num /\ f2.joined = f.joined + (sl2 - sl) /\ f2.top >= f.top
       /\ \A t \in Places : /\ f2.member[t].flag = f.member[t].flag /\ f2.member[t].who = f.member[t].who
                            /\ f2.member[t].online => f2.member[t].who # NoOne
  BY DEF SameRanks
<1> USE <1>20
<1>0. f.member \in Lists /\ f2.member \in Lists /\ f.joined \in Int /\ f.top \in Int /\ f2.top \in Int
  BY DEF Families
<1>1. Seats(f2)
  <2>1. ASSUME NEW t \in Places, f2.member[t].who # NoOne PROVE t < f2.top
    <3>1. t < f.top
      BY <2>1 DEF Seats
    <3> QED BY <3>1, <1>0, PlacesFacts
  <2> QED BY <2>1 DEF Seats
<1>2. /\ Count(f2.member, {"ELDER"}) = Count(f.member, {"ELDER"}) /\ Count(f2.member, Joined) = Count(f.member, Joined)
      /\ Count(f2.member, Flags \ {"NONE"}) = Count(f.member, Flags \ {"NONE"})
  BY <1>0, CountSame
<1>3. Count(f.member, Joined) \in Nat
  BY <1>0, CountOne, PlacesFacts
<1> QED BY <1>0, <1>1, <1>2, <1>3, PlacesFacts DEF Counts

----------------------------------------------------------------------------
\* The inductive invariant.

TaleOf(p) == Tale(p, marks[p], here[p].session, here[p].online, family.member, toAC, toGS)
TaleInv == \A p \in Folk \ cut : TaleOf(p)

IInv == TypeInv /\ ListInv /\ TaleInv

\* What the type invariant says of one character.
LEMMA Known ==
    ASSUME TypeInv, NEW p \in Folk
    PROVE  /\ marks[p] \in MarksOf /\ here[p] \in Presence
           /\ here[p].session \in Nat /\ here[p].online \in BOOLEAN /\ here[p].barred \in BOOLEAN
           /\ family \in Families /\ family.member \in Lists
           /\ toAC \in Seq(Requests) /\ toGS \in Seq(Answers)
BY DEF TypeInv, Presence, Families

\* The list and its counts stay as they are.
LEMMA ListStays ==
    ASSUME ListInv, UNCHANGED <<family, slips>>
    PROVE  ListInv'
BY DEF ListInv, Seats, Counts

\* What q carries of the family, and where it is, stay as they are.
SameToFamily(q) ==
    /\ marks'[q] \in MarksOf
    /\ marks'[q].index = marks[q].index /\ marks'[q].name = marks[q].name /\ marks'[q].flag = marks[q].flag
    /\ here'[q].session = here[q].session /\ here'[q].online = here[q].online

\* Then its story goes on with the list and the messages there are.
LEMMA SameStory ==
    ASSUME TypeInv, NEW q \in Folk, SameToFamily(q), NEW mem \in Lists, NEW ac, NEW gs,
           Tale(q, marks[q], here[q].session, here[q].online, mem, ac, gs)
    PROVE  Tale(q, marks'[q], here'[q].session, here'[q].online, mem, ac, gs)
<1> DEFINE m == marks[q]
           m2 == marks'[q]
           n == here[q].session
           on == here[q].online
<1>1. m \in MarksOf /\ m2 \in MarksOf /\ n \in Nat /\ on \in BOOLEAN
  BY Known DEF SameToFamily
<1>2. m2.index = m.index /\ m2.name = m.name /\ m2.flag = m.flag
  BY DEF SameToFamily
<1>3. Tale(q, m, n, on, mem, ac, gs)
  OBVIOUS
<1>4. here'[q].session = n /\ here'[q].online = on
  BY DEF SameToFamily
<1> HIDE DEF m, m2, n, on
<1>5. Tale(q, m2, n, on, mem, ac, gs)
  BY <1>1, <1>2, <1>3, OtherMarks
<1> QED BY <1>4, <1>5 DEF m2

\* A request that q does not look at is sent, or none.
LEMMA StoryWhenPut ==
    ASSUME TypeInv, NEW q \in Folk, SameToFamily(q), NEW x \in Requests, Put(x), x \notin Asks(q),
           UNCHANGED <<family, toGS>>, TaleOf(q)
    PROVE  TaleOf(q)'
<1>1. Tale(q, marks[q], here[q].session, here[q].online, family.member, Append(toAC, x), toGS)
  BY Known, PutOther DEF TaleOf
<1>2. Tale(q, marks'[q], here'[q].session, here'[q].online, family.member, Append(toAC, x), toGS)
  BY <1>1, Known, SameStory
<1> QED BY <1>2 DEF TaleOf, Put

\* No message comes or goes.
LEMMA StoryWhenIdle ==
    ASSUME TypeInv, NEW q \in Folk, SameToFamily(q), UNCHANGED <<family, toAC, toGS>>, TaleOf(q)
    PROVE  TaleOf(q)'
<1>1. Tale(q, marks'[q], here'[q].session, here'[q].online, family.member, toAC, toGS)
  BY Known, SameStory DEF TaleOf
<1> QED BY <1>1 DEF TaleOf

\* The requests of characters are requests.
LEMMA AreRequests ==
    ASSUME TypeInv, NEW p \in Folk
    PROVE  /\ \A kind \in {"Add", "Join", "Leave", "Del", "Login", "Logout"} : Request(kind, p) \in Requests
           /\ \A s \in Places, result \in {"MEMBER", "ELDER"} : About("MemberJoin", p, s, result) \in Requests
           /\ \A s \in Places : About("MemberLeave", p, s, "NONE") \in Requests
           /\ \A v \in BOOLEAN : About("Accept", p, 0, v) \in Requests
           /\ \A s \in Places \cup {-1}, k \in Nat : About("Fix", p, s, k) \in Requests
           /\ \A k \in Nat : [kind |-> "Login", who |-> p, session |-> k] \in Requests
<1>1. \A kind \in {"Add", "Join", "Leave", "Del", "Login", "Logout"} : Request(kind, p) \in OwnRequests
  BY Known DEF Request, OwnRequests
<1>2. \A s \in Places, result \in {"MEMBER", "ELDER"} : About("MemberJoin", p, s, result) \in Orders
  BY DEF About, Orders
<1>3. \A s \in Places : About("MemberLeave", p, s, "NONE") \in Orders
  BY DEF About, Orders
<1>4. \A v \in BOOLEAN : About("Accept", p, 0, v) \in Accepts
  BY DEF About, Accepts
<1>5. \A s \in Places \cup {-1}, k \in Nat : About("Fix", p, s, k) \in Fixes
  BY DEF About, Fixes
<1>6. \A k \in Nat : [kind |-> "Login", who |-> p, session |-> k] \in OwnRequests
  BY DEF OwnRequests
<1> QED BY <1>1, <1>2, <1>3, <1>4, <1>5, <1>6 DEF Requests

\* A character that waits for the answer to its founding has asked.
LEMMA WhoWaitsAsked ==
    ASSUME TypeInv, NEW p \in Folk, NEW n \in Nat, Some(toAC, AddReq(p)) \/ Some(toGS, Founded(p, n))
    PROVE  Asked(p)
<1> DEFINE S == Requests \cup Answers
           q == toAC \o toGS
<1>1. toAC \in Seq(S) /\ toGS \in Seq(S)
  BY DEF TypeInv
<1>2. /\ \A i \in DOMAIN toAC : i \in DOMAIN q /\ q[i] = toAC[i]
      /\ \A i \in DOMAIN toGS : i + Len(toAC) \in DOMAIN q /\ q[i + Len(toAC)] = toGS[i]
  BY <1>1, Joints
<1>3. Asked(p) <=> \E i \in DOMAIN q : q[i].kind = "Add" /\ q[i].who = p
  BY DEF Asked
<1> HIDE DEF q
<1>4. ASSUME NEW i \in DOMAIN toAC, toAC[i] \in AddReq(p) PROVE Asked(p)
  BY <1>2, <1>3, <1>4 DEF AddReq
<1>5. ASSUME NEW i \in DOMAIN toGS, toGS[i] \in Founded(p, n) PROVE Asked(p)
  BY <1>2, <1>3, <1>5 DEF Founded, Ans
<1> QED BY <1>4, <1>5 DEF Some

----------------------------------------------------------------------------
\* The characters.

\* Requests wait in a queue of requests.
LEMMA PutType ==
    ASSUME TypeInv, NEW x \in Requests, Put(x)
    PROVE  toAC' \in Seq(Requests)
BY AppendProperties DEF TypeInv, Put

\* FAMILY_Add: the founder marks itself before it asks.
LEMMA AddStep ==
    ASSUME IInv, NEW p \in Folk, FAMILY_Add(p)
    PROVE  IInv'
<1> USE DEF IInv
<1> DEFINE x == Request("Add", p)
<1>1. x \in Requests /\ Put(x) /\ x.kind = "Add" /\ x.who = p /\ x.session = here[p].session
  BY AreRequests DEF FAMILY_Add, Request
<1>2. /\ marks' \in [Folk -> MarksOf] /\ here[p].online
      /\ marks'[p].name /\ marks'[p].flag = "LEADER" /\ marks'[p].index = marks[p].index
      /\ \A q \in Folk \ {p} : marks'[q] = marks[q]
  <2> DEFINE v == [marks[p] EXCEPT !.name = TRUE, !.flag = "LEADER"]
  <2>1. marks \in [Folk -> MarksOf] /\ marks[p] \in MarksOf
    BY DEF TypeInv
  <2>2. marks' = [marks EXCEPT ![p] = v]
    BY <2>1 DEF FAMILY_Add
  <2>3. v \in MarksOf /\ v.name /\ v.flag = "LEADER" /\ v.index = marks[p].index
    BY <2>1 DEF MarksOf, Flags
  <2> HIDE DEF v
  <2> QED BY <2>1, <2>2, <2>3 DEF FAMILY_Add, Free
<1> HIDE DEF x
<1>3. TypeInv'
  BY <1>1, <1>2, PutType DEF TypeInv, FAMILY_Add
<1>4. ListInv'
  BY ListStays DEF FAMILY_Add
<1>5. ASSUME NEW q \in Folk \ cut, q # p PROVE TaleOf(q)'
  <2>1. x \notin Asks(q)
    BY <1>1, <1>5, RequestKinds, Known
  <2>2. SameToFamily(q)
    BY <1>2, <1>5, Known DEF SameToFamily, FAMILY_Add
  <2> QED BY <1>1, <2>1, <2>2, StoryWhenPut DEF TaleInv, FAMILY_Add
<1>6. ASSUME p \notin cut PROVE TaleOf(p)'
  <2> DEFINE n == here[p].session
  <2>1. Tale(p, marks[p], n, TRUE, family.member, toAC, toGS)
    BY <1>2, <1>6, Known DEF TaleInv, TaleOf
  <2>2. n \in Nat /\ marks[p] \in MarksOf /\ marks'[p] \in MarksOf
    BY <1>2, Known
  <2>3. ~ marks[p].name
    <3>1. ASSUME marks[p].name PROVE FALSE
      <4>1. ~ marks[p].index
        BY <3>1 DEF FAMILY_Add, InFamily
      <4>2. Some(toAC, AddReq(p)) \/ Some(toGS, Founded(p, n))
        BY <2>1, <3>1, <4>1 DEF Tale, OnlineTale
      <4> QED BY <4>2, <2>2, WhoWaitsAsked DEF FAMILY_Add
    <3> QED BY <3>1
  <2>4. ~ marks'[p].index
    BY <1>2, <2>1, <2>3 DEF Tale, FreeTale
  <2>5. Puts(p, toAC, x, Append(toAC, x))
    BY <1>1, Known, WhenPut
  <2> HIDE DEF n
  <2>6. Tale(p, marks'[p], n, TRUE, family.member, Append(toAC, x), toGS)
    BY <1>1, <1>2, <2>1, <2>2, <2>3, <2>4, <2>5, Known, Founding DEF n
  <2> QED BY <2>6, <1>1, <1>2 DEF TaleOf, FAMILY_Add, Put, n
<1> QED BY <1>3, <1>4, <1>5, <1>6 DEF TaleInv, FAMILY_Add

\* FAMILY_Join: the applicant marks itself before it asks.
LEMMA JoinStep ==
    ASSUME IInv, NEW p \in Folk, FAMILY_Join(p)
    PROVE  IInv'
<1> USE DEF IInv
<1> DEFINE x == Request("Join", p)
<1>1. x \in Requests /\ Put(x) /\ x.kind = "Join" /\ x.who = p /\ x.session = here[p].session
  BY AreRequests DEF FAMILY_Join, Request, Send
<1>2. /\ marks' \in [Folk -> MarksOf] /\ here[p].online
      /\ marks'[p].name /\ marks'[p].index /\ ~ marks[p].name
      /\ \A q \in Folk \ {p} : marks'[q] = marks[q]
  <2> DEFINE v == [marks[p] EXCEPT !.index = TRUE, !.name = TRUE, !.flag = "APPLY"]
  <2>1. marks \in [Folk -> MarksOf] /\ marks[p] \in MarksOf
    BY DEF TypeInv
  <2>2. marks' = [marks EXCEPT ![p] = v]
    BY <2>1 DEF FAMILY_Join
  <2>3. v \in MarksOf /\ v.name /\ v.index
    BY <2>1 DEF MarksOf, Flags
  <2> HIDE DEF v
  <2>4. here[p].online /\ ~ marks[p].name
    BY DEF FAMILY_Join, Free, CheckFMMember
  <2> QED BY <2>1, <2>2, <2>3, <2>4
<1> HIDE DEF x
<1>3. TypeInv'
  BY <1>1, <1>2, PutType DEF TypeInv, FAMILY_Join
<1>4. ListInv'
  BY ListStays DEF FAMILY_Join
<1>5. ASSUME NEW q \in Folk \ cut, q # p PROVE TaleOf(q)'
  <2>1. x \notin Asks(q)
    BY <1>1, <1>5, RequestKinds, Known
  <2>2. SameToFamily(q)
    BY <1>2, <1>5, Known DEF SameToFamily, FAMILY_Join
  <2> QED BY <1>1, <2>1, <2>2, StoryWhenPut DEF TaleInv, FAMILY_Join
<1>6. ASSUME p \notin cut PROVE TaleOf(p)'
  <2> DEFINE n == here[p].session
  <2>1. Tale(p, marks[p], n, TRUE, family.member, toAC, toGS)
    BY <1>2, <1>6, Known DEF TaleInv, TaleOf
  <2>2. n \in Nat /\ marks[p] \in MarksOf /\ marks'[p] \in MarksOf
    BY <1>2, Known
  <2>3. Puts(p, toAC, x, Append(toAC, x))
    BY <1>1, Known, WhenPut
  <2> HIDE DEF n
  <2>4. Tale(p, marks'[p], n, TRUE, family.member, Append(toAC, x), toGS)
    BY <1>1, <1>2, <2>1, <2>2, <2>3, Known, Joining DEF n
  <2> QED BY <2>4, <1>1, <1>2 DEF TaleOf, FAMILY_Join, Put, n
<1> QED BY <1>3, <1>4, <1>5, <1>6 DEF TaleInv, FAMILY_Join

\* Requests of those that are in the family, which change no marks.
LEMMA SentStep ==
    ASSUME IInv, NEW x \in Requests, Put(x), \A q \in Folk : x \notin Asks(q) /\ SameToFamily(q),
           marks' \in [Folk -> MarksOf], UNCHANGED <<family, here, toGS, slips, cut>>
    PROVE  IInv'
<1>1. TypeInv'
  BY PutType DEF TypeInv, IInv
<1>2. ListInv'
  BY ListStays DEF IInv
<1>3. ASSUME NEW q \in Folk \ cut PROVE TaleOf(q)'
  BY <1>3, StoryWhenPut DEF TaleInv, IInv
<1> QED BY <1>1, <1>2, <1>3 DEF TaleInv, IInv

\* Nothing is sent.
LEMMA IdleStep ==
    ASSUME IInv, \A q \in Folk : SameToFamily(q),
           marks' \in [Folk -> MarksOf], here' \in [Folk -> Presence], UNCHANGED <<family, toAC, toGS, slips, cut>>
    PROVE  IInv'
<1>1. TypeInv'
  BY DEF TypeInv, IInv
<1>2. ListInv'
  BY ListStays DEF IInv
<1>3. ASSUME NEW q \in Folk \ cut PROVE TaleOf(q)'
  BY <1>3, StoryWhenIdle DEF TaleInv, IInv
<1> QED BY <1>1, <1>2, <1>3 DEF TaleInv, IInv

\* Requests that the story of nobody is about.
LEMMA NoAsk ==
    ASSUME NEW x \in Requests, x.kind \notin {"Add", "Join", "Login", "Logout"}, NEW q \in Folk
    PROVE  x \notin Asks(q)
BY RequestKinds

\* FAMILY_Leave: the member asks to leave, the leader to dissolve the family.
LEMMA LeaveStep ==
    ASSUME IInv, NEW p \in Folk, FAMILY_Leave(p)
    PROVE  IInv'
<1> DEFINE x == Request(IF marks[p].flag = "LEADER" THEN "Del" ELSE "Leave", p)
<1>1. x \in Requests /\ Put(x) /\ x.kind \in {"Del", "Leave"}
  BY AreRequests DEF FAMILY_Leave, Request, Send, IInv
<1>2. UNCHANGED <<family, marks, here, toGS, slips, cut>>
  BY DEF FAMILY_Leave
<1> HIDE DEF x
<1>3. marks' \in [Folk -> MarksOf] /\ \A q \in Folk : SameToFamily(q)
  BY <1>2 DEF SameToFamily, IInv, TypeInv
<1> QED BY <1>1, <1>2, <1>3, NoAsk, SentStep

\* FAMILY_CheckMember: the leader or an elder gives a rank, or turns somebody out.
LEMMA CheckMemberStep ==
    ASSUME IInv, NEW p \in Folk, NEW s \in Places, NEW result \in {"MEMBER", "ELDER", "NONE"},
           FAMILY_CheckMember(p, s, result)
    PROVE  IInv'
<1> DEFINE x == About(IF result = "NONE" THEN "MemberLeave" ELSE "MemberJoin", family.member[s].who, s, result)
<1>0. family.member[s].who \in Folk
  BY DEF IInv, TypeInv, FAMILY_CheckMember, Families, Lists, Ranked
<1>1. x \in Requests /\ Put(x) /\ x.kind \in {"MemberLeave", "MemberJoin"}
  <2>1. result = "NONE" \/ result \in {"MEMBER", "ELDER"}
    OBVIOUS
  <2>2. "MEMBER" # "NONE" /\ "ELDER" # "NONE"
    OBVIOUS
  <2> QED BY <1>0, <2>1, <2>2, AreRequests DEF FAMILY_CheckMember, Send, IInv, About
<1>2. UNCHANGED <<family, marks, here, toGS, slips, cut>>
  BY DEF FAMILY_CheckMember
<1> HIDE DEF x
<1>3. marks' \in [Folk -> MarksOf] /\ \A q \in Folk : SameToFamily(q)
  BY <1>2 DEF SameToFamily, IInv, TypeInv
<1> QED BY <1>1, <1>2, <1>3, NoAsk, SentStep

\* FAMILY_SetAcceptFlag: the family is opened to applicants, or closed.
LEMMA AcceptFlagStep ==
    ASSUME IInv, NEW p \in Folk, NEW v \in BOOLEAN, FAMILY_SetAcceptFlag(p, v)
    PROVE  IInv'
<1> DEFINE x == About("Accept", p, 0, v)
<1>1. x \in Requests /\ Put(x) /\ x.kind = "Accept"
  BY AreRequests DEF FAMILY_SetAcceptFlag, Send, IInv, About
<1>2. UNCHANGED <<family, marks, here, toGS, slips, cut>>
  BY DEF FAMILY_SetAcceptFlag
<1> HIDE DEF x
<1>3. marks' \in [Folk -> MarksOf] /\ \A q \in Folk : SameToFamily(q)
  BY <1>2 DEF SameToFamily, IInv, TypeInv
<1> QED BY <1>1, <1>2, <1>3, NoAsk, SentStep

\* Who is offered, or offers, the leader's place is no mark of the family.
Change(ms, p, v) == [ms EXCEPT ![p].change = v]
SameFlags(ms, ms2) ==
    /\ ms2 \in [Folk -> MarksOf]
    /\ \A r \in Folk : ms2[r].index = ms[r].index /\ ms2[r].name = ms[r].name /\ ms2[r].flag = ms[r].flag

\* The offer that a character has before it is not of its marks of the family.
LEMMA OnlyChange ==
    ASSUME NEW ms \in [Folk -> MarksOf], NEW p \in Folk, NEW v \in Folk \cup {NoOne}
    PROVE  SameFlags(ms, Change(ms, p, v))
<1> DEFINE m == [ms[p] EXCEPT !.change = v]
           ms2 == Change(ms, p, v)
<1>1. ms2 = [ms EXCEPT ![p] = m]
  BY DEF Change
<1>2. m \in MarksOf /\ m.index = ms[p].index /\ m.name = ms[p].name /\ m.flag = ms[p].flag
  <2>1. ms[p] \in MarksOf
    OBVIOUS
  <2> QED BY <2>1 DEF MarksOf
<1> HIDE DEF m, ms2
<1>3. SameFlags(ms, ms2)
  BY <1>1, <1>2 DEF SameFlags
<1> QED BY <1>3 DEF ms2

\* Nor are the offers of two.
LEMMA OnlyTwoChange ==
    ASSUME NEW ms \in [Folk -> MarksOf], NEW p \in Folk, NEW v \in Folk \cup {NoOne}, NEW q \in Folk, NEW u \in Folk \cup {NoOne}
    PROVE  SameFlags(ms, Change(Change(ms, p, v), q, u))
<1> DEFINE ms1 == Change(ms, p, v)
<1>1. SameFlags(ms, ms1)
  BY OnlyChange
<1>2. ms1 \in [Folk -> MarksOf]
  BY <1>1 DEF SameFlags
<1> HIDE DEF ms1
<1>3. SameFlags(ms1, Change(ms1, q, u))
  BY <1>2, OnlyChange
<1>4. SameFlags(ms, Change(ms1, q, u))
  BY <1>1, <1>3 DEF SameFlags
<1> QED BY <1>4 DEF ms1

\* FAMILY_LeaderFunc: the leader offers its place.
LEMMA OfferStep ==
    ASSUME IInv, NEW p \in Folk, NEW q \in Folk, LeaderOffers(p, q)
    PROVE  IInv'
<1>1. marks' \in [Folk -> MarksOf]
      /\ \A r \in Folk : marks'[r].index = marks[r].index /\ marks'[r].name = marks[r].name /\ marks'[r].flag = marks[r].flag
  <2>1. marks \in [Folk -> MarksOf]
    BY DEF IInv, TypeInv
  <2>2. marks' = Change(Change(marks, q, p), p, q)
    BY DEF LeaderOffers, Change
  <2>3. SameFlags(marks, Change(Change(marks, q, p), p, q))
    BY <2>1, OnlyTwoChange
  <2> QED BY <2>2, <2>3 DEF SameFlags
<1>2. \A r \in Folk : marks'[r].index = marks[r].index /\ marks'[r].name = marks[r].name /\ marks'[r].flag = marks[r].flag
  BY <1>1
<1>3. UNCHANGED <<family, here, toAC, toGS, slips, cut>>
  BY DEF LeaderOffers
<1>4. here' \in [Folk -> Presence]
  BY <1>3 DEF IInv, TypeInv
<1>5. \A r \in Folk : SameToFamily(r)
  BY <1>1, <1>2, <1>3 DEF SameToFamily
<1> QED BY <1>1, <1>3, <1>4, <1>5, IdleStep

\* FAMILY_LeaderFunc: the offer is answered.
LEMMA AnswerStep ==
    ASSUME IInv, NEW q \in Folk, NEW yes \in BOOLEAN, LeaderAnswers(q, yes)
    PROVE  IInv'
<1> DEFINE p == marks[q].change
           x == About("Fix", q, marks[q].slot, here[q].session)
<1>1. p \in Folk /\ NoOne \in Folk \cup {NoOne}
  BY DEF IInv, TypeInv, LeaderAnswers, MarksOf
<1>2. \/ marks' = [marks EXCEPT ![p].change = NoOne]
      \/ marks' = [marks EXCEPT ![p].change = NoOne, ![q].change = NoOne]
  BY DEF LeaderAnswers
<1>3. UNCHANGED <<family, here, toGS, slips, cut>>
  BY DEF LeaderAnswers
<1>4. UNCHANGED toAC \/ Put(x)
  BY DEF LeaderAnswers, Send
<1> HIDE DEF p
<1>5. marks' \in [Folk -> MarksOf]
      /\ \A r \in Folk : marks'[r].index = marks[r].index /\ marks'[r].name = marks[r].name /\ marks'[r].flag = marks[r].flag
  <2>1. marks \in [Folk -> MarksOf] /\ NoOne \in Folk \cup {NoOne}
    BY DEF IInv, TypeInv
  <2>2. CASE marks' = [marks EXCEPT ![p].change = NoOne]
    <3>1. marks' = Change(marks, p, NoOne)
      BY <2>2 DEF Change
    <3>2. SameFlags(marks, Change(marks, p, NoOne))
      BY <1>1, <2>1, OnlyChange
    <3> QED BY <3>1, <3>2 DEF SameFlags
  <2>3. CASE marks' = [marks EXCEPT ![p].change = NoOne, ![q].change = NoOne]
    <3>1. marks' = Change(Change(marks, p, NoOne), q, NoOne)
      BY <2>3 DEF Change
    <3>2. SameFlags(marks, Change(Change(marks, p, NoOne), q, NoOne))
      BY <1>1, <2>1, OnlyTwoChange
    <3> QED BY <3>1, <3>2 DEF SameFlags
  <2> QED BY <1>2, <2>2, <2>3
<1>6. \A r \in Folk : marks'[r].index = marks[r].index /\ marks'[r].name = marks[r].name /\ marks'[r].flag = marks[r].flag
  BY <1>5
<1>7. \A r \in Folk : SameToFamily(r)
  BY <1>3, <1>5, <1>6 DEF SameToFamily
<1>8. x \in Requests /\ x.kind = "Fix"
  <2>1. marks[q].slot \in Places \cup {-1} /\ here[q].session \in Nat
    BY Known DEF IInv, MarksOf
  <2> QED BY <2>1, AreRequests DEF IInv, About
<1>9. here' \in [Folk -> Presence]
  BY <1>3 DEF IInv, TypeInv
<1> HIDE DEF x
<1> QED BY <1>3, <1>4, <1>5, <1>7, <1>8, <1>9, NoAsk, SentStep, IdleStep

\* CHAR_login: a session begins.
LEMMA LoginStep ==
    ASSUME IInv, NEW p \in Folk, CHAR_login(p)
    PROVE  IInv'
<1> USE DEF IInv
<1> DEFINE n == here[p].session
           x == [kind |-> "Login", who |-> p, session |-> n + 1]
<1>1. /\ here' \in [Folk -> Presence] /\ ~ here[p].online /\ here'[p].online = TRUE /\ here'[p].session = n + 1
      /\ \A q \in Folk \ {p} : here'[q] = here[q]
  BY DEF TypeInv, CHAR_login, Presence
<1>2. n \in Nat /\ marks[p] \in MarksOf /\ here[p].online \in BOOLEAN
  BY Known
<1>3. UNCHANGED <<family, toGS, slips>>
  BY DEF CHAR_login
<1>4. ListInv'
  BY <1>3, ListStays
<1>5. x \in Requests /\ x.kind = "Login" /\ x.who = p /\ x.session = n + 1
  BY <1>2, AreRequests
<1>6. CASE InFamily(p)
  <2>1. Put(x) /\ UNCHANGED cut /\ marks' = [marks EXCEPT ![p].slot = -1, ![p].change = NoOne]
    BY <1>6 DEF CHAR_login
  <2>2. /\ marks' \in [Folk -> MarksOf] /\ marks'[p].index = marks[p].index /\ marks'[p].name = marks[p].name
        /\ \A q \in Folk \ {p} : marks'[q] = marks[q]
    <3> DEFINE v == [marks[p] EXCEPT !.slot = -1, !.change = NoOne]
    <3>1. marks \in [Folk -> MarksOf] /\ marks[p] \in MarksOf
      BY DEF TypeInv
    <3>2. marks' = [marks EXCEPT ![p] = v]
      BY <2>1, <3>1
    <3>3. v \in MarksOf /\ v.index = marks[p].index /\ v.name = marks[p].name
      BY <3>1 DEF MarksOf
    <3> HIDE DEF v
    <3> QED BY <3>1, <3>2, <3>3
  <2> HIDE DEF x, n
  <2>3. TypeInv'
    BY <1>1, <1>3, <1>5, <2>1, <2>2, PutType DEF TypeInv
  <2>4. ASSUME NEW q \in Folk \ cut, q # p PROVE TaleOf(q)'
    <3>1. x \notin Asks(q)
      BY <1>5, <2>4, RequestKinds, Known
    <3>2. SameToFamily(q)
      BY <1>1, <2>2, <2>4, Known DEF SameToFamily
    <3> QED BY <1>3, <1>5, <2>1, <3>1, <3>2, StoryWhenPut DEF TaleInv
  <2>5. ASSUME p \notin cut PROVE TaleOf(p)'
    <3>1. Tale(p, marks[p], n, here[p].online, family.member, toAC, toGS)
      BY <2>5 DEF TaleInv, TaleOf, n
    <3>2. Puts(p, toAC, x, Append(toAC, x))
      BY <1>5, Known, WhenPut
    <3>3. marks[p].index /\ marks'[p].index /\ marks'[p].name /\ marks'[p] \in MarksOf
      BY <1>6, <2>2 DEF InFamily
    <3> DEFINE ac2 == Append(toAC, x)
    <3> HIDE DEF ac2
    <3>4. Tale(p, marks'[p], n + 1, TRUE, family.member, ac2, toGS)
      <4>1. Puts(p, toAC, x, ac2)
        BY <3>2 DEF ac2
      <4>2. here[p].online \in BOOLEAN /\ family.member \in Lists
        BY Known
      <4> QED BY <1>2, <1>5, <3>1, <3>3, <4>1, <4>2, LogsInListed
    <3> USE DEF ac2
    <3> QED BY <1>1, <1>3, <2>1, <3>4 DEF TaleOf, Put
  <2> QED BY <1>4, <2>1, <2>3, <2>4, <2>5 DEF TaleInv
<1>7. CASE ~ InFamily(p)
  <2>1. /\ marks' = [marks EXCEPT ![p] = NoMarks] /\ UNCHANGED toAC
        /\ cut' = IF marks[p].name THEN cut \cup {p} ELSE cut
    BY <1>7 DEF CHAR_login
  <2>2. /\ marks' \in [Folk -> MarksOf] /\ ~ marks'[p].index /\ ~ marks'[p].name
        /\ \A q \in Folk \ {p} : marks'[q] = marks[q]
    BY <2>1 DEF TypeInv, MarksOf, NoMarks, Flags
  <2> HIDE DEF x, n
  <2>3. TypeInv'
    BY <1>1, <1>3, <2>1, <2>2 DEF TypeInv
  <2>4. ASSUME NEW q \in Folk \ cut, q # p PROVE TaleOf(q)'
    <3>1. SameToFamily(q)
      BY <1>1, <2>2, <2>4, Known DEF SameToFamily
    <3> QED BY <1>3, <2>1, <3>1, StoryWhenIdle DEF TaleInv
  <2>5. ASSUME p \notin cut' PROVE TaleOf(p)'
    <3>1. Tale(p, marks[p], n, here[p].online, family.member, toAC, toGS)
      BY <2>1, <2>5 DEF TaleInv, TaleOf, n
    <3>2. ~ marks[p].name /\ marks'[p] \in MarksOf
      BY <2>1, <2>2, <2>5
    <3>3. Tale(p, marks'[p], n + 1, TRUE, family.member, toAC, toGS)
      BY <1>2, <2>2, <3>1, <3>2, Known, LogsInFree
    <3> QED BY <1>1, <1>3, <2>1, <3>3 DEF TaleOf
  <2> QED BY <1>4, <2>1, <2>3, <2>4, <2>5 DEF TaleInv
<1> QED BY <1>6, <1>7

\* CHAR_logout: a session ends.
LEMMA LogoutStep ==
    ASSUME IInv, NEW p \in Folk, CHAR_logout(p)
    PROVE  IInv'
<1> USE DEF IInv
<1> DEFINE n == here[p].session
           x == Request("Logout", p)
<1>1. /\ here' \in [Folk -> Presence] /\ here[p].online /\ here'[p].online = FALSE /\ here'[p].session = n
      /\ \A q \in Folk \ {p} : here'[q] = here[q]
  BY DEF TypeInv, CHAR_logout, Presence
<1>2. n \in Nat /\ marks[p] \in MarksOf
  BY Known
<1>3. UNCHANGED <<family, marks, toGS, slips, cut>>
  BY DEF CHAR_logout
<1>4. ListInv'
  BY <1>3, ListStays
<1>5. x \in Requests /\ x.kind = "Logout" /\ x.who = p
  BY AreRequests DEF Request
<1> HIDE DEF x, n
<1>6. ASSUME NEW q \in Folk \ {p} PROVE SameToFamily(q)
  BY <1>1, <1>3, <1>6, Known DEF SameToFamily
<1>7. ASSUME p \notin cut PROVE Tale(p, marks[p], n, TRUE, family.member, toAC, toGS)
  BY <1>1, <1>7, Known DEF TaleInv, TaleOf, n
<1>8. CASE InFamily(p)
  <2>1. Put(x)
    BY <1>8 DEF CHAR_logout, x
  <2>2. TypeInv'
    BY <1>1, <1>3, <1>5, <2>1, PutType DEF TypeInv
  <2>3. ASSUME NEW q \in Folk \ cut, q # p PROVE TaleOf(q)'
    <3>1. x \notin Asks(q)
      BY <1>5, <2>3, RequestKinds, Known
    <3> QED BY <1>3, <1>5, <1>6, <2>1, <2>3, <3>1, StoryWhenPut DEF TaleInv
  <2>4. ASSUME p \notin cut PROVE TaleOf(p)'
    <3>1. Puts(p, toAC, x, Append(toAC, x))
      BY <1>5, Known, WhenPut
    <3>2. marks[p].name
      BY <1>8 DEF InFamily
    <3>3. Tale(p, marks[p], n, FALSE, family.member, Append(toAC, x), toGS)
      BY <1>2, <1>5, <1>7, <2>4, <3>1, <3>2, Known, LogsOutListed
    <3> QED BY <1>1, <1>3, <2>1, <3>3 DEF TaleOf, Put
  <2> QED BY <1>3, <1>4, <2>2, <2>3, <2>4 DEF TaleInv
<1>9. CASE ~ InFamily(p)
  <2>1. UNCHANGED toAC
    BY <1>9 DEF CHAR_logout
  <2>2. TypeInv'
    BY <1>1, <1>3, <2>1 DEF TypeInv
  <2>3. ASSUME NEW q \in Folk \ cut, q # p PROVE TaleOf(q)'
    BY <1>3, <1>6, <2>1, <2>3, StoryWhenIdle DEF TaleInv
  <2>4. ASSUME p \notin cut PROVE TaleOf(p)'
    <3>1. Tale(p, marks[p], n, FALSE, family.member, toAC, toGS)
      BY <1>2, <1>7, <2>4, Known, LogsOut
    <3> QED BY <1>1, <1>3, <2>1, <3>1 DEF TaleOf
  <2> QED BY <1>3, <1>4, <2>2, <2>3, <2>4 DEF TaleInv
<1> QED BY <1>8, <1>9

\* CHAR_FMTIMELIMIT runs out.
LEMMA TimeLimitStep ==
    ASSUME IInv, NEW p \in Folk, TimeLimitEnds(p)
    PROVE  IInv'
<1>1. here' \in [Folk -> Presence] /\ \A q \in Folk : here'[q].session = here[q].session /\ here'[q].online = here[q].online
  BY DEF IInv, TypeInv, TimeLimitEnds, Presence
<1>2. UNCHANGED <<family, marks, toAC, toGS, slips, cut>>
  BY DEF TimeLimitEnds
<1>3. marks' \in [Folk -> MarksOf] /\ \A q \in Folk : SameToFamily(q)
  BY <1>1, <1>2 DEF SameToFamily, IInv, TypeInv
<1> QED BY <1>1, <1>2, <1>3, IdleStep

----------------------------------------------------------------------------
\* The account server: what it says, and to whom.

\* The lowest of some slots is one of them.
LEMMA LowestIsOne ==
    ASSUME NEW T \in SUBSET Nat, T # {}
    PROVE  Lowest(T) \in T
BY FirstOfMany DEF Lowest

\* A member that is not online is not told.
LEMMA NotifyIs ==
    ASSUME NEW f \in Families, NEW s \in Places, NEW ok \in BOOLEAN, f.member[s].online => f.member[s].who # NoOne
    PROVE  /\ Notify(f, s, ok) \in Seq(Answers)
           /\ ~ f.member[s].online => Notify(f, s, ok) = <<>>
<1>1. f.member[s] \in Ranked
  BY DEF Families, Lists
<1>2. CASE ~ f.member[s].online
  <2>1. Notify(f, s, ok) = <<>>
    BY <1>2 DEF Notify
  <2> QED BY <2>1, <1>2
<1>3. CASE f.member[s].online
  <2> DEFINE a == [kind |-> "Login", who |-> f.member[s].who, session |-> f.member[s].session,
                   ok |-> ok, flag |-> f.member[s].flag, slot |-> s]
  <2>1. a \in Answers
    BY <1>1, <1>3 DEF Answers, Ranked
  <2>2. Notify(f, s, ok) = <<a>>
    BY <1>3 DEF Notify
  <2> HIDE DEF a
  <2>3. <<a>> \in Seq(Answers)
    BY <2>1
  <2> QED BY <1>3, <2>1, <2>2, <2>3
<1> QED BY <1>2, <1>3

\* It joins the messages under way.
LEMMA ToldInTurn ==
    ASSUME NEW f \in Families, NEW s \in Places, NEW ok \in BOOLEAN, Seats(f), NEW gs \in Seq(Answers)
    PROVE  gs \o Notify(f, s, ok) \in Seq(Answers)
<1> DEFINE r == Notify(f, s, ok)
<1>1. r \in Seq(Answers)
  BY NotifyIs DEF Seats
<1> HIDE DEF r
<1>2. gs \o r \in Seq(Answers)
  BY <1>1, ConcatProperties
<1> QED BY <1>2 DEF r

\* What it is told when it is one, and when it is one no more.
LEMMA NotifyYes ==
    ASSUME NEW f \in Families, NEW s \in Places, f.member[s].online, f.member[s].who # NoOne
    PROVE  \E a \in Answers : /\ Notify(f, s, TRUE) = <<a>>
                              /\ a.kind = "Login" /\ a.who = f.member[s].who /\ a.session = f.member[s].session
                              /\ a.ok /\ a.flag = f.member[s].flag /\ a.slot = s
<1> DEFINE a == [kind |-> "Login", who |-> f.member[s].who, session |-> f.member[s].session,
                 ok |-> TRUE, flag |-> f.member[s].flag, slot |-> s]
<1>1. f.member[s] \in Ranked
  BY DEF Families, Lists
<1>2. a \in Answers
  BY <1>1 DEF Answers, Ranked
<1>3. Notify(f, s, TRUE) = <<a>>
  BY DEF Notify
<1>4. /\ a.kind = "Login" /\ a.who = f.member[s].who /\ a.session = f.member[s].session
      /\ a.ok /\ a.flag = f.member[s].flag /\ a.slot = s
  OBVIOUS
<1> HIDE DEF a
<1> QED BY <1>2, <1>3, <1>4

\* A member that is online is told that it is none.
LEMMA NotifyNo ==
    ASSUME NEW f \in Families, NEW s \in Places, f.member[s].online, f.member[s].who # NoOne
    PROVE  \E a \in Answers : /\ Notify(f, s, FALSE) = <<a>>
                              /\ a.kind = "Login" /\ a.who = f.member[s].who /\ a.session = f.member[s].session
                              /\ ~ a.ok /\ a.slot = s
<1> DEFINE a == [kind |-> "Login", who |-> f.member[s].who, session |-> f.member[s].session,
                 ok |-> FALSE, flag |-> f.member[s].flag, slot |-> s]
<1>1. f.member[s] \in Ranked
  BY DEF Families, Lists
<1>2. a \in Answers
  BY <1>1 DEF Answers, Ranked
<1>3. Notify(f, s, FALSE) = <<a>>
  BY DEF Notify
<1>4. /\ a.kind = "Login" /\ a.who = f.member[s].who /\ a.session = f.member[s].session
      /\ ~ a.ok /\ a.slot = s
  OBVIOUS
<1> HIDE DEF a
<1> QED BY <1>2, <1>3, <1>4

\* An answer is one message, a.
Grants(kind, m, a) ==
    /\ Answer(kind, m, TRUE) = <<a>>
    /\ a.kind = kind /\ a.who = m.who /\ a.session = m.session /\ a.ok
Refuses(kind, m, a) ==
    /\ Answer(kind, m, FALSE) = <<a>>
    /\ a.kind = kind /\ a.who = m.who /\ a.session = m.session /\ ~ a.ok

\* The answer that grants a request is one message.
LEMMA AnswerYes ==
    ASSUME NEW kind \in {"Add", "Join", "Leave", "Del", "Login", "Fix"}, NEW m, m.who \in Folk, m.session \in Nat
    PROVE  \E a \in Answers : Grants(kind, m, a)
<1> DEFINE a == [kind |-> kind, who |-> m.who, session |-> m.session, ok |-> TRUE, flag |-> "NONE", slot |-> -1]
<1>1. a \in Answers
  BY DEF Answers, Flags
<1>2. Grants(kind, m, a)
  BY DEF Answer, Grants
<1> HIDE DEF a
<1> QED BY <1>1, <1>2

\* The answer that refuses a request is one message.
LEMMA AnswerNo ==
    ASSUME NEW kind \in {"Add", "Join", "Leave", "Del", "Login", "Fix"}, NEW m, m.who \in Folk, m.session \in Nat
    PROVE  \E a \in Answers : Refuses(kind, m, a)
<1> DEFINE a == [kind |-> kind, who |-> m.who, session |-> m.session, ok |-> FALSE, flag |-> "NONE", slot |-> -1]
<1>1. a \in Answers
  BY DEF Answers, Flags
<1>2. Refuses(kind, m, a)
  BY DEF Answer, Refuses
<1> HIDE DEF a
<1> QED BY <1>1, <1>2

\* A message that q does not look at is said.
LEMMA StoryOfAnother ==
    ASSUME NEW q \in Folk, NEW m \in MarksOf, NEW n \in Nat, NEW on \in BOOLEAN, NEW mem \in Lists,
           NEW ac, NEW gs \in Seq(Answers), NEW a \in Answers, a \notin Told(q, n),
           Tale(q, m, n, on, mem, ac, gs)
    PROVE  Tale(q, m, n, on, mem, ac, gs \o <<a>>)
<1> DEFINE r == <<a>>
<1>1. r \in Seq(Answers) /\ ~ Some(r, Told(q, n))
  BY One
<1> HIDE DEF r
<1>2. Tale(q, m, n, on, mem, ac, gs \o r)
  BY <1>1, ReplyOther
<1> QED BY <1>2 DEF r

\* It is told its rank if it is online.
LEMMA StoryWhenRanked ==
    ASSUME NEW q \in Folk, NEW m \in MarksOf, NEW n \in Nat, NEW on \in BOOLEAN, NEW mem \in Lists,
           NEW ac, NEW gs \in Seq(Answers), NEW f \in Families, NEW y \in Places, NEW z \in Places,
           Tale(q, m, n, on, mem, ac, gs), Moved(q, mem, y, f.member, z)
    PROVE  Tale(q, m, n, on, f.member, ac, gs \o Notify(f, z, TRUE))
<1> DEFINE r == Notify(f, z, TRUE)
           mem2 == f.member
<1>0. /\ mem[y].who = q
      /\ \A s \in Places : mem2[s].who = q <=> s = z
      /\ mem2[z].online = mem[y].online /\ mem2[z].session = mem[y].session
  BY DEF Moved
<1>1. mem2[z].who = q /\ q # NoOne /\ mem2 \in Lists
  BY <1>0 DEF FamilyAssumption, Families
<1>2. r \in Seq(Answers) /\ (~ mem2[z].online => r = <<>>)
  BY <1>1, NotifyIs
<1>3. gs \o r \in Seq(Answers)
  BY <1>2, ConcatProperties
<1>4. CASE mem[y].online
  <2>0. mem2[z].online
    BY <1>0, <1>4
  <2>1. PICK a \in Answers : /\ r = <<a>>
                             /\ a.kind = "Login" /\ a.who = mem2[z].who /\ a.session = mem2[z].session
                             /\ a.ok /\ a.flag = mem2[z].flag
    BY <1>1, <2>0, NotifyYes
  <2> DEFINE gs2 == gs \o <<a>>
  <2>2. SaysOne(q, n, gs, a, gs2)
    BY WhenOneSaid
  <2> HIDE DEF gs2, mem2, r
  <2>3. a.who = q /\ a.session = mem[y].session /\ a.flag = mem2[z].flag /\ a.kind = "Login" /\ a.ok
    BY <1>0, <1>1, <2>1
  <2>4. SaysIf(mem[y].online, q, n, gs, a, gs2) /\ Moved(q, mem, y, mem2, z)
    BY <1>4, <2>2 DEF SaysIf, mem2
  <2>5. Tale(q, m, n, on, mem2, ac, gs2)
    BY <1>0, <1>1, <2>3, <2>4, RankGiven
  <2>6. gs2 = gs \o r
    BY <2>1 DEF gs2
  <2>7. Tale(q, m, n, on, mem2, ac, gs \o r)
    BY <2>5, <2>6
  <2> QED BY <2>7, <1>3 DEF mem2, r
<1>5. CASE ~ mem[y].online
  <2> DEFINE a == [kind |-> "Login", who |-> q, session |-> mem[y].session, ok |-> TRUE, flag |-> mem2[z].flag, slot |-> z]
             gs2 == gs
  <2>1. a \in Answers
    <3>1. mem2[z] \in Ranked /\ mem[y] \in Ranked
      BY <1>1 DEF Lists
    <3> QED BY <3>1 DEF Answers, Ranked
  <2>2. a.kind = "Login" /\ a.who = q /\ a.session = mem[y].session /\ a.ok /\ a.flag = mem2[z].flag
    OBVIOUS
  <2>3. r = <<>> /\ gs \o r = gs
    BY <1>0, <1>2, <1>5, ConcatEmptySeq
  <2>4. SaysIf(mem[y].online, q, n, gs, a, gs2) /\ Moved(q, mem, y, mem2, z)
    BY <1>5 DEF SaysIf
  <2> HIDE DEF a, mem2, r, gs2
  <2>5. Tale(q, m, n, on, mem2, ac, gs2)
    BY <1>0, <1>1, <2>1, <2>2, <2>4, RankGiven
  <2>6. gs2 = gs \o r
    BY <2>3 DEF gs2
  <2>7. Tale(q, m, n, on, mem2, ac, gs \o r)
    BY <2>5, <2>6
  <2> QED BY <2>7, <1>3 DEF mem2, r
<1> QED BY <1>4, <1>5

\* Somebody else is told what it is.
LEMMA StoryWhenOtherTold ==
    ASSUME NEW q \in Folk, NEW m \in MarksOf, NEW n \in Nat, NEW on \in BOOLEAN, NEW mem \in Lists,
           NEW ac, NEW gs \in Seq(Answers), NEW f \in Families, NEW s \in Places,
           Seats(f), f.member[s].who # q, Tale(q, m, n, on, mem, ac, gs)
    PROVE  Tale(q, m, n, on, mem, ac, gs \o Notify(f, s, TRUE))
<1> DEFINE r == Notify(f, s, TRUE)
<1>1. f.member[s].online => f.member[s].who # NoOne
  BY DEF Seats
<1>2. CASE ~ f.member[s].online
  <2>1. gs \o r = gs
    BY <1>1, <1>2, NotifyIs, ConcatEmptySeq
  <2> QED BY <2>1
<1>3. CASE f.member[s].online
  <2>1. PICK a \in Answers : r = <<a>> /\ a.who = f.member[s].who
    BY <1>1, <1>3, NotifyYes
  <2>2. a \notin Told(q, n)
    BY <2>1, AnswerKinds
  <2>3. Tale(q, m, n, on, mem, ac, gs \o <<a>>)
    BY <2>2, StoryOfAnother
  <2> QED BY <2>1, <2>3
<1> QED BY <1>2, <1>3

\* Somebody that is listed is told what it is.
LEMMA StoryWhenNotified ==
    ASSUME NEW q \in Folk, NEW m \in MarksOf, NEW n \in Nat, NEW on \in BOOLEAN,
           NEW ac, NEW gs \in Seq(Answers), NEW f \in Families, NEW s \in Places,
           Seats(f), Tale(q, m, n, on, f.member, ac, gs)
    PROVE  Tale(q, m, n, on, f.member, ac, gs \o Notify(f, s, TRUE))
<1>0. f.member \in Lists
  BY DEF Families
<1>1. CASE f.member[s].who = q
  <2>1. Moved(q, f.member, s, f.member, s)
    BY <1>1 DEF Tale, Alone, Moved
  <2> QED BY <1>0, <2>1, StoryWhenRanked
<1>2. CASE f.member[s].who # q
  BY <1>0, <1>2, StoryWhenOtherTold
<1> QED BY <1>1, <1>2

\* mem2 is the list mem with nobody in place s.
Without(mem, s, mem2) == mem2[s].who = NoOne /\ \A t \in Places \ {s} : mem2[t] = mem[t]

\* A member is told that its place is cleared; mem2 is the list without it.
LEMMA StoryWhenStruck ==
    ASSUME NEW q \in Folk, NEW m \in MarksOf, NEW n \in Nat, NEW on \in BOOLEAN,
           NEW ac, NEW gs \in Seq(Answers), NEW f \in Families, NEW s \in Places, NEW mem2 \in Lists,
           Seats(f), Without(f.member, s, mem2), Tale(q, m, n, on, f.member, ac, gs)
    PROVE  Tale(q, m, n, on, mem2, ac, gs \o Notify(f, s, FALSE))
<1>20. /\ f.member[s].online => f.member[s].who # NoOne
       /\ mem2[s].who = NoOne /\ \A t \in Places \ {s} : mem2[t] = f.member[t]
  BY DEF Seats, Without
<1> DEFINE r == Notify(f, s, FALSE)
           mem == f.member
<1>0. mem \in Lists /\ q # NoOne
  BY DEF Families, FamilyAssumption
<1>1. r \in Seq(Answers) /\ (~ mem[s].online => r = <<>>)
  BY <1>20, NotifyIs
<1>2. gs \o r \in Seq(Answers)
  BY <1>1, ConcatProperties
<1>3. Says(q, n, gs, r, gs \o r)
  BY <1>1, WhenSaid
<1>4. Tale(q, m, n, on, mem, ac, gs)
  OBVIOUS
<1>5. ASSUME mem[s].online
      PROVE  \E a \in Answers : r = <<a>> /\ a.kind = "Login" /\ a.who = mem[s].who /\ a.session = mem[s].session /\ ~ a.ok
  BY <1>5, <1>20, NotifyNo
<1>6. mem2[s].who = NoOne /\ \A t \in Places \ {s} : mem2[t] = mem[t]
  BY <1>20
<1>7. mem[s] \in Ranked
  BY <1>0 DEF Lists
<1> HIDE DEF r, mem
<1>8. CASE mem[s].who = q
  <2>1. ~ In(mem2, q)
    BY <1>0, <1>4, <1>6, <1>8 DEF Tale, Alone, In
  <2>2. /\ Upto(r, Clear(q, n), Clear(q, n)) /\ ~ Some(r, Told(q, n) \ Clear(q, n))
        /\ Some(r, Clear(q, n)) <=> mem[s].online /\ mem[s].session = n
    <3>1. CASE ~ mem[s].online
      BY <1>1, <3>1, NothingSent
    <3>2. CASE mem[s].online
      <4>1. PICK a \in Answers : r = <<a>> /\ a.kind = "Login" /\ a.who = mem[s].who /\ a.session = mem[s].session /\ ~ a.ok
        BY <1>5, <3>2
      <4>2. a \in Clear(q, n) <=> mem[s].session = n
        BY <1>8, <4>1, AnswerKinds
      <4>3. ~ (mem[s].session > n)
        BY <1>0, <1>4, <1>7, <1>8 DEF Tale, Past, Ranked
      <4>4. a \in Told(q, n) => a \in Clear(q, n)
        BY <1>8, <4>1, <4>3, AnswerKinds
      <4>5. Upto(<<a>>, Clear(q, n), Clear(q, n))
        <5>1. DOMAIN <<a>> = {1}
          OBVIOUS
        <5> QED BY <5>1 DEF Upto
      <4>6. Some(<<a>>, Clear(q, n)) <=> a \in Clear(q, n)
        BY One
      <4>7. ~ Some(<<a>>, Told(q, n) \ Clear(q, n))
        <5> DEFINE M == Told(q, n) \ Clear(q, n)
        <5>1. a \notin M
          BY <4>4
        <5> HIDE DEF M
        <5>2. ~ Some(<<a>>, M)
          BY <5>1, One
        <5> QED BY <5>2 DEF M
      <4> QED BY <3>2, <4>1, <4>2, <4>5, <4>6, <4>7
    <3> QED BY <3>1, <3>2
  <2>3. Tale(q, m, n, on, mem2, ac, gs \o r)
    BY <1>0, <1>3, <1>4, <1>8, <2>1, <2>2, StruckOff
  <2> QED BY <1>2, <2>3 DEF r, mem
<1>9. CASE mem[s].who # q
  <2>1. Tale(q, m, n, on, mem2, ac, gs)
    BY <1>0, <1>4, <1>6, <1>9, OtherPlaces
  <2>2. ~ Some(r, Told(q, n))
    <3>1. CASE ~ mem[s].online
      BY <1>1, <3>1, NothingSent
    <3>2. CASE mem[s].online
      <4>1. PICK a \in Answers : r = <<a>> /\ a.who = mem[s].who
        BY <1>5, <3>2
      <4>2. a \notin Told(q, n)
        BY <1>9, <4>1, AnswerKinds
      <4>3. ~ Some(<<a>>, Told(q, n))
        BY <4>2, One
      <4> QED BY <4>1, <4>3
    <3> QED BY <3>1, <3>2
  <2>3. Tale(q, m, n, on, mem2, ac, gs \o r)
    BY <1>1, <2>1, <2>2, ReplyOther
  <2> QED BY <1>2, <2>3 DEF r, mem
<1> QED BY <1>8, <1>9

\* ACDelFM: the messages to the members, in the order of their places.
LEMMA AllAreTold ==
    ASSUME TypeInv, Seats(family), family.top # 0
    PROVE  /\ NotifyAll \in Seq(Answers)
           /\ \A i \in DOMAIN NotifyAll : \E s \in Places :
                 /\ family.member[s].online /\ NotifyAll[i].slot = s
                 /\ NotifyAll[i].kind = "Login" /\ NotifyAll[i].who = family.member[s].who
                 /\ NotifyAll[i].session = family.member[s].session /\ ~ NotifyAll[i].ok
           /\ \A s \in Places : family.member[s].online => \E i \in DOMAIN NotifyAll : NotifyAll[i].slot = s
           /\ \A i, j \in DOMAIN NotifyAll : i < j => NotifyAll[i].slot < NotifyAll[j].slot
<1> DEFINE top == family.top
           q == [i \in 1..top |-> Notify(family, i - 1, FALSE)]
           w == FlattenSeq(q)
<1>0. top \in Nat \ {0} /\ \A j \in 1..top : j - 1 \in Places
  <2>1. family.top \in 0..MemberMax /\ MemberMax \in Nat
    BY DEF TypeInv, Families, FamilyAssumption
  <2> QED BY <2>1 DEF Places
<1>1. \A s \in Places : family.member[s].online => family.member[s].who # NoOne /\ s + 1 \in 1..top
  <2>1. \A s \in Places : family.member[s].online => family.member[s].who # NoOne /\ s < top
    BY DEF Seats
  <2> HIDE DEF top
  <2>2. ASSUME NEW s \in Places, family.member[s].online PROVE s + 1 \in 1..top
    <3>1. s \in Nat /\ top \in Nat /\ s < top
      BY <1>0, <2>1, <2>2, PlacesFacts
    <3> QED BY <3>1
  <2> QED BY <2>1, <2>2
<1>2. family \in Families
  BY DEF TypeInv
<1> HIDE DEF top
<1>3. ASSUME NEW j \in 1..top
      PROVE  /\ q[j] \in Seq(Answers) /\ Len(q[j]) \in {0, 1} /\ (Len(q[j]) = 1 <=> family.member[j - 1].online)
             /\ Len(q[j]) = 1 => /\ q[j][1].slot = j - 1 /\ q[j][1].kind = "Login" /\ q[j][1].who = family.member[j - 1].who
                                 /\ q[j][1].session = family.member[j - 1].session /\ ~ q[j][1].ok
  <2> DEFINE s == j - 1
  <2>1. s \in Places
    BY <1>0
  <2>2. q[j] = Notify(family, s, FALSE)
    OBVIOUS
  <2>3. family.member[s].online => family.member[s].who # NoOne
    BY <1>1, <2>1
  <2> HIDE DEF s, q
  <2>4. q[j] \in Seq(Answers)
    BY <1>2, <2>1, <2>2, <2>3, NotifyIs
  <2>5. CASE ~ family.member[s].online
    <3>1. q[j] = <<>>
      BY <1>2, <2>1, <2>2, <2>3, <2>5, NotifyIs
    <3> QED BY <2>4, <2>5, <3>1 DEF s
  <2>6. CASE family.member[s].online
    <3>1. PICK a \in Answers : /\ Notify(family, s, FALSE) = <<a>>
                               /\ a.kind = "Login" /\ a.who = family.member[s].who /\ a.session = family.member[s].session
                               /\ ~ a.ok /\ a.slot = s
      BY <1>2, <2>1, <2>3, <2>6, NotifyNo
    <3>2. q[j] = <<a>>
      BY <2>2, <3>1
    <3>3. Len(q[j]) = 1 /\ q[j][1] = a
      BY <3>2
    <3> QED BY <2>4, <2>6, <3>1, <3>3 DEF s
  <2> QED BY <2>5, <2>6
<1>4. q \in Seq(Seq(Answers)) /\ Len(q) = top
  <2>1. \A j \in 1..top : q[j] \in Seq(Answers)
    BY <1>3
  <2>2. q \in [1..top -> Seq(Answers)]
    BY <2>1
  <2>3. top \in Nat
    BY <1>0
  <2> HIDE DEF q
  <2> QED BY <2>2, <2>3
<1>5. NotifyAll = w
  BY DEF NotifyAll, top
<1> HIDE DEF q
<1>6. w \in Seq(Answers) /\ OfSlots(w, q, Len(q))
  BY <1>0, <1>3, <1>4, FlatOfSlots
<1> HIDE DEF w
<1>7. ASSUME NEW i \in DOMAIN w
      PROVE  \E s \in Places : /\ family.member[s].online /\ w[i].slot = s
                               /\ w[i].kind = "Login" /\ w[i].who = family.member[s].who
                               /\ w[i].session = family.member[s].session /\ ~ w[i].ok
  <2>1. PICK j \in 1..top : Len(q[j]) = 1 /\ w[i] = q[j][1]
    BY <1>4, <1>6 DEF OfSlots
  <2>2. j - 1 \in Places
    BY <1>0
  <2> QED BY <1>3, <2>1, <2>2
<1>8. ASSUME NEW s \in Places, family.member[s].online PROVE \E i \in DOMAIN w : w[i].slot = s
  <2> DEFINE j == s + 1
  <2>1. j \in 1..top /\ j - 1 = s
    BY <1>1, <1>8, PlacesFacts
  <2> HIDE DEF j
  <2>2. Len(q[j]) = 1 /\ q[j][1].slot = s
    BY <1>3, <1>8, <2>1
  <2>3. PICK i \in DOMAIN w : w[i] = q[j][1]
    BY <1>4, <1>6, <2>1, <2>2 DEF OfSlots
  <2> QED BY <2>2, <2>3
<1>9. \A i, j \in DOMAIN w : i < j => w[i].slot < w[j].slot
  BY <1>6 DEF OfSlots
<1> QED BY <1>5, <1>6, <1>7, <1>8, <1>9

\* The family is dissolved.
LEMMA StoryWhenDissolved ==
    ASSUME TypeInv, Seats(family), family.top # 0,
           NEW q \in Folk, NEW m \in MarksOf, NEW n \in Nat, NEW on \in BOOLEAN, NEW ac,
           Tale(q, m, n, on, family.member, ac, toGS)
    PROVE  /\ toGS \o NotifyAll \in Seq(Answers)
           /\ Tale(q, m, n, on, NoFamily.member, ac, toGS \o NotifyAll)
<1> DEFINE r == NotifyAll
           mem == family.member
           mem2 == NoFamily.member
           gs == toGS
<1>0. mem \in Lists /\ q # NoOne /\ gs \in Seq(Answers)
  BY DEF TypeInv, Families, FamilyAssumption
<1>1. mem2 \in Lists /\ \A s \in Places : mem2[s].who = NoOne
  BY DEF NoFamily, NoMember, Lists, Ranked, Flags
<1>2. /\ r \in Seq(Answers)
      /\ \A i \in DOMAIN r : \E s \in Places :
            /\ mem[s].online /\ r[i].slot = s
            /\ r[i].kind = "Login" /\ r[i].who = mem[s].who /\ r[i].session = mem[s].session /\ ~ r[i].ok
      /\ \A s \in Places : mem[s].online => \E i \in DOMAIN r : r[i].slot = s
      /\ \A i, j \in DOMAIN r : i < j => r[i].slot < r[j].slot
  BY AllAreTold
<1>3. Tale(q, m, n, on, mem, ac, gs)
  OBVIOUS
<1>4. gs \o r \in Seq(Answers) /\ Says(q, n, gs, r, gs \o r)
  BY <1>0, <1>2, WhenSaid, ConcatProperties
<1>5. \A i \in DOMAIN r : r[i] \in Answers /\ i \in Nat
  BY <1>2, ElementOfSeq, LenProperties
<1>6. ~ In(mem2, q)
  BY <1>0, <1>1 DEF In
<1> HIDE DEF r, mem, mem2, gs
<1>7. CASE ~ In(mem, q)
  <2>1. Tale(q, m, n, on, mem2, ac, gs)
    BY <1>0, <1>1, <1>3, <1>6, <1>7, OtherPlaces DEF In
  <2>2. ASSUME NEW i \in DOMAIN r, r[i] \in Told(q, n) PROVE FALSE
    <3>1. r[i].who = q
      BY <1>5, <2>2, AnswerKinds
    <3> QED BY <1>2, <1>7, <3>1 DEF In
  <2>3. ~ Some(r, Told(q, n))
    BY <2>2 DEF Some
  <2>4. Tale(q, m, n, on, mem2, ac, gs \o r)
    BY <1>0, <1>1, <1>2, <2>1, <2>3, ReplyOther
  <2> QED BY <1>4, <2>4 DEF gs, r, mem2
<1>8. ASSUME NEW z \in Places, mem[z].who = q
      PROVE  Tale(q, m, n, on, mem2, ac, gs \o r)
  <2>1. \A s \in Places : mem[s].who = q => s = z
    BY <1>3, <1>8 DEF Tale, Alone
  <2>2. mem[z].session \in Nat /\ mem[z].session <= n
    BY <1>0, <1>3, <1>8 DEF Tale, Past, Lists, Ranked
  <2>3. ASSUME NEW i \in DOMAIN r, r[i].who = q
        PROVE  /\ mem[z].online /\ r[i].slot = z /\ r[i].kind = "Login" /\ r[i].session = mem[z].session /\ ~ r[i].ok
    BY <1>2, <2>1, <2>3
  <2>4. ASSUME NEW i \in DOMAIN r, r[i] \in Clear(q, n)
        PROVE  r[i].slot = z /\ mem[z].online /\ mem[z].session = n
    BY <1>5, <2>3, <2>4, AnswerKinds
  <2>5. Upto(r, Clear(q, n), Clear(q, n))
    <3>1. ASSUME NEW i \in DOMAIN r, NEW j \in DOMAIN r, r[i] \in Clear(q, n), r[j] \in Clear(q, n), ~ (i <= j)
          PROVE  FALSE
      <4>1. r[i].slot = z /\ r[j].slot = z
        BY <2>4, <3>1
      <4>2. j < i
        BY <1>5, <3>1
      <4>3. r[j].slot < r[i].slot
        BY <1>2, <4>2
      <4>4. z < z /\ z \in Nat
        BY <4>1, <4>3, PlacesFacts
      <4> QED BY <4>4
    <3> QED BY <3>1 DEF Upto
  <2>6. ASSUME NEW i \in DOMAIN r, r[i] \in Told(q, n) \ Clear(q, n) PROVE FALSE
    <3>1. r[i].who = q
      BY <1>5, <2>6, AnswerKinds
    <3>2. r[i].kind = "Login" /\ r[i].session = mem[z].session /\ ~ r[i].ok
      BY <2>3, <3>1
    <3>3. r[i].session # n
      BY <1>5, <2>6, <3>1, <3>2, AnswerKinds
    <3>4. ~ (r[i].session > n)
      BY <2>2, <3>2
    <3> QED BY <1>5, <2>6, <3>1, <3>2, <3>3, <3>4, AnswerKinds
  <2>7. ~ Some(r, Told(q, n) \ Clear(q, n))
    BY <2>6 DEF Some
  <2>8. ASSUME mem[z].online, mem[z].session = n PROVE Some(r, Clear(q, n))
    <3>1. PICK i \in DOMAIN r : r[i].slot = z
      BY <1>2, <2>8
    <3>2. r[i].kind = "Login" /\ r[i].who = q /\ r[i].session = n /\ ~ r[i].ok
      BY <1>2, <1>8, <2>8, <3>1
    <3>3. r[i] \in Clear(q, n)
      BY <1>5, <3>2, AnswerKinds
    <3> QED BY <3>3 DEF Some
  <2>9. Some(r, Clear(q, n)) <=> mem[z].online /\ mem[z].session = n
    BY <2>4, <2>8 DEF Some
  <2> QED BY <1>0, <1>1, <1>3, <1>4, <1>6, <1>8, <2>5, <2>7, <2>9, StruckOff
<1> QED BY <1>4, <1>7, <1>8 DEF In, gs, r, mem2

----------------------------------------------------------------------------
\* The account server takes the next request.

\* The request that the account server takes is one of those under way.
LEMMA Received ==
    ASSUME TypeInv, NEW kind, Receive(kind)
    PROVE  /\ toAC # <<>> /\ toAC \in Seq(Requests) /\ Tail(toAC) \in Seq(Requests) /\ toAC' = Tail(toAC)
           /\ Head(toAC) \in Requests /\ Head(toAC).kind = kind
BY HeadTailProperties DEF Receive, TypeInv

\* What is in a request.
LEMMA RequestFields ==
    ASSUME NEW x \in Requests
    PROVE  /\ x.who \in Folk
           /\ x.kind \in {"Add", "Join", "Leave", "Del", "Login", "Logout"} => x.session \in Nat
           /\ x.kind = "MemberJoin" => x.slot \in Places /\ x.result \in {"MEMBER", "ELDER"}
           /\ x.kind = "MemberLeave" => x.slot \in Places
           /\ x.kind = "Accept" => x.result \in BOOLEAN
           /\ x.kind = "Fix" => x.slot \in Places \cup {-1} /\ x.result \in Nat
<1>1. CASE x \in OwnRequests
  BY <1>1 DEF OwnRequests
<1>2. CASE x \in Orders
  BY <1>2 DEF Orders
<1>3. CASE x \in Accepts
  BY <1>3 DEF Accepts
<1>4. CASE x \in Fixes
  BY <1>4 DEF Fixes
<1> QED BY <1>1, <1>2, <1>3, <1>4 DEF Requests

\* Everybody's story before the step.
LEMMA Before ==
    ASSUME IInv, NEW q \in Folk \ cut
    PROVE  /\ Tale(q, marks[q], here[q].session, here[q].online, family.member, toAC, toGS)
           /\ marks[q] \in MarksOf /\ here[q].session \in Nat /\ here[q].online \in BOOLEAN
           /\ family.member \in Lists /\ toAC \in Seq(Requests) /\ toGS \in Seq(Answers)
BY Known DEF IInv, TaleInv, TaleOf

\* A request that q does not look at is taken.
LEMMA BeforeAndTaken ==
    ASSUME IInv, NEW q \in Folk \ cut, toAC # <<>>, Head(toAC) \notin Asks(q)
    PROVE  Tale(q, marks[q], here[q].session, here[q].online, family.member, Tail(toAC), toGS)
BY Before, TakeOther

\* The list and its counts are right after the step, and everybody's story goes on.
LEMMA Served ==
    ASSUME IInv, toAC' = Tail(toAC), Tail(toAC) \in Seq(Requests), UNCHANGED <<marks, here, cut>>,
           NEW gs \in Seq(Answers), toGS' = gs, NEW f \in Families, family' = f, NEW sl \in Int, slips' = sl,
           Seats(f), Counts(f, sl),
           \A q \in Folk \ cut : Tale(q, marks[q], here[q].session, here[q].online, f.member, Tail(toAC), gs)
    PROVE  IInv'
<1>1. TypeInv'
  BY DEF IInv, TypeInv
<1>2. ListInv'
  BY DEF ListInv
<1>3. TaleInv'
  BY DEF TaleInv, TaleOf
<1> QED BY <1>1, <1>2, <1>3 DEF IInv

\* A record of the family with another list.
LEMMA ListOf ==
    ASSUME NEW f \in Families, NEW s \in Places, NEW r \in Ranked
    PROVE  [f.member EXCEPT ![s] = r] \in Lists
BY DEF Families, Lists

\* ACAddFM and ACJoinFM: who asks to found a family or to join it is refused.
LEMMA RefusedStep ==
    ASSUME IInv, NEW kind \in {"Add", "Join"}, Receive(kind), Reply(Answer(kind, Head(toAC), FALSE)),
           UNCHANGED <<family, marks, here, slips, cut>>
    PROVE  IInv'
<1> DEFINE x == Head(toAC)
<1>1. /\ toAC # <<>> /\ toAC \in Seq(Requests) /\ Tail(toAC) \in Seq(Requests) /\ toAC' = Tail(toAC)
      /\ x \in Requests /\ x.kind = kind
  BY Received DEF IInv
<1>2. x.who \in Folk /\ x.session \in Nat
  BY <1>1, RequestFields
<1>4. family \in Families /\ slips \in Int /\ Seats(family) /\ Counts(family, slips) /\ toGS \in Seq(Answers)
  BY DEF IInv, TypeInv, ListInv
<1> HIDE DEF x
<1>10. PICK a \in Answers : Refuses(kind, x, a)
  BY <1>2, AnswerNo
<1>11. Answer(kind, x, FALSE) = <<a>> /\ a.kind = kind /\ a.who = x.who /\ a.session = x.session /\ ~ a.ok
  BY <1>10 DEF Refuses
<1> DEFINE gs == toGS \o <<a>>
<1>12. gs \in Seq(Answers)
  BY <1>4, ConcatProperties
<1>13. toGS' = gs /\ UNCHANGED family
  BY <1>11 DEF Reply, x
<1>14. ASSUME NEW q \in Folk \ cut
      PROVE  Tale(q, marks[q], here[q].session, here[q].online, family.member, Tail(toAC), gs)
  <2>1. CASE q # x.who
    <3>1. x \notin Asks(q) /\ a \notin Told(q, here[q].session)
      BY <1>1, <1>11, <2>1, Before, RequestKinds, AnswerKinds
    <3>2. Tale(q, marks[q], here[q].session, here[q].online, family.member, Tail(toAC), toGS)
      BY <1>1, <3>1, BeforeAndTaken DEF x
    <3> QED BY <3>1, <3>2, Before, StoryOfAnother
  <2>2. CASE q = x.who
    <3>1. Takes(q, toAC, x, Tail(toAC)) /\ SaysOne(q, here[q].session, toGS, a, gs)
      BY <1>1, Before, WhenTaken, WhenOneSaid DEF x
    <3>2. x.kind \in {"Add", "Join"} /\ x.who = q /\ a.kind = x.kind /\ a.who = q /\ a.session = x.session /\ ~ a.ok
      BY <1>1, <1>11, <2>2
    <3> HIDE DEF gs
    <3> QED BY <1>1, <3>1, <3>2, Before, AskRefused
  <2> QED BY <2>1, <2>2
<1> HIDE DEF gs
<1> QED BY <1>1, <1>4, <1>12, <1>13, <1>14, Served

\* ACAddFM: the family is founded, or there is one already.
LEMMA ACAddFMStep ==
    ASSUME IInv, ACAddFM
    PROVE  IInv'
<1> DEFINE x == Head(toAC)
<1>1. /\ toAC # <<>> /\ toAC \in Seq(Requests) /\ Tail(toAC) \in Seq(Requests) /\ toAC' = Tail(toAC)
      /\ x \in Requests /\ x.kind = "Add"
  BY Received DEF ACAddFM, IInv
<1>2. x.who \in Folk /\ x.session \in Nat
  BY <1>1, RequestFields
<1>3. UNCHANGED <<marks, here, cut, slips>>
  BY DEF ACAddFM
<1>4. family \in Families /\ slips \in Int /\ Seats(family) /\ Counts(family, slips) /\ toGS \in Seq(Answers)
  BY DEF IInv, TypeInv, ListInv
<1> HIDE DEF x
<1>5. CASE family.used
  <2>1. Receive("Add") /\ Reply(Answer("Add", Head(toAC), FALSE)) /\ UNCHANGED family
    BY <1>5 DEF ACAddFM
  <2> QED BY <1>3, <2>1, RefusedStep
<1>6. CASE ~ family.used
  <2>0. PICK a \in Answers : Grants("Add", x, a)
    BY <1>2, AnswerYes
  <2>1. Answer("Add", x, TRUE) = <<a>> /\ a.kind = "Add" /\ a.who = x.who /\ a.session = x.session /\ a.ok
    BY <2>0 DEF Grants
  <2> DEFINE gs == toGS \o <<a>>
             new == [who |-> x.who, flag |-> "LEADER", event |-> TRUE, session |-> x.session, online |-> TRUE]
             f == [family EXCEPT !.used = TRUE, !.accept = TRUE, !.num = 1, !.joined = 1, !.top = 1,
                                 !.member[0] = new]
             mem == [family.member EXCEPT ![0] = new]
  <2>2. gs \in Seq(Answers)
    BY <1>4, ConcatProperties
  <2>3. toGS' = gs /\ family' = f
    BY <1>6, <2>1 DEF ACAddFM, Reply, x
  <2>4. new \in Ranked /\ new.who = x.who /\ new.flag = "LEADER" /\ new.online /\ new.session = x.session
    BY <1>2 DEF Ranked, Flags
  <2> HIDE DEF new
  <2>5. mem \in Lists /\ mem[0] = new /\ \A s \in Places \ {0} : mem[s] = family.member[s]
    BY <1>4, <2>4, PlacesFacts DEF Families, Lists
  <2>6. f \in Families /\ f.member = mem /\ f.used /\ f.num = 1 /\ f.joined = 1 /\ f.top = 1
    <3>1. 1 \in 0..MemberMax /\ 1 \in Int
      BY DEF FamilyAssumption
    <3> QED BY <1>4, <2>5, <3>1 DEF Families
  <2> HIDE DEF f, mem, gs
  <2>7. Seats(f) /\ Counts(f, slips)
    BY <1>2, <1>4, <1>6, <2>4, <2>5, <2>6, ListFounded
  <2>8. \A s \in Places : family.member[s].who = NoOne
    BY <1>4, <1>6 DEF Seats
  <2>9. ASSUME NEW q \in Folk \ cut
        PROVE  Tale(q, marks[q], here[q].session, here[q].online, mem, Tail(toAC), gs)
    <3>0. q # NoOne
      BY DEF FamilyAssumption
    <3>1. CASE q # x.who
      <4>1. x \notin Asks(q) /\ a \notin Told(q, here[q].session)
        BY <1>1, <2>1, <3>1, Before, RequestKinds, AnswerKinds
      <4>2. Tale(q, marks[q], here[q].session, here[q].online, family.member, Tail(toAC), toGS)
        BY <1>1, <4>1, BeforeAndTaken DEF x
      <4>3. \A s \in Places : family.member[s].who = q \/ mem[s].who = q => mem[s] = family.member[s]
        BY <2>4, <2>5, <2>8, <3>0, <3>1
      <4>4. Tale(q, marks[q], here[q].session, here[q].online, mem, Tail(toAC), toGS)
        BY <2>5, <4>2, <4>3, Before, OtherPlaces
      <4> QED BY <2>5, <4>1, <4>4, Before, StoryOfAnother DEF gs
    <3>2. CASE q = x.who
      <4>1. Takes(q, toAC, x, Tail(toAC)) /\ SaysOne(q, here[q].session, toGS, a, gs)
        BY <1>1, Before, WhenTaken, WhenOneSaid DEF x, gs
      <4>2. \A s \in Places : mem[s].who = q <=> s = 0
        BY <2>4, <2>5, <2>8, <3>0, <3>2, PlacesFacts
      <4>3. SitsAt(q, mem, 0, "LEADER", x.session) /\ 0 \in Places
        BY <2>4, <2>5, <4>2, PlacesFacts DEF SitsAt
      <4>4. x.kind = "Add" /\ x.who = q /\ a.kind = "Add" /\ a.who = q /\ a.session = x.session /\ a.ok
        BY <1>1, <2>1, <3>2
      <4> QED BY <1>1, <2>5, <4>1, <4>3, <4>4, Before, AddTaken
    <3> QED BY <3>1, <3>2
  <2> QED BY <1>1, <1>3, <1>4, <2>2, <2>3, <2>6, <2>7, <2>9, Served
<1> QED BY <1>5, <1>6

\* An answer about what was asked tells nobody that waits for one about its rank.
LEMMA OtherAnswer ==
    ASSUME NEW q \in Folk, NEW n \in Nat, NEW a \in Answers,
           a.kind \in {"Leave", "Del", "Fix"} \/ (a.kind = "Join" /\ a.ok /\ (a.who = q => a.session <= n))
    PROVE  a \notin Told(q, n)
<1>1. ~ (a.who = q /\ a.kind = "Join" /\ a.ok /\ a.session > n)
  <2>1. a.session \in Nat
    BY DEF Answers
  <2> QED BY <2>1
<1>2. a \notin Verdict(q, n) /\ a \notin Tell(q, n)
  BY AnswerKinds
<1> QED BY <1>1, <1>2, AnswerKinds

\* ACJoinFM: the applicant is listed, told its rank, and that it joined.
LEMMA ACJoinFMStep ==
    ASSUME IInv, ACJoinFM
    PROVE  IInv'
<1> DEFINE x == Head(toAC)
           s == Lowest(FreeSlots)
           Room == /\ family.used /\ family.accept
                   /\ family.num < MemberMax /\ family.joined < MemberMax
                   /\ Member(0).who # x.who /\ FreeSlots # {}
<1>1. /\ toAC # <<>> /\ toAC \in Seq(Requests) /\ Tail(toAC) \in Seq(Requests) /\ toAC' = Tail(toAC)
      /\ x \in Requests /\ x.kind = "Join"
  BY Received DEF ACJoinFM, IInv
<1>2. x.who \in Folk /\ x.session \in Nat
  BY <1>1, RequestFields
<1>3. UNCHANGED <<marks, here, cut, slips>>
  BY DEF ACJoinFM
<1>4. family \in Families /\ slips \in Int /\ Seats(family) /\ Counts(family, slips) /\ toGS \in Seq(Answers)
  BY DEF IInv, TypeInv, ListInv
<1>5. CASE ~ Room
  <2>1. Receive("Join") /\ Reply(Answer("Join", Head(toAC), FALSE)) /\ UNCHANGED family
    BY <1>5 DEF ACJoinFM
  <2> QED BY <1>3, <2>1, RefusedStep
<1>6. CASE Room
  <2> DEFINE new == [who |-> x.who, flag |-> "APPLY", event |-> FALSE, session |-> x.session, online |-> TRUE]
             top == IF family.top <= s THEN s + 1 ELSE family.top
             f == [family EXCEPT !.num = @ + 1, !.top = IF @ <= s THEN s + 1 ELSE @, !.member[s] = new]
             mem == [family.member EXCEPT ![s] = new]
  <2>0. family' = f /\ Reply(Notify(f, s, TRUE) \o Answer("Join", x, TRUE)) /\ family.used
    BY <1>6 DEF ACJoinFM
  <2>1. s \in Places \ {0} /\ family.member[s].who = NoOne
    <3>1. FreeSlots \in SUBSET Nat /\ FreeSlots # {}
      BY <1>6, PlacesFacts DEF FreeSlots
    <3>2. s \in FreeSlots
      BY <3>1, LowestIsOne
    <3> QED BY <3>2 DEF FreeSlots, Member
  <2> HIDE DEF x, s, Room
  <2>2. new \in Ranked /\ new.who = x.who /\ new.flag = "APPLY" /\ new.online /\ new.session = x.session
    BY <1>2 DEF Ranked, Flags
  <2>3. top \in 0..MemberMax /\ top > s /\ top >= family.top
    <3>1. family.top \in 0..MemberMax /\ s \in 0..(MemberMax - 1) /\ MemberMax \in Nat
      BY <1>4, <2>1 DEF Families, Places, FamilyAssumption
    <3> QED BY <3>1
  <2> HIDE DEF new
  <2>4. mem \in Lists /\ mem[s] = new /\ \A t \in Places \ {s} : mem[t] = family.member[t]
    BY <1>4, <2>1, <2>2 DEF Families, Lists
  <2>5. /\ f \in Families /\ f.member = mem /\ f.used /\ f.num = family.num + 1 /\ f.joined = family.joined
        /\ f.top = top
    <3>1. family.num + 1 \in Int
      BY <1>4 DEF Families
    <3>2. f = [[[family EXCEPT !.num = family.num + 1] EXCEPT !.top = top] EXCEPT !.member = mem]
      BY <1>4 DEF Families
    <3> HIDE DEF f, mem, top
    <3> QED BY <1>4, <2>0, <2>3, <2>4, <3>1, <3>2 DEF Families
  <2> HIDE DEF f, mem, top
  <2>6. Seats(f) /\ Counts(f, slips)
    <3>1. f.top > s /\ f.top >= family.top /\ f.member[s].flag = "APPLY" /\ f.member[s].who \in Folk
      BY <1>2, <2>2, <2>3, <2>4, <2>5
    <3> QED BY <1>4, <2>0, <2>1, <2>4, <2>5, <3>1, ListJoined
  <2>7. PICK b \in Answers : /\ Notify(f, s, TRUE) = <<b>>
                             /\ b.kind = "Login" /\ b.who = x.who /\ b.session = x.session
                             /\ b.ok /\ b.flag = "APPLY"
    <3>1. /\ f.member[s].online /\ f.member[s].who # NoOne /\ f.member[s].who = x.who
          /\ f.member[s].session = x.session /\ f.member[s].flag = "APPLY"
      BY <1>2, <2>2, <2>4, <2>5 DEF FamilyAssumption
    <3>2. PICK b \in Answers : /\ Notify(f, s, TRUE) = <<b>>
                               /\ b.kind = "Login" /\ b.who = f.member[s].who /\ b.session = f.member[s].session
                               /\ b.ok /\ b.flag = f.member[s].flag
      BY <2>1, <2>5, <3>1, NotifyYes
    <3> QED BY <3>1, <3>2
  <2>8. PICK a \in Answers : Grants("Join", x, a)
    BY <1>2, AnswerYes
  <2>9. Answer("Join", x, TRUE) = <<a>> /\ a.kind = "Join" /\ a.who = x.who /\ a.session = x.session /\ a.ok
    BY <2>8 DEF Grants
  <2> DEFINE g == toGS \o <<b>>
             gs == g \o <<a>>
  <2>10. g \in Seq(Answers) /\ gs \in Seq(Answers)
    BY <1>4, ConcatProperties
  <2>11. toGS' = gs
    <3>1. toGS' = toGS \o (<<b>> \o <<a>>)
      BY <2>0, <2>7, <2>9 DEF Reply
    <3>2. <<b>> \in Seq(Answers) /\ <<a>> \in Seq(Answers)
      OBVIOUS
    <3> QED BY <1>4, <3>1, <3>2, ConcatAssociative
  <2> HIDE DEF g
  <2>12. ASSUME NEW q \in Folk \ cut
         PROVE  Tale(q, marks[q], here[q].session, here[q].online, mem, Tail(toAC), gs)
    <3>0. q # NoOne
      BY DEF FamilyAssumption
    <3>1. CASE q # x.who
      <4>1. x \notin Asks(q) /\ a \notin Told(q, here[q].session) /\ b \notin Told(q, here[q].session)
        BY <1>1, <2>7, <2>9, <3>1, Before, RequestKinds, AnswerKinds
      <4>2. Tale(q, marks[q], here[q].session, here[q].online, family.member, Tail(toAC), toGS)
        BY <1>1, <4>1, BeforeAndTaken DEF x
      <4>3. \A t \in Places : family.member[t].who = q \/ mem[t].who = q => mem[t] = family.member[t]
        BY <2>1, <2>2, <2>4, <3>0, <3>1
      <4>4. Tale(q, marks[q], here[q].session, here[q].online, mem, Tail(toAC), toGS)
        BY <2>4, <4>2, <4>3, Before, OtherPlaces
      <4>5. Tale(q, marks[q], here[q].session, here[q].online, mem, Tail(toAC), g)
        BY <2>4, <4>1, <4>4, Before, StoryOfAnother DEF g
      <4> QED BY <2>4, <2>10, <4>1, <4>5, Before, StoryOfAnother
    <3>2. CASE q = x.who
      <4>1. Takes(q, toAC, x, Tail(toAC)) /\ SaysOne(q, here[q].session, toGS, b, g)
        BY <1>1, Before, WhenTaken, WhenOneSaid DEF x, g
      <4>2. x.kind = "Join" /\ x.who = q /\ b.kind = "Login" /\ b.who = q /\ b.session = x.session /\ b.ok /\ b.flag = "APPLY"
        BY <1>1, <2>7, <3>2
      <4>3. x \in Ask(q)
        BY <1>1, <4>2, RequestKinds, Before
      <4>4. ~ In(family.member, q) /\ x.session <= here[q].session
        BY <1>1, <4>1, <4>3, Before, AskIsNext
      <4>5. SitsAt(q, mem, s, "APPLY", x.session)
        BY <2>1, <2>2, <2>4, <3>0, <3>2, <4>4 DEF SitsAt, In
      <4>6. Tale(q, marks[q], here[q].session, here[q].online, mem, Tail(toAC), g)
        BY <1>1, <2>1, <2>4, <4>1, <4>2, <4>5, Before, JoinTaken
      <4>7. a \notin Told(q, here[q].session)
        BY <2>9, <4>4, Before, OtherAnswer
      <4> QED BY <2>4, <2>10, <4>6, <4>7, Before, StoryOfAnother
    <3> QED BY <3>1, <3>2
  <2> HIDE DEF gs
  <2> QED BY <1>1, <1>3, <1>4, <2>0, <2>5, <2>6, <2>10, <2>11, <2>12, Served
<1> QED BY <1>5, <1>6

\* A request that the story of nobody is about, and the list as it is: nothing is said ...
LEMMA IgnoredStep ==
    ASSUME IInv, NEW kind, kind \notin {"Add", "Join", "Login", "Logout"}, Receive(kind),
           UNCHANGED <<family, marks, here, toGS, slips, cut>>
    PROVE  IInv'
<1> DEFINE x == Head(toAC)
<1>1. /\ toAC # <<>> /\ toAC \in Seq(Requests) /\ Tail(toAC) \in Seq(Requests) /\ toAC' = Tail(toAC)
      /\ x \in Requests /\ x.kind = kind
  BY Received DEF IInv
<1>2. family \in Families /\ slips \in Int /\ Seats(family) /\ Counts(family, slips) /\ toGS \in Seq(Answers)
  BY DEF IInv, TypeInv, ListInv
<1> HIDE DEF x
<1>3. ASSUME NEW q \in Folk \ cut
      PROVE  Tale(q, marks[q], here[q].session, here[q].online, family.member, Tail(toAC), toGS)
  <2>1. x \notin Asks(q)
    BY <1>1, Before, RequestKinds
  <2> QED BY <1>1, <2>1, BeforeAndTaken DEF x
<1> QED BY <1>1, <1>2, <1>3, Served

\* ... or only that it was refused.
LEMMA NotGrantedStep ==
    ASSUME IInv, NEW kind, kind \notin {"Add", "Join", "Login", "Logout"}, Receive(kind),
           NEW kind2 \in {"Leave", "Del", "Fix"}, NEW m, m.who \in Folk, m.session \in Nat,
           Reply(Answer(kind2, m, FALSE)), UNCHANGED <<family, marks, here, slips, cut>>
    PROVE  IInv'
<1> DEFINE x == Head(toAC)
<1>1. /\ toAC # <<>> /\ toAC \in Seq(Requests) /\ Tail(toAC) \in Seq(Requests) /\ toAC' = Tail(toAC)
      /\ x \in Requests /\ x.kind = kind
  BY Received DEF IInv
<1>2. family \in Families /\ slips \in Int /\ Seats(family) /\ Counts(family, slips) /\ toGS \in Seq(Answers)
  BY DEF IInv, TypeInv, ListInv
<1>3. PICK a \in Answers : Refuses(kind2, m, a)
  BY AnswerNo
<1> DEFINE gs == toGS \o <<a>>
<1>4. gs \in Seq(Answers)
  BY <1>2, ConcatProperties
<1>5. toGS' = gs /\ a.kind = kind2
  BY <1>3 DEF Reply, Refuses
<1> HIDE DEF x
<1>6. ASSUME NEW q \in Folk \ cut
      PROVE  Tale(q, marks[q], here[q].session, here[q].online, family.member, Tail(toAC), gs)
  <2>1. x \notin Asks(q) /\ a \notin Told(q, here[q].session)
    BY <1>1, <1>5, Before, RequestKinds, OtherAnswer
  <2>2. Tale(q, marks[q], here[q].session, here[q].online, family.member, Tail(toAC), toGS)
    BY <1>1, <2>1, BeforeAndTaken DEF x
  <2> QED BY <2>1, <2>2, Before, StoryOfAnother
<1> HIDE DEF gs
<1> QED BY <1>1, <1>2, <1>4, <1>5, <1>6, Served

\* The slots that a character is found in.
LEMMA ListedPlaces ==
    ASSUME IInv, NEW p \in Folk, NEW k \in {0, 1}
    PROVE  /\ Listed(p, k) # {} => /\ Lowest(Listed(p, k)) \in Places /\ Lowest(Listed(p, k)) >= k
                                   /\ family.member[Lowest(Listed(p, k))].who = p
           /\ k = 0 /\ Listed(p, k) = {} => ~ In(family.member, p)
<1> DEFINE T == Listed(p, k)
<1>1. family.top \in 0..MemberMax /\ MemberMax \in Nat /\ p # NoOne
  BY DEF IInv, TypeInv, Families, FamilyAssumption
<1>2. ASSUME NEW t \in T PROVE t \in Places /\ t >= k /\ family.member[t].who = p
  BY <1>1, <1>2 DEF Listed, Places, Member
<1>3. ASSUME T # {} PROVE Lowest(T) \in T
  <2>1. T \in SUBSET Nat
    BY <1>2, PlacesFacts
  <2> QED BY <1>3, <2>1, LowestIsOne
<1>4. ASSUME k = 0, NEW t \in Places, family.member[t].who = p PROVE t \in T
  <2>1. t < family.top
    BY <1>1, <1>4 DEF IInv, ListInv, Seats
  <2> QED BY <1>1, <1>4, <2>1 DEF Listed, Places, Member
<1> HIDE DEF T
<1>5. T # {} => Lowest(T) \in Places /\ Lowest(T) >= k /\ family.member[Lowest(T)].who = p
  BY <1>2, <1>3
<1>6. k = 0 /\ T = {} => ~ In(family.member, p)
  BY <1>4 DEF In
<1> QED BY <1>5, <1>6 DEF T

\* The record f of the family, and the number sl of slips, when the member in place s is struck off.
Vacated(s, f, sl) ==
    /\ f.member \in Lists /\ Without(family.member, s, f.member)
    /\ Seats(f) /\ Counts(f, sl)

\* MemberLeaves: the list and its counts are right after a place is cleared.
LEMMA PlaceCleared ==
    ASSUME IInv, NEW s \in Places \ {0}, family.used, family.member[s].who # NoOne, MemberLeaves(s)
    PROVE  \E f \in Families, sl \in Int : family' = f /\ slips' = sl /\ Vacated(s, f, sl)
<1> DEFINE mem == [family.member EXCEPT ![s] = NoMember]
           joined == family.joined - (IF family.member[s].flag = "APPLY" THEN 0 ELSE 1)
           num == family.num - 1
           anew == num < 1 \/ joined < 1
           joined2 == IF anew THEN Count(mem, Joined) ELSE joined
           num2 == IF anew THEN Count(mem, Flags \ {"NONE"}) ELSE num
           f == [family EXCEPT !.member = mem, !.joined = joined2, !.num = num2,
                               !.top = IF @ = s THEN @ - 1 ELSE @]
           sl == IF anew THEN 0 ELSE slips
<1>0. /\ family \in Families /\ slips \in Int /\ Seats(family) /\ Counts(family, slips)
      /\ family.num \in Int /\ family.joined \in Int /\ family.top \in Nat
  BY DEF IInv, TypeInv, ListInv, Families, FamilyAssumption
<1>1. family' = f /\ slips' = sl
  BY DEF MemberLeaves, Member
<1>2. mem \in Lists /\ mem[s] = NoMember /\ \A t \in Places \ {s} : mem[t] = family.member[t]
  <2>1. NoMember \in Ranked
    BY DEF NoMember, Ranked, Flags
  <2> QED BY <1>0, <2>1 DEF Families, Lists
<1>3. family.top # s
  BY <1>0, PlacesFacts DEF Seats
<1>4. anew \in BOOLEAN
  OBVIOUS
<1>5. joined \in Int /\ num \in Int
  BY <1>0
<1> HIDE DEF mem
<1>6. Count(mem, Joined) \in Int /\ Count(mem, Flags \ {"NONE"}) \in Int
  BY <1>2, CountOne, PlacesFacts
<1> HIDE DEF anew, joined, num
<1>7. joined2 \in Int /\ num2 \in Int /\ sl \in Int
  BY <1>0, <1>5, <1>6
<1>8. /\ f \in Families /\ f.member = mem /\ f.used = family.used /\ f.top = family.top
      /\ f.joined = joined2 /\ f.num = num2
  <2> HIDE DEF joined2, num2
  <2>1. f = [family EXCEPT !.member = mem, !.joined = joined2, !.num = num2]
    BY <1>0, <1>3 DEF Families
  <2>2. mem \in Lists
    BY <1>2
  <2> HIDE DEF f
  <2> QED BY <1>0, <1>7, <2>1, <2>2 DEF Families
<1> HIDE DEF f
<1>9. /\ f.num = IF anew THEN Count(f.member, Flags \ {"NONE"}) ELSE family.num - 1
      /\ f.joined = IF anew THEN Count(f.member, Joined)
                    ELSE family.joined - (IF family.member[s].flag = "APPLY" THEN 0 ELSE 1)
  BY <1>8 DEF joined, num
<1>10. f.used /\ f.member[s] = NoMember /\ \A t \in Places \ {s} : f.member[t] = family.member[t]
  BY <1>2, <1>8
<1>11. Seats(f) /\ Counts(f, sl)
  <2>1. sl = IF anew THEN 0 ELSE slips
    OBVIOUS
  <2> HIDE DEF sl, joined2, num2
  <2>2. Emptied(family, slips, s, anew, f, sl)
    BY <1>8, <1>9, <1>10, <2>1 DEF Emptied
  <2> QED BY <1>0, <1>4, <1>7, <1>8, <2>2, ListLeft
<1>12. Vacated(s, f, sl)
  BY <1>2, <1>8, <1>11 DEF Vacated, NoMember, Without
<1> HIDE DEF sl
<1> QED BY <1>1, <1>7, <1>8, <1>12

\* Everybody's story goes on when the member in place s is told that it is struck off.
LEMMA StoryWhenVacated ==
    ASSUME IInv, NEW q \in Folk \ cut, NEW s \in Places, NEW f \in Families, NEW sl, Vacated(s, f, sl),
           toAC # <<>>, Head(toAC) \in Requests, Head(toAC).kind \notin {"Add", "Join", "Login", "Logout"}
    PROVE  Tale(q, marks[q], here[q].session, here[q].online, f.member, Tail(toAC), toGS \o Notify(family, s, FALSE))
<1>1. Head(toAC) \notin Asks(q)
  BY Before, RequestKinds
<1>2. Tale(q, marks[q], here[q].session, here[q].online, family.member, Tail(toAC), toGS)
  BY <1>1, BeforeAndTaken
<1>3. family \in Families /\ Seats(family)
  BY DEF IInv, TypeInv, ListInv
<1> DEFINE mem2 == f.member
           m == marks[q]
           n == here[q].session
           on == here[q].online
           ac == Tail(toAC)
<1>4. mem2 \in Lists /\ Without(family.member, s, mem2)
  BY DEF Vacated
<1>5. m \in MarksOf /\ n \in Nat /\ on \in BOOLEAN /\ toGS \in Seq(Answers) /\ q \in Folk
  BY Before
<1>6. Tale(q, m, n, on, family.member, ac, toGS)
  BY <1>2
<1> DEFINE fam == family
           gs == toGS
<1>8. fam \in Families /\ Seats(fam) /\ Without(fam.member, s, mem2) /\ Tale(q, m, n, on, fam.member, ac, gs) /\ gs \in Seq(Answers)
  BY <1>3, <1>4, <1>5, <1>6
<1> HIDE DEF mem2, m, n, on, ac, fam, gs
<1>7. Tale(q, m, n, on, mem2, ac, gs \o Notify(fam, s, FALSE))
  BY <1>4, <1>5, <1>8, StoryWhenStruck
<1> QED BY <1>7 DEF mem2, m, n, on, ac, fam, gs

\* ACMemberLeaveFM: a member is struck off, and told.
LEMMA ACMemberLeaveFMStep ==
    ASSUME IInv, ACMemberLeaveFM
    PROVE  IInv'
<1> DEFINE x == Head(toAC)
           s == x.slot
<1>1. /\ toAC # <<>> /\ toAC \in Seq(Requests) /\ Tail(toAC) \in Seq(Requests) /\ toAC' = Tail(toAC)
      /\ x \in Requests /\ x.kind = "MemberLeave" /\ Receive("MemberLeave")
  BY Received DEF ACMemberLeaveFM, IInv
<1>2. UNCHANGED <<marks, here, cut>>
  BY DEF ACMemberLeaveFM
<1>3. CASE ~ Removable(x.who, x.slot)
  <2>1. UNCHANGED <<family, toGS, slips>>
    BY <1>3 DEF ACMemberLeaveFM
  <2> QED BY <1>1, <1>2, <2>1, IgnoredStep
<1>4. CASE Removable(x.who, x.slot)
  <2>1. MemberLeaves(s) /\ Reply(Notify(family, s, FALSE))
    BY <1>4 DEF ACMemberLeaveFM
  <2>2. s \in Places \ {0} /\ family.used /\ family.member[s].who # NoOne
    BY <1>1, <1>4, RequestFields DEF Removable, Member, FamilyAssumption
  <2> HIDE DEF s
  <2>3. PICK f \in Families, sl \in Int : family' = f /\ slips' = sl /\ Vacated(s, f, sl)
    BY <2>1, <2>2, PlaceCleared
  <2> DEFINE gs == toGS \o Notify(family, s, FALSE)
  <2>4. gs \in Seq(Answers)
    <3>1. family \in Families /\ toGS \in Seq(Answers) /\ (family.member[s].online => family.member[s].who # NoOne)
      BY <2>2 DEF IInv, TypeInv
    <3>2. Notify(family, s, FALSE) \in Seq(Answers)
      BY <2>2, <3>1, NotifyIs
    <3> QED BY <3>1, <3>2, ConcatProperties
  <2>5. toGS' = gs
    BY <2>1 DEF Reply
  <2>6. \A q \in Folk \ cut : Tale(q, marks[q], here[q].session, here[q].online, f.member, Tail(toAC), gs)
    BY <1>1, <2>2, <2>3, StoryWhenVacated
  <2>7. Seats(f) /\ Counts(f, sl)
    BY <2>3 DEF Vacated
  <2> HIDE DEF gs
  <2> QED BY <1>1, <1>2, <2>3, <2>4, <2>5, <2>6, <2>7, Served
<1> QED BY <1>3, <1>4

\* ACLeaveFM: the member that asked is struck off and told, and told that it left.
LEMMA ACLeaveFMStep ==
    ASSUME IInv, ACLeaveFM
    PROVE  IInv'
<1> DEFINE x == Head(toAC)
           slots == Listed(x.who, 1)
           s == Lowest(slots)
<1>1. /\ toAC # <<>> /\ toAC \in Seq(Requests) /\ Tail(toAC) \in Seq(Requests) /\ toAC' = Tail(toAC)
      /\ x \in Requests /\ x.kind = "Leave" /\ Receive("Leave")
  BY Received DEF ACLeaveFM, IInv
<1>2. UNCHANGED <<marks, here, cut>> /\ x.who \in Folk /\ x.session \in Nat
  BY <1>1, RequestFields DEF ACLeaveFM
<1>3. CASE ~ (family.used /\ slots # {})
  <2>1. Reply(Answer("Leave", x, FALSE)) /\ UNCHANGED <<family, slips>>
    BY <1>3 DEF ACLeaveFM
  <2> HIDE DEF x
  <2> QED BY <1>1, <1>2, <2>1, NotGrantedStep
<1>4. CASE family.used /\ slots # {}
  <2>1. MemberLeaves(s) /\ Reply(Notify(family, s, FALSE) \o Answer("Leave", x, TRUE))
    BY <1>4 DEF ACLeaveFM
  <2>2. s \in Places \ {0} /\ family.used /\ family.member[s].who # NoOne
    <3>1. s \in Places /\ s >= 1 /\ family.member[s].who = x.who
      BY <1>2, <1>4, ListedPlaces
    <3> HIDE DEF s
    <3> QED BY <1>2, <1>4, <3>1, PlacesFacts DEF FamilyAssumption
  <2> HIDE DEF s, x
  <2>3. PICK f \in Families, sl \in Int : family' = f /\ slips' = sl /\ Vacated(s, f, sl)
    BY <2>1, <2>2, PlaceCleared
  <2>4. PICK a \in Answers : Grants("Leave", x, a)
    BY <1>2, AnswerYes
  <2> DEFINE r == Notify(family, s, FALSE)
             g == toGS \o r
             gs == g \o <<a>>
  <2>5. r \in Seq(Answers) /\ g \in Seq(Answers) /\ gs \in Seq(Answers) /\ <<a>> \in Seq(Answers) /\ toGS \in Seq(Answers)
    <3>1. family \in Families /\ toGS \in Seq(Answers) /\ (family.member[s].online => family.member[s].who # NoOne)
      BY <2>2 DEF IInv, TypeInv
    <3>2. r \in Seq(Answers)
      BY <2>2, <3>1, NotifyIs
    <3> HIDE DEF r
    <3>3. g \in Seq(Answers) /\ <<a>> \in Seq(Answers)
      BY <3>1, <3>2, ConcatProperties
    <3> HIDE DEF g
    <3> QED BY <3>1, <3>2, <3>3, ConcatProperties
  <2>6. toGS' = gs /\ a.kind = "Leave"
    <3>1. Answer("Leave", x, TRUE) = <<a>> /\ a.kind = "Leave"
      BY <2>4 DEF Grants
    <3>2. toGS' = toGS \o (r \o <<a>>)
      BY <2>1, <3>1 DEF Reply
    <3> HIDE DEF r
    <3> QED BY <2>5, <3>1, <3>2, ConcatAssociative
  <2>7. ASSUME NEW q \in Folk \ cut
        PROVE  Tale(q, marks[q], here[q].session, here[q].online, f.member, Tail(toAC), gs)
    <3>1. Tale(q, marks[q], here[q].session, here[q].online, f.member, Tail(toAC), g)
      BY <1>1, <2>2, <2>3, StoryWhenVacated DEF x
    <3>2. a \notin Told(q, here[q].session) /\ f.member \in Lists
      BY <2>6, Before, OtherAnswer DEF Families
    <3> HIDE DEF g
    <3> QED BY <2>5, <3>1, <3>2, Before, StoryOfAnother
  <2>8. Seats(f) /\ Counts(f, sl)
    BY <2>3 DEF Vacated
  <2> HIDE DEF gs
  <2> QED BY <1>1, <1>2, <2>3, <2>5, <2>6, <2>7, <2>8, Served
<1> QED BY <1>3, <1>4

\* There is no family: nobody is listed, and nobody is counted.
LEMMA NoFamilyIsRight == NoFamily \in Families /\ Seats(NoFamily) /\ Counts(NoFamily, 0) /\ ~ NoFamily.used
<1>1. NoMember \in Ranked /\ 0 \in 0..MemberMax
  BY DEF NoMember, Ranked, Flags, FamilyAssumption
<1>2. NoFamily \in Families
  BY <1>1 DEF NoFamily, Families, Lists
<1>3. \A s \in Places : NoFamily.member[s] = NoMember
  BY DEF NoFamily
<1> QED BY <1>2, <1>3 DEF NoFamily, NoMember, Seats, Counts

\* ACDelFM: the family is dissolved.
LEMMA ACDelFMStep ==
    ASSUME IInv, ACDelFM
    PROVE  IInv'
<1> DEFINE x == Head(toAC)
<1>1. /\ toAC # <<>> /\ toAC \in Seq(Requests) /\ Tail(toAC) \in Seq(Requests) /\ toAC' = Tail(toAC)
      /\ x \in Requests /\ x.kind = "Del" /\ Receive("Del")
  BY Received DEF ACDelFM, IInv
<1>2. UNCHANGED <<marks, here, cut>> /\ x.who \in Folk /\ x.session \in Nat
  BY <1>1, RequestFields DEF ACDelFM
<1>3. CASE ~ (family.used /\ Member(0).who = x.who)
  <2>1. Reply(Answer("Del", x, FALSE)) /\ UNCHANGED <<family, slips>>
    BY <1>3 DEF ACDelFM
  <2> HIDE DEF x
  <2> QED BY <1>1, <1>2, <2>1, NotGrantedStep
<1>4. CASE family.used /\ Member(0).who = x.who
  <2>1. family' = NoFamily /\ slips' = 0 /\ Reply(NotifyAll \o Answer("Del", x, TRUE))
    BY <1>4 DEF ACDelFM
  <2> HIDE DEF x
  <2>2. TypeInv /\ Seats(family) /\ family.top # 0 /\ toGS \in Seq(Answers)
    <3>1. family.member[0].who # NoOne
      BY <1>2, <1>4 DEF Member, FamilyAssumption
    <3>2. 0 < family.top
      BY <3>1, PlacesFacts DEF IInv, ListInv, Seats
    <3> QED BY <3>2 DEF IInv, ListInv, TypeInv
  <2>4. PICK a \in Answers : Grants("Del", x, a)
    BY <1>2, AnswerYes
  <2> DEFINE r == NotifyAll
             g == toGS \o r
             gs == g \o <<a>>
             f == NoFamily
  <2>5. r \in Seq(Answers) /\ g \in Seq(Answers) /\ gs \in Seq(Answers) /\ <<a>> \in Seq(Answers)
    BY <2>2, AllAreTold, ConcatProperties
  <2>6. toGS' = gs /\ a.kind = "Del"
    <3>1. Answer("Del", x, TRUE) = <<a>> /\ a.kind = "Del"
      BY <2>4 DEF Grants
    <3>2. toGS' = toGS \o (r \o <<a>>)
      BY <2>1, <3>1 DEF Reply
    <3> HIDE DEF r
    <3> QED BY <2>2, <2>5, <3>1, <3>2, ConcatAssociative
  <2>7. ASSUME NEW q \in Folk \ cut
        PROVE  Tale(q, marks[q], here[q].session, here[q].online, f.member, Tail(toAC), gs)
    <3>0. x \notin Asks(q)
      BY <1>1, Before, RequestKinds
    <3>1. Tale(q, marks[q], here[q].session, here[q].online, family.member, Tail(toAC), toGS)
      BY <1>1, <3>0, BeforeAndTaken DEF x
    <3>2. Tale(q, marks[q], here[q].session, here[q].online, f.member, Tail(toAC), g)
      BY <2>2, <3>1, Before, StoryWhenDissolved
    <3>3. a \notin Told(q, here[q].session) /\ f.member \in Lists
      BY <2>6, Before, OtherAnswer, NoFamilyIsRight DEF Families
    <3> HIDE DEF g, f
    <3> QED BY <2>5, <3>2, <3>3, Before, StoryOfAnother
  <2>8. f \in Families /\ Seats(f) /\ Counts(f, 0)
    BY NoFamilyIsRight
  <2> DEFINE sl == 0
  <2>9. family' = f /\ slips' = sl /\ sl \in Int
    BY <2>1
  <2> HIDE DEF gs, f, sl
  <2>10. Counts(f, sl)
    BY <2>8 DEF sl
  <2> QED BY <1>1, <1>2, <2>5, <2>6, <2>7, <2>8, <2>9, <2>10, Served
<1> QED BY <1>3, <1>4

\* ACFixFMData: the family opens, or closes.
LEMMA ACFixFMAcceptStep ==
    ASSUME IInv, ACFixFMAccept
    PROVE  IInv'
<1> DEFINE x == Head(toAC)
           f == IF family.used THEN [family EXCEPT !.accept = x.result] ELSE family
<1>1. /\ toAC # <<>> /\ toAC \in Seq(Requests) /\ Tail(toAC) \in Seq(Requests) /\ toAC' = Tail(toAC)
      /\ x \in Requests /\ x.kind = "Accept"
  BY Received DEF ACFixFMAccept, IInv
<1>2. UNCHANGED <<marks, here, toGS, slips, cut>> /\ family' = f
  BY DEF ACFixFMAccept
<1>3. family \in Families /\ slips \in Int /\ Seats(family) /\ Counts(family, slips) /\ toGS \in Seq(Answers)
  BY DEF IInv, TypeInv, ListInv
<1>4. /\ f \in Families /\ f.member = family.member /\ f.used = family.used /\ f.num = family.num
      /\ f.joined = family.joined /\ f.top = family.top
  BY <1>1, <1>3, RequestFields DEF Families
<1>5. Seats(f) /\ Counts(f, slips)
  <2> HIDE DEF f
  <2> QED BY <1>3, <1>4 DEF Seats, Counts
<1> HIDE DEF f, x
<1>6. ASSUME NEW q \in Folk \ cut
      PROVE  Tale(q, marks[q], here[q].session, here[q].online, f.member, Tail(toAC), toGS)
  <2>1. x \notin Asks(q)
    BY <1>1, Before, RequestKinds
  <2> QED BY <1>1, <1>4, <2>1, BeforeAndTaken DEF x
<1> QED BY <1>1, <1>2, <1>3, <1>4, <1>5, <1>6, Served

\* mem2 is the list mem with another rank of the member in place s.
Regraded(mem, s, rank, mem2) == mem[s].who # NoOne /\ mem2 = [mem EXCEPT ![s].flag = rank]

\* ACMemberJoinFM: the member q, or somebody else, gets a rank, and is told.
LEMMA StoryWhenPromoted ==
    ASSUME NEW q \in Folk, NEW m \in MarksOf, NEW n \in Nat, NEW on \in BOOLEAN,
           NEW ac, NEW gs \in Seq(Answers), NEW mem \in Lists, NEW f \in Families, NEW s \in Places, NEW rank,
           Regraded(mem, s, rank, f.member), Seats(f),
           Tale(q, m, n, on, mem, ac, gs)
    PROVE  Tale(q, m, n, on, f.member, ac, gs \o Notify(f, s, TRUE))
<1> DEFINE mem2 == f.member
<1>1. mem2 \in Lists
  BY DEF Families
<1>2. /\ mem2[s].who = mem[s].who /\ mem2[s].online = mem[s].online /\ mem2[s].session = mem[s].session
      /\ \A t \in Places \ {s} : mem2[t] = mem[t]
  <2>1. mem[s] \in Ranked
    BY DEF Lists
  <2>2. mem2[s] = [mem[s] EXCEPT !.flag = rank] /\ \A t \in Places \ {s} : mem2[t] = mem[t]
    BY DEF Lists, Regraded
  <2> HIDE DEF mem2
  <2> QED BY <2>1, <2>2 DEF Ranked
<1>3. Tale(q, m, n, on, mem, ac, gs)
  OBVIOUS
<1>4. CASE mem[s].who = q
  <2>1. Moved(q, mem, s, mem2, s)
    BY <1>2, <1>3, <1>4 DEF Tale, Alone, Moved
  <2> QED BY <2>1, StoryWhenRanked
<1>5. CASE mem[s].who # q
  <2>1. Tale(q, m, n, on, mem2, ac, gs)
    <3>1. \A t \in Places : mem[t].who = q \/ mem2[t].who = q => mem2[t] = mem[t]
      BY <1>2, <1>5
    <3> HIDE DEF mem2
    <3> QED BY <1>1, <1>3, <3>1, OtherPlaces
  <2> QED BY <2>1, StoryWhenNotified
<1> QED BY <1>4, <1>5

\* The story of q, as it is, with another list or other messages.
Story(q, mem, ac, gs) == Tale(q, marks[q], here[q].session, here[q].online, mem, ac, gs)

\* It goes on when somebody gets a rank, ...
LEMMA GoesOnPromoted ==
    ASSUME IInv, NEW q \in Folk \ cut, NEW ac, NEW gs \in Seq(Answers), NEW mem \in Lists,
           NEW f \in Families, NEW s \in Places, NEW rank,
           Regraded(mem, s, rank, f.member), Seats(f), Story(q, mem, ac, gs)
    PROVE  Story(q, f.member, ac, gs \o Notify(f, s, TRUE))
<1> DEFINE m == marks[q]
           n == here[q].session
           on == here[q].online
<1>1. m \in MarksOf /\ n \in Nat /\ on \in BOOLEAN /\ q \in Folk
  BY Before
<1>2. Tale(q, m, n, on, mem, ac, gs)
  BY DEF Story
<1> HIDE DEF m, n, on
<1>3. Tale(q, m, n, on, f.member, ac, gs \o Notify(f, s, TRUE))
  BY <1>1, <1>2, StoryWhenPromoted
<1> QED BY <1>3 DEF Story, m, n, on

\* ... or is told its rank.
LEMMA GoesOnTold ==
    ASSUME IInv, NEW q \in Folk \ cut, NEW ac, NEW gs \in Seq(Answers),
           NEW f \in Families, NEW s \in Places, Seats(f), Story(q, f.member, ac, gs)
    PROVE  Story(q, f.member, ac, gs \o Notify(f, s, TRUE))
<1> DEFINE m == marks[q]
           n == here[q].session
           on == here[q].online
<1>1. m \in MarksOf /\ n \in Nat /\ on \in BOOLEAN /\ q \in Folk
  BY Before
<1>2. Tale(q, m, n, on, f.member, ac, gs)
  BY DEF Story
<1> HIDE DEF m, n, on
<1>3. Tale(q, m, n, on, f.member, ac, gs \o Notify(f, s, TRUE))
  BY <1>1, <1>2, StoryWhenNotified
<1> QED BY <1>3 DEF Story, m, n, on

\* ACMemberJoinFM: a member or an applicant gets a rank, or is only counted.
LEMMA ACMemberJoinFMStep ==
    ASSUME IInv, ACMemberJoinFM
    PROVE  IInv'
<1> DEFINE x == Head(toAC)
           s == x.slot
           rank == x.result
           applicant == family.member[s].flag = "APPLY"
           joined == family.joined + (IF applicant THEN 1 ELSE 0)
           top == IF family.top <= s THEN s + 1 ELSE family.top
           f == [family EXCEPT !.joined = joined, !.accept = @ /\ joined < MemberMax,
                               !.top = IF @ <= s THEN s + 1 ELSE @]
           given == [f EXCEPT !.member[s].flag = rank]
           Ignored == ~ family.used \/ s = 0 \/ family.member[s].who # x.who \/ family.joined >= MemberMax
           Refused == /\ rank = "ELDER"
                      /\ ~ family.member[s].event \/ Count(family.member, {"ELDER"}) >= ElderMax
           sl == slips + (IF applicant THEN 1 ELSE 0)
<1>1. /\ toAC # <<>> /\ toAC \in Seq(Requests) /\ Tail(toAC) \in Seq(Requests) /\ toAC' = Tail(toAC)
      /\ x \in Requests /\ x.kind = "MemberJoin" /\ Receive("MemberJoin")
  BY Received DEF ACMemberJoinFM, IInv
<1>2. UNCHANGED <<marks, here, cut>>
  BY DEF ACMemberJoinFM
<1>3. x.who \in Folk /\ s \in Places /\ rank \in {"MEMBER", "ELDER"}
  BY <1>1, RequestFields
<1>4. family \in Families /\ slips \in Int /\ Seats(family) /\ Counts(family, slips) /\ toGS \in Seq(Answers)
      /\ family.member \in Lists
  BY DEF IInv, TypeInv, ListInv, Families
<1>5. CASE Ignored
  <2>1. UNCHANGED <<family, toGS, slips>>
    BY <1>5 DEF ACMemberJoinFM, Member
  <2> QED BY <1>1, <1>2, <2>1, IgnoredStep
<1>6. /\ joined \in Int /\ sl \in Int /\ top \in 0..MemberMax /\ top >= family.top
      /\ joined - family.joined = sl - slips
  <2>1. family.top \in 0..MemberMax /\ s \in 0..(MemberMax - 1) /\ MemberMax \in Nat /\ family.joined \in Int
    BY <1>3, <1>4 DEF Families, Places, FamilyAssumption
  <2> HIDE DEF s, applicant
  <2> QED BY <1>4, <2>1
<1>7. /\ f \in Families /\ f.member = family.member /\ f.used = family.used /\ f.num = family.num
      /\ f.joined = joined /\ f.top = top
  <2>1. f = [family EXCEPT !.joined = joined, !.accept = family.accept /\ joined < MemberMax, !.top = top]
    BY <1>4 DEF Families
  <2>2. (family.accept /\ joined < MemberMax) \in BOOLEAN
    OBVIOUS
  <2> HIDE DEF f, joined, top
  <2> QED BY <1>4, <1>6, <2>1, <2>2 DEF Families
<1>8. ASSUME NEW q \in Folk \ cut
      PROVE  Story(q, family.member, Tail(toAC), toGS)
  <2> HIDE DEF x
  <2>1. x \notin Asks(q)
    BY <1>1, <1>8, Before, RequestKinds
  <2> QED BY <1>1, <1>8, <2>1, BeforeAndTaken DEF x, Story
<1>9. CASE ~ Ignored /\ Refused
  <2>1. family' = f /\ UNCHANGED toGS /\ slips' = sl
    BY <1>9 DEF ACMemberJoinFM, Member
  <2>2. family.used
    BY <1>9
  <2> HIDE DEF f, joined, top, sl, applicant, s, rank, x
  <2>3. SameRanks(family, slips, f, sl)
    BY <1>4, <1>6, <1>7, <2>2 DEF SameRanks, Seats, Families
  <2>4. Seats(f) /\ Counts(f, sl)
    BY <1>4, <1>6, <1>7, <2>2, <2>3, ListKept
  <2> QED BY <1>1, <1>2, <1>4, <1>6, <1>7, <1>8, <2>1, <2>4, Served DEF Story
<1>10. CASE ~ Ignored /\ ~ Refused
  <2>1. /\ family' = given /\ UNCHANGED slips
        /\ Reply(IF rank = "MEMBER" /\ family.member[s].online
                 THEN Notify(given, s, TRUE) \o Notify(given, 0, TRUE) ELSE Notify(given, s, TRUE))
    BY <1>10 DEF ACMemberJoinFM, Member
  <2>2. /\ family.used /\ s # 0 /\ family.member[s].who = x.who
        /\ rank = "ELDER" => ~ (Count(family.member, {"ELDER"}) >= ElderMax)
    BY <1>10
  <2> HIDE DEF Ignored, Refused
  <2>3. family.member[s].who # NoOne /\ s \in Places \ {0}
    BY <1>3, <2>2 DEF FamilyAssumption
  <2>4. rank = "ELDER" => Count(family.member, {"ELDER"}) < ElderMax
    <3>1. Count(family.member, {"ELDER"}) \in Nat /\ ElderMax \in Nat
      BY <1>4, CountOne, PlacesFacts DEF FamilyAssumption
    <3> QED BY <2>2, <3>1
  <2> DEFINE mem2 == [family.member EXCEPT ![s].flag = rank]
  <2>5. /\ mem2 \in Lists /\ mem2[s].flag = rank /\ mem2[s].who = family.member[s].who
        /\ \A t \in Places \ {s} : mem2[t] = family.member[t]
    <3>1. family.member[s] \in Ranked /\ rank \in Flags
      BY <1>3, <1>4 DEF Lists, Flags
    <3> DEFINE new == [family.member[s] EXCEPT !.flag = rank]
    <3>2. new \in Ranked /\ new.flag = rank /\ new.who = family.member[s].who
      BY <3>1 DEF Ranked
    <3>3. mem2 = [family.member EXCEPT ![s] = new]
      OBVIOUS
    <3> HIDE DEF new, mem2
    <3> QED BY <1>3, <1>4, <3>2, <3>3 DEF Lists
  <2>6. /\ given \in Families /\ given.member = mem2 /\ given.used = family.used /\ given.num = family.num
        /\ given.joined = joined /\ given.top = top
    <3>1. given = [f EXCEPT !.member = mem2]
      <4> HIDE DEF f, s, rank
      <4> QED BY <1>7 DEF Families
    <3> HIDE DEF f, mem2, joined, top, given
    <3> QED BY <1>7, <2>5, <3>1 DEF Families
  <2> HIDE DEF given, f
  <2>7. Promoted(family, s, rank, given)
    <3>1. given.used /\ given.num = family.num /\ given.top >= family.top
      BY <1>6, <2>2, <2>6
    <3> HIDE DEF mem2
    <3> QED BY <2>4, <2>5, <2>6, <3>1 DEF Promoted
  <2> HIDE DEF s, rank, x, joined, top, applicant
  <2>8. Seats(given) /\ Counts(given, slips)
    BY <1>3, <1>4, <2>2, <2>3, <2>6, <2>7, ListRanked
  <2> DEFINE z == 0
             r == Notify(given, s, TRUE)
             u == Notify(given, z, TRUE)
             g == toGS \o r
             h == g \o u
  <2>9. g \in Seq(Answers)
    BY <1>3, <1>4, <2>6, <2>8, ToldInTurn
  <2>10. ASSUME NEW q \in Folk \ cut
         PROVE  Story(q, given.member, Tail(toAC), g)
    <3>1. Regraded(family.member, s, rank, given.member)
      BY <2>3, <2>6 DEF Regraded
    <3> HIDE DEF mem2
    <3> QED BY <1>3, <1>4, <1>8, <2>6, <2>8, <3>1, GoesOnPromoted
  <2>11. CASE rank = "MEMBER" /\ family.member[s].online
    <3>1. h \in Seq(Answers)
      <4>1. z \in Places
        BY PlacesFacts
      <4> HIDE DEF g, z
      <4> QED BY <2>6, <2>8, <2>9, <4>1, ToldInTurn
    <3>2. toGS' = h
      <4>1. toGS' = toGS \o (r \o u)
        BY <2>1, <2>11 DEF Reply
      <4>2. r \in Seq(Answers) /\ u \in Seq(Answers)
        BY <1>3, <2>6, <2>8, PlacesFacts, NotifyIs DEF Seats
      <4> HIDE DEF r, u
      <4> QED BY <1>4, <4>1, <4>2, ConcatAssociative
    <3>3. ASSUME NEW q \in Folk \ cut
          PROVE  Story(q, given.member, Tail(toAC), h)
      <4>1. z \in Places
        BY PlacesFacts
      <4> HIDE DEF g, z
      <4> QED BY <2>6, <2>8, <2>9, <2>10, <3>3, <4>1, GoesOnTold
    <3> HIDE DEF h, mem2
    <3> QED BY <1>1, <1>2, <1>4, <2>1, <2>6, <2>8, <3>1, <3>2, <3>3, Served DEF Story
  <2>12. CASE ~ (rank = "MEMBER" /\ family.member[s].online)
    <3>1. toGS' = g
      BY <2>1, <2>12 DEF Reply
    <3> HIDE DEF g, mem2
    <3> QED BY <1>1, <1>2, <1>4, <2>1, <2>6, <2>8, <2>9, <2>10, <3>1, Served DEF Story
  <2> QED BY <2>11, <2>12
<1> QED BY <1>5, <1>9, <1>10

\* ACFixFMLeader: mem2 is the list mem when the leader and the member in place s
\* have changed places.
TookOver(mem, s, mem2) ==
    /\ mem[s].who # NoOne
    /\ mem2[0].who = mem[s].who /\ mem2[0].online = mem[s].online /\ mem2[0].session = mem[s].session
    /\ s # 0 => mem2[s].who = mem[0].who /\ mem2[s].online = mem[0].online /\ mem2[s].session = mem[0].session
    /\ \A t \in Places \ {0, s} : mem2[t] = mem[t]

\* Both are told, the new leader first.
LEMMA StoryWhenTakenOver ==
    ASSUME NEW q \in Folk, NEW m \in MarksOf, NEW n \in Nat, NEW on \in BOOLEAN,
           NEW ac, NEW gs \in Seq(Answers), NEW mem \in Lists, NEW f \in Families, NEW s \in Places, NEW z \in Places, z = 0,
           TookOver(mem, s, f.member), Seats(f), Tale(q, m, n, on, mem, ac, gs)
    PROVE  Tale(q, m, n, on, f.member, ac, (gs \o Notify(f, z, TRUE)) \o Notify(f, s, TRUE))
<1> DEFINE mem2 == f.member
           g == gs \o Notify(f, z, TRUE)
<1>1. mem2 \in Lists /\ q # NoOne
  BY DEF Families, FamilyAssumption
<1>2. /\ mem2[z].who = mem[s].who /\ mem2[z].online = mem[s].online /\ mem2[z].session = mem[s].session
      /\ s # z => mem2[s].who = mem[z].who /\ mem2[s].online = mem[z].online /\ mem2[s].session = mem[z].session
      /\ \A t \in Places \ {z, s} : mem2[t] = mem[t]
  BY DEF TookOver
<1>3. Tale(q, m, n, on, mem, ac, gs) /\ g \in Seq(Answers)
  BY ToldInTurn
<1>4. ASSUME mem[s].who = q PROVE Tale(q, m, n, on, f.member, ac, g \o Notify(f, s, TRUE))
  <2>1. \A t \in Places : mem[t].who = q => t = s
    BY <1>3, <1>4 DEF Tale, Alone
  <2>2. \A t \in Places : mem2[t].who = q <=> t = z
    <3> HIDE DEF mem2, g
    <3> QED BY <1>2, <1>4, <2>1
  <2>3. Moved(q, mem, s, mem2, z)
    BY <1>2, <1>4, <2>2 DEF Moved
  <2>4. Tale(q, m, n, on, f.member, ac, g)
    BY <1>3, <2>3, StoryWhenRanked
  <2> HIDE DEF g
  <2> QED BY <1>3, <2>4, StoryWhenNotified
<1>5. ASSUME mem[s].who # q, mem[z].who = q PROVE Tale(q, m, n, on, f.member, ac, g \o Notify(f, s, TRUE))
  <2>0. f.member[z].who # q
    BY <1>2, <1>5
  <2>1. Tale(q, m, n, on, mem, ac, g)
    BY <1>3, <2>0, StoryWhenOtherTold
  <2>2. \A t \in Places : mem[t].who = q => t = z
    BY <1>3, <1>5 DEF Tale, Alone
  <2>3. \A t \in Places : mem2[t].who = q <=> t = s
    <3> HIDE DEF mem2, g
    <3> QED BY <1>2, <1>5, <2>2
  <2>4. Moved(q, mem, z, mem2, s)
    BY <1>2, <1>5, <2>3 DEF Moved
  <2> HIDE DEF g
  <2> QED BY <1>3, <2>1, <2>4, StoryWhenRanked
<1>6. ASSUME mem[s].who # q, mem[z].who # q PROVE Tale(q, m, n, on, f.member, ac, g \o Notify(f, s, TRUE))
  <2>1. \A t \in Places : mem[t].who = q \/ mem2[t].who = q => mem2[t] = mem[t]
    <3> HIDE DEF mem2, g
    <3> QED BY <1>2, <1>6
  <2>2. Tale(q, m, n, on, mem2, ac, gs)
    <3> HIDE DEF mem2
    <3> QED BY <1>1, <1>3, <2>1, OtherPlaces
  <2>3. Tale(q, m, n, on, f.member, ac, g)
    BY <2>2, StoryWhenNotified
  <2> HIDE DEF g
  <2> QED BY <1>3, <2>3, StoryWhenNotified
<1> QED BY <1>4, <1>5, <1>6

\* The story of q goes on when the leader and its successor change places.
LEMMA GoesOnTakenOver ==
    ASSUME IInv, NEW q \in Folk \ cut, NEW ac, NEW gs \in Seq(Answers), NEW mem \in Lists,
           NEW f \in Families, NEW s \in Places, NEW z \in Places, z = 0,
           TookOver(mem, s, f.member), Seats(f), Story(q, mem, ac, gs)
    PROVE  Story(q, f.member, ac, (gs \o Notify(f, z, TRUE)) \o Notify(f, s, TRUE))
<1> DEFINE m == marks[q]
           n == here[q].session
           on == here[q].online
<1>1. m \in MarksOf /\ n \in Nat /\ on \in BOOLEAN /\ q \in Folk
  BY Before
<1>2. Tale(q, m, n, on, mem, ac, gs)
  BY DEF Story
<1> HIDE DEF m, n, on
<1>3. Tale(q, m, n, on, f.member, ac, (gs \o Notify(f, z, TRUE)) \o Notify(f, s, TRUE))
  BY <1>1, <1>2, StoryWhenTakenOver
<1> QED BY <1>3 DEF Story, m, n, on

\* It goes on when somebody hears something else.
LEMMA GoesOnUntold ==
    ASSUME IInv, NEW q \in Folk \ cut, NEW ac, NEW gs \in Seq(Answers), NEW mem \in Lists,
           NEW a \in Answers, a \notin Told(q, here[q].session), Story(q, mem, ac, gs)
    PROVE  Story(q, mem, ac, gs \o <<a>>)
<1> DEFINE m == marks[q]
           n == here[q].session
           on == here[q].online
<1>1. m \in MarksOf /\ n \in Nat /\ on \in BOOLEAN /\ q \in Folk /\ a \notin Told(q, n)
  BY Before
<1>2. Tale(q, m, n, on, mem, ac, gs)
  BY DEF Story
<1> HIDE DEF m, n, on
<1>3. Tale(q, m, n, on, mem, ac, gs \o <<a>>)
  BY <1>1, <1>2, StoryOfAnother
<1> QED BY <1>3 DEF Story, m, n, on

\* ACFixFMData: the leader's change.
LEMMA ACFixFMLeaderStep ==
    ASSUME IInv, ACFixFMLeader
    PROVE  IInv'
<1> DEFINE x == Head(toAC)
           s == x.slot
           old == family.member[0]
           new == family.member[s]
           u == [old EXCEPT !.flag = "MEMBER", !.event = new.event]
           v == [new EXCEPT !.flag = "LEADER", !.event = old.event]
           mem2 == [family.member EXCEPT ![s] = u, ![0] = v]
           f == [family EXCEPT !.member = mem2]
           answer == [who |-> x.who, session |-> x.result]
           sl == slips - (IF new.flag = "APPLY" THEN 1 ELSE 0)
           Fixed == family.used /\ s \in Places /\ new.who = x.who
<1>1. /\ toAC # <<>> /\ toAC \in Seq(Requests) /\ Tail(toAC) \in Seq(Requests) /\ toAC' = Tail(toAC)
      /\ x \in Requests /\ x.kind = "Fix" /\ Receive("Fix")
  BY Received DEF ACFixFMLeader, IInv
<1>2. UNCHANGED <<marks, here, cut>>
  BY DEF ACFixFMLeader
<1>3. x.who \in Folk /\ x.result \in Nat
  BY <1>1, RequestFields
<1>4. family \in Families /\ slips \in Int /\ Seats(family) /\ Counts(family, slips) /\ toGS \in Seq(Answers)
      /\ family.member \in Lists
  BY DEF IInv, TypeInv, ListInv, Families
<1>5. answer.who \in Folk /\ answer.session \in Nat
  BY <1>3
<1>6. CASE ~ Fixed
  <2>1. Reply(Answer("Fix", answer, FALSE)) /\ UNCHANGED <<family, slips>>
    BY <1>6 DEF ACFixFMLeader, Member
  <2> HIDE DEF answer
  <2> QED BY <1>1, <1>2, <1>5, <2>1, NotGrantedStep
<1>7. CASE Fixed
  <2>1. /\ family' = f /\ slips' = sl
        /\ Reply(Notify(f, 0, TRUE) \o Notify(f, s, TRUE) \o Answer("Fix", answer, TRUE))
    BY <1>7 DEF ACFixFMLeader, Member
  <2>2. s \in Places /\ family.used /\ new.who = x.who /\ new.who # NoOne
    BY <1>3, <1>7 DEF FamilyAssumption
  <2> HIDE DEF Fixed, x, s, answer
  <2>3. new \in Ranked /\ old \in Ranked /\ 0 \in Places
    BY <1>4, <2>2, PlacesFacts DEF Lists
  <2>4. /\ u \in Ranked /\ u.flag = "MEMBER" /\ u.who = old.who /\ u.online = old.online /\ u.session = old.session
        /\ v \in Ranked /\ v.flag = "LEADER" /\ v.who = new.who /\ v.online = new.online /\ v.session = new.session
    BY <2>3 DEF Ranked, Flags
  <2> HIDE DEF u, v
  <2>5. /\ mem2 \in Lists /\ mem2[0] = v /\ (s # 0 => mem2[s] = u)
        /\ \A t \in Places \ {0, s} : mem2[t] = family.member[t]
    BY <1>4, <2>2, <2>3, <2>4 DEF Lists
  <2>6. /\ f \in Families /\ f.member = mem2 /\ f.used = family.used /\ f.num = family.num
        /\ f.joined = family.joined /\ f.top = family.top
    <3> HIDE DEF mem2
    <3> QED BY <1>4, <2>5 DEF Families
  <2>7. sl \in Int
    BY <1>4
  <2> HIDE DEF f, mem2
  <2>8. Swapped(family, slips, s, f, sl)
    <3>1. /\ f.member[0].flag = "LEADER" /\ f.member[0].who = family.member[s].who
          /\ s # 0 => f.member[s].flag = "MEMBER" /\ f.member[s].who = family.member[0].who
          /\ \A t \in Places \ {0, s} : f.member[t] = family.member[t]
      BY <2>4, <2>5, <2>6
    <3> QED BY <2>2, <2>6, <3>1 DEF Swapped
  <2>9. TookOver(family.member, s, f.member)
    <3>1. /\ f.member[0].who = new.who /\ f.member[0].online = new.online /\ f.member[0].session = new.session
          /\ s # 0 => f.member[s].who = old.who /\ f.member[s].online = old.online /\ f.member[s].session = old.session
          /\ \A t \in Places \ {0, s} : f.member[t] = family.member[t]
      BY <2>4, <2>5, <2>6
    <3> QED BY <2>2, <3>1 DEF TookOver
  <2> HIDE DEF sl
  <2>10. Seats(f) /\ Counts(f, sl)
    BY <1>4, <2>2, <2>6, <2>7, <2>8, ListSwapped
  <2>11. PICK a \in Answers : Grants("Fix", answer, a)
    BY <1>5, AnswerYes DEF answer
  <2> DEFINE z == 0
             r0 == Notify(f, z, TRUE)
             r == Notify(f, s, TRUE)
             g0 == toGS \o r0
             g == g0 \o r
             gs == g \o <<a>>
  <2>12. z \in Places /\ z = 0
    BY <2>3
  <2>13. g0 \in Seq(Answers) /\ g \in Seq(Answers) /\ gs \in Seq(Answers)
    <3> HIDE DEF z
    <3>1. g0 \in Seq(Answers)
      BY <1>4, <2>6, <2>10, <2>12, ToldInTurn
    <3> HIDE DEF g0
    <3>2. g \in Seq(Answers)
      BY <2>2, <2>6, <2>10, <3>1, ToldInTurn
    <3> HIDE DEF g
    <3> QED BY <3>1, <3>2, ConcatProperties
  <2>14. toGS' = gs /\ a.kind = "Fix"
    <3>1. Answer("Fix", answer, TRUE) = <<a>> /\ a.kind = "Fix"
      BY <2>11 DEF Grants
    <3>2. toGS' = toGS \o ((r0 \o r) \o <<a>>)
      BY <2>1, <3>1 DEF Reply
    <3>3. r0 \in Seq(Answers) /\ r \in Seq(Answers) /\ <<a>> \in Seq(Answers)
      <4> HIDE DEF z
      <4>1. \A t \in Places : f.member[t].online => f.member[t].who # NoOne
        BY <2>10 DEF Seats
      <4>2. r0 \in Seq(Answers)
        BY <2>6, <2>12, <4>1, NotifyIs
      <4>3. r \in Seq(Answers)
        BY <2>2, <2>6, <4>1, NotifyIs
      <4>4. <<a>> \in Seq(Answers)
        OBVIOUS
      <4> HIDE DEF r0, r
      <4> QED BY <4>2, <4>3, <4>4
    <3> HIDE DEF r0, r
    <3>4. (r0 \o r) \o <<a>> = r0 \o (r \o <<a>>)
      BY <3>3, ConcatAssociative
    <3> DEFINE ra == r \o <<a>>
    <3>5. ra \in Seq(Answers)
      BY <3>3, ConcatProperties
    <3>6. toGS' = toGS \o (r0 \o ra)
      BY <3>2, <3>4
    <3>7. toGS' = g0 \o ra
      <4> HIDE DEF ra
      <4>1. toGS \o (r0 \o ra) = (toGS \o r0) \o ra
        BY <1>4, <3>3, <3>5, ConcatAssociative
      <4> QED BY <3>6, <4>1
    <3>8. toGS' = (g0 \o r) \o <<a>>
      <4> HIDE DEF g0
      <4> QED BY <2>13, <3>3, <3>7, ConcatAssociative
    <3> QED BY <3>1, <3>8
  <2>15. ASSUME NEW q \in Folk \ cut
         PROVE  Story(q, f.member, Tail(toAC), gs)
    <3>1. x \notin Asks(q)
      BY <1>1, Before, RequestKinds DEF x
    <3>2. Story(q, family.member, Tail(toAC), toGS)
      BY <1>1, <3>1, BeforeAndTaken DEF Story, x
    <3>3. Story(q, f.member, Tail(toAC), g)
      <4> HIDE DEF z
      <4> QED BY <1>4, <2>2, <2>6, <2>9, <2>10, <2>12, <3>2, GoesOnTakenOver
    <3>4. a \notin Told(q, here[q].session) /\ f.member \in Lists
      BY <2>5, <2>6, <2>14, Before, OtherAnswer
    <3> HIDE DEF g
    <3> QED BY <2>13, <3>3, <3>4, GoesOnUntold
  <2> HIDE DEF gs
  <2> QED BY <1>1, <1>2, <2>1, <2>6, <2>7, <2>10, <2>13, <2>14, <2>15, Served DEF Story, x
<1> QED BY <1>6, <1>7

\* ACFMCharLogin: who is listed is told its rank, and who is not, that it is not.
LEMMA ACFMCharLoginStep ==
    ASSUME IInv, ACFMCharLogin
    PROVE  IInv'
<1> DEFINE x == Head(toAC)
           slots == Listed(x.who, 0)
           s == Lowest(slots)
           fit == x.who \in Fit
           new == [family.member[s] EXCEPT !.online = TRUE, !.session = x.session, !.event = fit]
           mem2 == [family.member EXCEPT ![s] = new]
           f == [family EXCEPT !.member = mem2]
           Found == family.used /\ slots # {}
<1>1. /\ toAC # <<>> /\ toAC \in Seq(Requests) /\ Tail(toAC) \in Seq(Requests) /\ toAC' = Tail(toAC)
      /\ x \in Requests /\ x.kind = "Login" /\ Receive("Login")
  BY Received DEF ACFMCharLogin, IInv
<1>2. UNCHANGED <<marks, here, cut, slips>>
  BY DEF ACFMCharLogin
<1>3. x.who \in Folk /\ x.session \in Nat /\ x.who # NoOne
  BY <1>1, RequestFields DEF FamilyAssumption
<1>4. family \in Families /\ slips \in Int /\ Seats(family) /\ Counts(family, slips) /\ toGS \in Seq(Answers)
      /\ family.member \in Lists
  BY DEF IInv, TypeInv, ListInv, Families
<1>5. CASE ~ Found
  <2>1. Reply(Answer("Login", x, FALSE)) /\ UNCHANGED family
    BY <1>5 DEF ACFMCharLogin
  <2>2. ~ In(family.member, x.who)
    <3>1. CASE slots = {}
      BY <1>3, <3>1, ListedPlaces
    <3>2. CASE ~ family.used
      BY <1>3, <1>4, <3>2 DEF In, Seats
    <3> QED BY <1>5, <3>1, <3>2
  <2> HIDE DEF Found, x
  <2>3. PICK a \in Answers : Refuses("Login", x, a)
    BY <1>3, AnswerNo
  <2>4. Answer("Login", x, FALSE) = <<a>> /\ a.kind = "Login" /\ a.who = x.who /\ a.session = x.session /\ ~ a.ok
    BY <2>3 DEF Refuses
  <2> DEFINE gs == toGS \o <<a>>
  <2>5. gs \in Seq(Answers) /\ toGS' = gs
    <3>1. gs \in Seq(Answers)
      BY <1>4, ConcatProperties
    <3>2. toGS' = gs
      BY <2>1, <2>4 DEF Reply
    <3> QED BY <3>1, <3>2
  <2>6. ASSUME NEW q \in Folk \ cut
        PROVE  Tale(q, marks[q], here[q].session, here[q].online, family.member, Tail(toAC), gs)
    <3>1. CASE q # x.who
      <4>1. x \notin Asks(q) /\ a \notin Told(q, here[q].session)
        BY <1>1, <2>4, <3>1, Before, RequestKinds, AnswerKinds
      <4>2. Tale(q, marks[q], here[q].session, here[q].online, family.member, Tail(toAC), toGS)
        BY <1>1, <4>1, BeforeAndTaken DEF x
      <4> QED BY <4>1, <4>2, Before, StoryOfAnother
    <3>2. CASE q = x.who
      <4>1. Takes(q, toAC, x, Tail(toAC)) /\ SaysOne(q, here[q].session, toGS, a, gs)
        BY <1>1, Before, WhenTaken, WhenOneSaid DEF x
      <4>2. x.kind = "Login" /\ x.who = q /\ a.kind = "Login" /\ a.who = q /\ a.session = x.session /\ ~ a.ok
        BY <1>1, <2>4, <3>2
      <4>3. ~ In(family.member, q)
        BY <2>2, <3>2
      <4> HIDE DEF gs
      <4> QED BY <1>1, <4>1, <4>2, <4>3, Before, NotListedAnyMore
    <3> QED BY <3>1, <3>2
  <2> HIDE DEF gs
  <2> QED BY <1>1, <1>2, <1>4, <2>1, <2>5, <2>6, Served
<1>6. CASE Found
  <2>0. s \in Places /\ family.member[s].who = x.who
    BY <1>3, <1>6, ListedPlaces
  <2>1. family' = f /\ Reply(Notify(f, s, TRUE)) /\ family.used
    <3>1. f = [family EXCEPT !.member[s].online = TRUE, !.member[s].session = x.session, !.member[s].event = x.who \in Fit]
      BY <1>4, <2>0 DEF Families, Lists, Ranked
    <3> QED BY <1>6, <3>1 DEF ACFMCharLogin
  <2> HIDE DEF Found, x, s, slots
  <2>2. /\ new \in Ranked /\ new.online /\ new.session = x.session /\ new.who = x.who
        /\ new.flag = family.member[s].flag
    <3>1. family.member[s] \in Ranked /\ fit \in BOOLEAN
      BY <1>4, <2>0 DEF Lists
    <3> HIDE DEF fit
    <3> QED BY <1>3, <2>0, <3>1 DEF Ranked
  <2> HIDE DEF new
  <2>3. mem2 \in Lists /\ mem2[s] = new /\ \A t \in Places \ {s} : mem2[t] = family.member[t]
    BY <1>4, <2>0, <2>2 DEF Lists
  <2> HIDE DEF mem2
  <2>4. /\ f \in Families /\ f.member = mem2 /\ f.used = family.used /\ f.num = family.num
        /\ f.joined = family.joined /\ f.top = family.top
    BY <1>4, <2>3 DEF Families
  <2> HIDE DEF f
  <2>5. Seats(f) /\ Counts(f, slips)
    <3>1. ASSUME NEW t \in Places
          PROVE  /\ f.member[t].flag = family.member[t].flag /\ f.member[t].who = family.member[t].who
                 /\ f.member[t].online => f.member[t].who # NoOne
      <4>1. CASE t = s
        BY <1>3, <2>0, <2>2, <2>3, <2>4, <4>1
      <4>2. CASE t # s
        <5>1. f.member[t] = family.member[t]
          BY <2>3, <2>4, <4>2
        <5> QED BY <1>4, <5>1 DEF Seats
      <4> QED BY <4>1, <4>2
    <3>2. f.used /\ f.num = family.num /\ f.joined = family.joined + (slips - slips) /\ f.top >= family.top
      BY <1>4, <2>1, <2>4 DEF Families
    <3>3. SameRanks(family, slips, f, slips)
      BY <3>1, <3>2 DEF SameRanks
    <3> QED BY <1>4, <2>1, <2>4, <3>3, ListKept
  <2>6. PICK b \in Answers : /\ Notify(f, s, TRUE) = <<b>>
                             /\ b.kind = "Login" /\ b.who = x.who /\ b.session = x.session
                             /\ b.ok /\ b.flag = f.member[s].flag
    <3>1. f.member[s].online /\ f.member[s].who # NoOne /\ f.member[s].who = x.who /\ f.member[s].session = x.session
      BY <1>3, <2>2, <2>3, <2>4
    <3>2. PICK b \in Answers : /\ Notify(f, s, TRUE) = <<b>>
                               /\ b.kind = "Login" /\ b.who = f.member[s].who /\ b.session = f.member[s].session
                               /\ b.ok /\ b.flag = f.member[s].flag
      <4>1. f \in Families
        BY <2>4
      <4> QED BY <2>0, <3>1, <4>1, NotifyYes
    <3> QED BY <3>1, <3>2
  <2> DEFINE gs == toGS \o <<b>>
  <2>7. gs \in Seq(Answers) /\ toGS' = gs
    <3>1. gs \in Seq(Answers)
      BY <1>4, ConcatProperties
    <3>2. toGS' = gs
      BY <2>1, <2>6 DEF Reply
    <3> QED BY <3>1, <3>2
  <2>8. ASSUME NEW q \in Folk \ cut
        PROVE  Tale(q, marks[q], here[q].session, here[q].online, mem2, Tail(toAC), gs)
    <3>1. CASE q # x.who
      <4>1. x \notin Asks(q) /\ b \notin Told(q, here[q].session)
        BY <1>1, <2>6, <3>1, Before, RequestKinds, AnswerKinds
      <4>2. Tale(q, marks[q], here[q].session, here[q].online, family.member, Tail(toAC), toGS)
        BY <1>1, <4>1, BeforeAndTaken DEF x
      <4>3. \A t \in Places : family.member[t].who = q \/ mem2[t].who = q => mem2[t] = family.member[t]
        BY <2>0, <2>2, <2>3, <3>1
      <4>4. Tale(q, marks[q], here[q].session, here[q].online, mem2, Tail(toAC), toGS)
        BY <2>3, <4>2, <4>3, Before, OtherPlaces
      <4> QED BY <2>3, <4>1, <4>4, Before, StoryOfAnother
    <3>2. CASE q = x.who
      <4>1. Takes(q, toAC, x, Tail(toAC)) /\ SaysOne(q, here[q].session, toGS, b, gs)
        BY <1>1, Before, WhenTaken, WhenOneSaid DEF x
      <4>2. x.kind = "Login" /\ x.who = q /\ b.kind = "Login" /\ b.who = q /\ b.session = x.session /\ b.ok
            /\ family.member[s].who = q
        BY <1>1, <2>0, <2>6, <3>2
      <4>3. \A t \in Places : family.member[t].who = q => t = s
        BY <2>0, <3>2, Before DEF Tale, Alone
      <4>4. \A t \in Places : mem2[t].who = q <=> t = s
        BY <2>0, <2>2, <2>3, <3>2, <4>3
      <4>5. SitsAt(q, mem2, s, b.flag, x.session)
        BY <2>2, <2>3, <2>4, <2>6, <4>4 DEF SitsAt
      <4> HIDE DEF gs
      <4> QED BY <1>1, <2>0, <2>3, <4>1, <4>2, <4>5, Before, BackAgain
    <3> QED BY <3>1, <3>2
  <2> HIDE DEF gs
  <2> QED BY <1>1, <1>2, <1>4, <2>1, <2>4, <2>5, <2>7, <2>8, Served
<1> QED BY <1>5, <1>6

\* ACFMCharLogout: a member is not online any more.
LEMMA ACFMCharLogoutStep ==
    ASSUME IInv, ACFMCharLogout
    PROVE  IInv'
<1> DEFINE x == Head(toAC)
           slots == Listed(x.who, 0)
           s == Lowest(slots)
           new == [family.member[s] EXCEPT !.online = FALSE, !.session = 0]
           mem2 == [family.member EXCEPT ![s] = new]
           f == [family EXCEPT !.member = mem2]
           Found == family.used /\ slots # {}
<1>1. /\ toAC # <<>> /\ toAC \in Seq(Requests) /\ Tail(toAC) \in Seq(Requests) /\ toAC' = Tail(toAC)
      /\ x \in Requests /\ x.kind = "Logout" /\ Receive("Logout")
  BY Received DEF ACFMCharLogout, IInv
<1>2. UNCHANGED <<marks, here, toGS, cut, slips>>
  BY DEF ACFMCharLogout
<1>3. x.who \in Folk /\ x.who # NoOne
  BY <1>1, RequestFields DEF FamilyAssumption
<1>4. family \in Families /\ slips \in Int /\ Seats(family) /\ Counts(family, slips) /\ toGS \in Seq(Answers)
      /\ family.member \in Lists
  BY DEF IInv, TypeInv, ListInv, Families
<1>5. ASSUME NEW q \in Folk \ cut, q # x.who
      PROVE  Tale(q, marks[q], here[q].session, here[q].online, family.member, Tail(toAC), toGS)
  <2> HIDE DEF x
  <2>1. x \notin Asks(q)
    BY <1>1, <1>5, Before, RequestKinds
  <2> QED BY <1>1, <1>5, <2>1, BeforeAndTaken DEF x
<1>6. CASE ~ Found
  <2>1. UNCHANGED family
    BY <1>6 DEF ACFMCharLogout
  <2>2. ~ In(family.member, x.who)
    <3>1. CASE slots = {}
      BY <1>3, <3>1, ListedPlaces
    <3>2. CASE ~ family.used
      BY <1>3, <1>4, <3>2 DEF In, Seats
    <3> QED BY <1>6, <3>1, <3>2
  <2> HIDE DEF Found, x
  <2>3. ASSUME NEW q \in Folk \ cut
        PROVE  Tale(q, marks[q], here[q].session, here[q].online, family.member, Tail(toAC), toGS)
    <3>1. CASE q = x.who
      <4>1. Takes(q, toAC, x, Tail(toAC))
        BY <1>1, Before, WhenTaken DEF x
      <4>2. x.kind = "Logout" /\ x.who = q
        BY <1>1, <3>1
      <4>3. SignedOff(q, family.member, family.member)
        BY <2>2, <3>1 DEF SignedOff, In
      <4> QED BY <1>1, <4>1, <4>2, <4>3, Before, GoneAway
    <3> QED BY <1>5, <3>1
  <2> QED BY <1>1, <1>2, <1>4, <2>1, <2>3, Served
<1>7. CASE Found
  <2>0. s \in Places /\ family.member[s].who = x.who
    BY <1>3, <1>7, ListedPlaces
  <2>1. family' = f /\ family.used
    <3>1. f = [family EXCEPT !.member[s].online = FALSE, !.member[s].session = 0]
      BY <1>4, <2>0 DEF Families, Lists, Ranked
    <3> QED BY <1>7, <3>1 DEF ACFMCharLogout
  <2> HIDE DEF Found, x, s, slots
  <2>2. /\ new \in Ranked /\ ~ new.online /\ new.session = 0 /\ new.who = x.who
        /\ new.flag = family.member[s].flag
    <3>1. family.member[s] \in Ranked
      BY <1>4, <2>0 DEF Lists
    <3> QED BY <1>3, <2>0, <3>1 DEF Ranked
  <2> HIDE DEF new
  <2>3. mem2 \in Lists /\ mem2[s] = new /\ \A t \in Places \ {s} : mem2[t] = family.member[t]
    BY <1>4, <2>0, <2>2 DEF Lists
  <2> HIDE DEF mem2
  <2>4. /\ f \in Families /\ f.member = mem2 /\ f.used = family.used /\ f.num = family.num
        /\ f.joined = family.joined /\ f.top = family.top
    BY <1>4, <2>3 DEF Families
  <2> HIDE DEF f
  <2>5. Seats(f) /\ Counts(f, slips)
    <3>1. ASSUME NEW t \in Places
          PROVE  /\ f.member[t].flag = family.member[t].flag /\ f.member[t].who = family.member[t].who
                 /\ f.member[t].online => f.member[t].who # NoOne
      <4>1. CASE t = s
        BY <1>3, <2>0, <2>2, <2>3, <2>4, <4>1
      <4>2. CASE t # s
        <5>1. f.member[t] = family.member[t]
          BY <2>3, <2>4, <4>2
        <5> QED BY <1>4, <5>1 DEF Seats
      <4> QED BY <4>1, <4>2
    <3>2. f.used /\ f.num = family.num /\ f.joined = family.joined + (slips - slips) /\ f.top >= family.top
      BY <1>4, <2>1, <2>4 DEF Families
    <3>3. SameRanks(family, slips, f, slips)
      BY <3>1, <3>2 DEF SameRanks
    <3> QED BY <1>4, <2>1, <2>4, <3>3, ListKept
  <2>6. ASSUME NEW q \in Folk \ cut
        PROVE  Tale(q, marks[q], here[q].session, here[q].online, mem2, Tail(toAC), toGS)
    <3>1. CASE q # x.who
      <4>1. Tale(q, marks[q], here[q].session, here[q].online, family.member, Tail(toAC), toGS)
        BY <1>5, <3>1
      <4>2. \A t \in Places : family.member[t].who = q \/ mem2[t].who = q => mem2[t] = family.member[t]
        BY <2>0, <2>2, <2>3, <3>1
      <4> QED BY <2>3, <4>1, <4>2, Before, OtherPlaces
    <3>2. CASE q = x.who
      <4>1. Takes(q, toAC, x, Tail(toAC))
        BY <1>1, Before, WhenTaken DEF x
      <4>2. x.kind = "Logout" /\ x.who = q
        BY <1>1, <3>2
      <4>3. \A t \in Places : family.member[t].who = q => t = s
        BY <2>0, <3>2, Before DEF Tale, Alone
      <4>4. SignedOff(q, family.member, mem2)
        BY <2>0, <2>2, <2>3, <3>2, <4>3 DEF SignedOff
      <4> QED BY <1>1, <2>3, <4>1, <4>2, <4>4, Before, GoneAway
    <3> QED BY <3>1, <3>2
  <2> QED BY <1>1, <1>2, <1>4, <2>1, <2>4, <2>5, <2>6, Served
<1> QED BY <1>6, <1>7


----------------------------------------------------------------------------
\* The game server applies the next answer.

\* The answer that arrives is one of those under way.
LEMMA Heard ==
    ASSUME TypeInv, NEW kind, Arrives(kind)
    PROVE  /\ toGS # <<>> /\ toGS \in Seq(Answers) /\ Tail(toGS) \in Seq(Answers) /\ toGS' = Tail(toGS)
           /\ Head(toGS) \in Answers /\ Head(toGS).kind = kind /\ Head(toGS).who \in Folk
<1>1. /\ toGS # <<>> /\ toGS \in Seq(Answers) /\ Tail(toGS) \in Seq(Answers) /\ toGS' = Tail(toGS)
      /\ Head(toGS) \in Answers /\ Head(toGS).kind = kind
  BY HeadTailProperties DEF Arrives, TypeInv
<1> QED BY <1>1 DEF Answers

\* The story of q after an answer is taken, with the marks it has then.
Goes(q) == Tale(q, marks'[q], here'[q].session, here'[q].online, family.member, toAC, Tail(toGS))

\* If everybody's story goes on, the step is right.
LEMMA Applied ==
    ASSUME IInv, toGS' = Tail(toGS), Tail(toGS) \in Seq(Answers), UNCHANGED <<family, toAC, slips>>,
           marks' \in [Folk -> MarksOf], here' \in [Folk -> Presence], cut' \in SUBSET Folk,
           \A q \in Folk \ cut' : Goes(q)
    PROVE  IInv'
<1>1. TypeInv'
  BY DEF IInv, TypeInv
<1>2. ListInv'
  BY ListStays DEF IInv
<1>3. TaleInv'
  BY DEF TaleInv, TaleOf, Goes
<1> QED BY <1>1, <1>2, <1>3 DEF IInv

\* An answer that is nothing to q.
LEMMA NotHeard ==
    ASSUME IInv, NEW q \in Folk \ cut, toGS # <<>>, SameToFamily(q), Head(toGS) \notin Told(q, here[q].session)
    PROVE  Goes(q)
<1>1. Tale(q, marks[q], here[q].session, here[q].online, family.member, toAC, Tail(toGS))
  BY Before, ArriveOther
<1> QED BY <1>1, Before, SameStory DEF IInv, Goes

\* What the answers say that are told to q is of its session, or of an earlier one.
LEMMA ToldOfNow ==
    ASSUME IInv, NEW q \in Folk \ cut, toGS # <<>>, Head(toGS) \in Told(q, here[q].session)
    PROVE  Head(toGS).who = q /\ Head(toGS).session = here[q].session
<1> DEFINE x == Head(toGS)
           n == here[q].session
<1>1. n \in Nat /\ x \in Answers /\ toGS \in Seq(Answers)
  BY Before, HeadTailProperties
<1>2. ~ Some(toGS, LaterAns(q, n))
  BY Before DEF Tale, Past
<1>3. x \notin LaterAns(q, n)
  BY <1>1, <1>2, SomeTail
<1> HIDE DEF x, n
<1>4. x \in Verdict(q, n) \/ x \in Tell(q, n)
  BY <1>3 DEF Told, x, n
<1>5. x.who = q /\ x.session = n
  BY <1>1, <1>4, AnswerKinds
<1> QED BY <1>5 DEF x, n

\* An answer for a session that is over, or for a character that is not online, is dropped.
LEMMA StaleHeard ==
    ASSUME IInv, NEW q \in Folk \ cut, toGS # <<>>, SameToFamily(q), ~ Current(Head(toGS))
    PROVE  Goes(q)
<1>1. CASE Head(toGS) \notin Told(q, here[q].session)
  BY <1>1, NotHeard
<1>2. CASE Head(toGS) \in Told(q, here[q].session)
  <2>1. ~ here[q].online
    BY <1>2, ToldOfNow DEF Current
  <2> DEFINE m == marks[q]
             n == here[q].session
             on == here[q].online
             mem == family.member
             gs == Tail(toGS)
             x == Head(toGS)
  <2>2. m \in MarksOf /\ n \in Nat /\ mem \in Lists /\ Hears(q, n, toGS, x, gs)
    BY Before, WhenHeard
  <2>3. Tale(q, m, n, on, mem, toAC, toGS)
    BY Before
  <2>4. on = FALSE
    BY <2>1, Before
  <2> HIDE DEF m, n, on, mem, gs, x
  <2>5. Tale(q, m, n, FALSE, mem, toAC, toGS)
    BY <2>3, <2>4
  <2>6. Tale(q, m, n, FALSE, mem, toAC, gs)
    BY <2>2, <2>5, Dropped
  <2>7. Tale(q, marks[q], here[q].session, here[q].online, family.member, toAC, Tail(toGS))
    BY <2>4, <2>6 DEF m, n, on, mem, gs
  <2> QED BY <2>7, Before, SameStory DEF IInv, Goes
<1> QED BY <1>1, <1>2

\* The marks of a character that is of no family.
LEMMA Reset ==
    ASSUME NEW m \in MarksOf
    PROVE  SetFMVarInit(m) \in MarksOf /\ ~ SetFMVarInit(m).index /\ ~ SetFMVarInit(m).name
BY DEF SetFMVarInit, MarksOf, Flags

\* Who is not spoken to keeps its marks.
LEMMA KeepsMarks ==
    ASSUME TypeInv, NEW q \in Folk, marks'[q] = marks[q], here'[q].session = here[q].session,
           here'[q].online = here[q].online
    PROVE  SameToFamily(q)
BY Known DEF SameToFamily

\* Nobody but the marks of p change, to m, and perhaps whether p is barred.
Marked(p, m) ==
    /\ marks' = [marks EXCEPT ![p] = m]
    /\ here' \in [Folk -> Presence]
    /\ \A q \in Folk : here'[q].session = here[q].session /\ here'[q].online = here[q].online

\* An answer for q that nobody else heeds: the others' stories go on.
LEMMA OthersGoOn ==
    ASSUME IInv, NEW p \in Folk, NEW m \in MarksOf, Marked(p, m), toGS # <<>>, Head(toGS).who = p,
           NEW q \in Folk \ cut, q # p
    PROVE  Goes(q)
<1>1. SameToFamily(q)
  <2>1. marks'[q] = marks[q]
    BY DEF Marked, IInv, TypeInv
  <2> QED BY <2>1, KeepsMarks DEF Marked, IInv
<1>2. Head(toGS) \notin Told(q, here[q].session)
  BY ToldOfNow
<1> QED BY <1>1, <1>2, NotHeard

\* Nobody's marks change.
LEMMA AllKeepMarks ==
    ASSUME TypeInv, UNCHANGED marks, NEW q \in Folk, here'[q].session = here[q].session,
           here'[q].online = here[q].online
    PROVE  SameToFamily(q)
BY KeepsMarks

\* What p heard, of its session: the story of p before the step, and what was under way.
LEMMA OwnStory ==
    ASSUME IInv, NEW p \in Folk \ cut, toGS # <<>>, Head(toGS).who = p, Current(Head(toGS))
    PROVE  /\ Tale(p, marks[p], here[p].session, TRUE, family.member, toAC, toGS)
           /\ Hears(p, here[p].session, toGS, Head(toGS), Tail(toGS))
           /\ Head(toGS) \in Answers /\ Head(toGS).session = here[p].session
<1>1. here[p].online = TRUE
  BY Before DEF Current
<1>2. Head(toGS) \in Answers
  BY Before, HeadTailProperties
<1>3. Hears(p, here[p].session, toGS, Head(toGS), Tail(toGS))
  BY Before, WhenHeard
<1>4. Tale(p, marks[p], here[p].session, TRUE, family.member, toAC, toGS)
  BY <1>1, Before
<1> QED BY <1>2, <1>3, <1>4 DEF Current

\* Its story goes on with the marks it has after the step.
LEMMA OwnGoes ==
    ASSUME IInv, NEW p \in Folk \ cut, NEW m \in MarksOf, Marked(p, m), here[p].online,
           Tale(p, m, here[p].session, TRUE, family.member, toAC, Tail(toGS))
    PROVE  Goes(p)
<1>1. marks'[p] = m
  BY DEF Marked, IInv, TypeInv
<1>2. here'[p].session = here[p].session /\ here'[p].online = TRUE
  <2>1. here'[p].session = here[p].session /\ here'[p].online = here[p].online
    BY DEF Marked
  <2>2. here[p].online = TRUE
    BY Before
  <2> QED BY <2>1, <2>2
<1> QED BY <1>1, <1>2 DEF Goes

\* One character's marks are written over.
LEMMA MarkedStep ==
    ASSUME IInv, toGS # <<>>, toGS' = Tail(toGS), Tail(toGS) \in Seq(Answers), UNCHANGED <<family, toAC, slips>>,
           NEW p \in Folk, Head(toGS).who = p, NEW m \in MarksOf, Marked(p, m), cut' \in {cut, cut \cup {p}},
           p \notin cut' => Goes(p)
    PROVE  IInv'
<1>1. marks' \in [Folk -> MarksOf] /\ here' \in [Folk -> Presence] /\ cut' \in SUBSET Folk
  BY DEF Marked, IInv, TypeInv
<1>2. ASSUME NEW q \in Folk \ cut'
      PROVE  Goes(q)
  <2>1. CASE q = p
    BY <1>2, <2>1
  <2>2. CASE q # p
    BY <1>2, <2>2, OthersGoOn
  <2> QED BY <2>1, <2>2
<1> QED BY <1>1, <1>2, Applied

\* An answer is dropped: nobody's marks change.
LEMMA DroppedStep ==
    ASSUME IInv, toGS # <<>>, toGS' = Tail(toGS), Tail(toGS) \in Seq(Answers), UNCHANGED <<family, toAC, slips>>,
           UNCHANGED <<marks, here, cut>>, ~ Current(Head(toGS))
    PROVE  IInv'
<1>1. marks' \in [Folk -> MarksOf] /\ here' \in [Folk -> Presence] /\ cut' \in SUBSET Folk
  BY DEF IInv, TypeInv
<1>2. ASSUME NEW q \in Folk \ cut'
      PROVE  Goes(q)
  <2>1. SameToFamily(q)
    BY KeepsMarks DEF IInv
  <2> QED BY <2>1, StaleHeard
<1> QED BY <1>1, <1>2, Applied

\* An answer that nobody waits for changes nothing: or only in the marks that are not of the family.
LEMMA NothingTold ==
    ASSUME IInv, toGS # <<>>, toGS' = Tail(toGS), Tail(toGS) \in Seq(Answers), UNCHANGED <<family, toAC, slips>>,
           UNCHANGED <<here, cut>>, SameFlags(marks, marks'),
           \A q \in Folk \ cut : Head(toGS) \notin Told(q, here[q].session)
    PROVE  IInv'
<1>1. marks' \in [Folk -> MarksOf] /\ here' \in [Folk -> Presence] /\ cut' \in SUBSET Folk
  BY DEF IInv, TypeInv, SameFlags
<1>2. ASSUME NEW q \in Folk \ cut'
      PROVE  Goes(q)
  <2>1. SameToFamily(q)
    BY <1>1 DEF SameFlags, SameToFamily
  <2> QED BY <2>1, NotHeard
<1> QED BY <1>1, <1>2, Applied

\* A character in a battle does not hear: its story is not told any more.
LEMMA InBattleStep ==
    ASSUME IInv, toGS # <<>>, toGS' = Tail(toGS), Tail(toGS) \in Seq(Answers), UNCHANGED <<family, toAC, slips>>,
           UNCHANGED here, NEW p \in Folk, Head(toGS).who = p, InBattle(p)
    PROVE  IInv'
<1>1. marks' \in [Folk -> MarksOf] /\ here' \in [Folk -> Presence] /\ cut' = cut \cup {p} /\ UNCHANGED marks
  BY DEF IInv, TypeInv, InBattle
<1>2. ASSUME NEW q \in Folk \ cut'
      PROVE  Goes(q)
  <2>1. SameToFamily(q)
    BY <1>1, KeepsMarks DEF IInv
  <2>2. q # p /\ q \in Folk \ cut
    BY <1>1, <1>2
  <2>3. Head(toGS) \notin Told(q, here[q].session)
    BY <2>2, ToldOfNow
  <2> QED BY <2>1, <2>2, <2>3, NotHeard
<1>3. cut' \in SUBSET Folk
  BY <1>1 DEF IInv, TypeInv
<1> QED BY <1>1, <1>2, <1>3, Applied

\* ACAddFM: the founder is told.
LEMMA ACAddFMHeard ==
    ASSUME IInv, ACAddFM_recv
    PROVE  IInv'
<1> DEFINE x == Head(toGS)
           p == x.who
<1>1. /\ toGS # <<>> /\ toGS' = Tail(toGS) /\ Tail(toGS) \in Seq(Answers) /\ x \in Answers /\ x.kind = "Add"
      /\ p \in Folk
  BY Heard DEF ACAddFM_recv, IInv
<1>2. UNCHANGED <<family, here, toAC, slips>>
  BY DEF ACAddFM_recv
<1>3. marks[p] \in MarksOf /\ marks \in [Folk -> MarksOf] /\ here \in [Folk -> Presence]
  BY <1>1 DEF IInv, TypeInv
<1>4. CASE ~ Current(x)
  <2>1. UNCHANGED <<marks, here, cut>>
    BY <1>2, <1>4 DEF ACAddFM_recv
  <2> QED BY <1>1, <1>2, <1>4, <2>1, DroppedStep
<1>5. CASE Current(x) /\ InBattle(p)
  BY <1>1, <1>2, <1>5, InBattleStep
<1>6. CASE /\ Current(x) /\ x.ok
           /\ marks' = [marks EXCEPT ![p].index = TRUE] /\ UNCHANGED cut
  <2> DEFINE m == [marks[p] EXCEPT !.index = TRUE]
  <2>1. m \in MarksOf /\ m.index /\ m.name = marks[p].name /\ m.flag = marks[p].flag
    BY <1>3 DEF MarksOf
  <2>2. marks' = [marks EXCEPT ![p] = m]
    BY <1>6
  <2> HIDE DEF m, x, p
  <2>3. Marked(p, m)
    BY <1>2, <1>3, <2>2 DEF Marked
  <2>4. ASSUME p \notin cut
        PROVE  Goes(p)
    <3>1. p \in Folk \ cut /\ x.who = p /\ Head(toGS) = x
      BY <1>1, <2>4 DEF p, x
    <3>2. /\ Tale(p, marks[p], here[p].session, TRUE, family.member, toAC, toGS)
          /\ Hears(p, here[p].session, toGS, x, Tail(toGS)) /\ x.session = here[p].session
      BY <1>1, <1>6, <3>1, OwnStory
    <3>3. Tale(p, m, here[p].session, TRUE, family.member, toAC, Tail(toGS))
      BY <1>1, <1>3, <1>6, <2>1, <3>1, <3>2, Before, HearsFounded
    <3> QED BY <1>6, <2>1, <2>3, <3>1, <3>3, OwnGoes DEF Current
  <2> QED BY <1>1, <1>2, <1>6, <2>1, <2>3, <2>4, MarkedStep DEF x, p
<1>7. CASE /\ Current(x) /\ ~ x.ok
           /\ marks' = [marks EXCEPT ![p] = SetFMVarInit(@)]
           /\ cut' = IF marks[p].index \/ Overtaken(p) THEN cut \cup {p} ELSE cut
  <2> DEFINE m == SetFMVarInit(marks[p])
  <2>1. m \in MarksOf /\ ~ m.index /\ ~ m.name
    BY <1>3, Reset
  <2>2. marks' = [marks EXCEPT ![p] = m] /\ cut' \in {cut, cut \cup {p}}
    BY <1>7
  <2> HIDE DEF m, x, p
  <2>3. Marked(p, m)
    BY <1>2, <1>3, <2>2 DEF Marked
  <2>4. ASSUME p \notin cut'
        PROVE  Goes(p)
    <3>1. p \in Folk \ cut /\ x.who = p /\ Head(toGS) = x
      BY <1>1, <2>2, <2>4 DEF p, x
    <3>2. /\ Tale(p, marks[p], here[p].session, TRUE, family.member, toAC, toGS)
          /\ Hears(p, here[p].session, toGS, x, Tail(toGS)) /\ x.session = here[p].session
      BY <1>1, <1>7, <3>1, OwnStory
    <3>3. Tale(p, m, here[p].session, TRUE, family.member, toAC, Tail(toGS))
      BY <1>1, <1>3, <1>7, <2>1, <3>1, <3>2, Before, HearsRefused
    <3> QED BY <1>7, <2>1, <2>3, <3>1, <3>3, OwnGoes DEF Current
  <2> QED BY <1>1, <1>2, <2>1, <2>2, <2>3, <2>4, MarkedStep DEF x, p
<1> QED BY <1>4, <1>5, <1>6, <1>7 DEF ACAddFM_recv

\* ACJoinFM: the applicant is told.
LEMMA ACJoinFMHeard ==
    ASSUME IInv, ACJoinFM_recv
    PROVE  IInv'
<1> DEFINE x == Head(toGS)
           p == x.who
<1>1. /\ toGS # <<>> /\ toGS' = Tail(toGS) /\ Tail(toGS) \in Seq(Answers) /\ x \in Answers /\ x.kind = "Join"
      /\ p \in Folk
  BY Heard DEF ACJoinFM_recv, IInv
<1>2. UNCHANGED <<family, here, toAC, slips>>
  BY DEF ACJoinFM_recv
<1>3. marks[p] \in MarksOf /\ marks \in [Folk -> MarksOf] /\ here \in [Folk -> Presence]
  BY <1>1 DEF IInv, TypeInv
<1>4. CASE ~ Current(x)
  <2>1. UNCHANGED <<marks, here, cut>>
    BY <1>2, <1>4 DEF ACJoinFM_recv
  <2> QED BY <1>1, <1>2, <1>4, <2>1, DroppedStep
<1>5. CASE Current(x) /\ InBattle(p)
  BY <1>1, <1>2, <1>5, InBattleStep
<1>6. CASE Current(x) /\ x.ok /\ UNCHANGED <<marks, cut>>
  <2>1. ASSUME NEW q \in Folk \ cut
        PROVE  x \notin Told(q, here[q].session)
    <3>1. x.who = q => x.session <= here[q].session
      BY <1>6, Before DEF Current
    <3> HIDE DEF x
    <3> QED BY <1>1, <1>6, <3>1, Before, OtherAnswer
  <2>2. SameFlags(marks, marks')
    BY <1>3, <1>6 DEF SameFlags
  <2> QED BY <1>1, <1>2, <1>6, <2>1, <2>2, NothingTold
<1>7. CASE /\ Current(x) /\ ~ x.ok
           /\ marks' = [marks EXCEPT ![p] = SetFMVarInit(@)]
           /\ cut' = IF Overtaken(p) THEN cut \cup {p} ELSE cut
  <2> DEFINE m == SetFMVarInit(marks[p])
  <2>1. m \in MarksOf /\ ~ m.index /\ ~ m.name
    BY <1>3, Reset
  <2>2. marks' = [marks EXCEPT ![p] = m] /\ cut' \in {cut, cut \cup {p}}
    BY <1>7
  <2> HIDE DEF m, x, p
  <2>3. Marked(p, m)
    BY <1>2, <1>3, <2>2 DEF Marked
  <2>4. ASSUME p \notin cut'
        PROVE  Goes(p)
    <3>1. p \in Folk \ cut /\ x.who = p /\ Head(toGS) = x
      BY <1>1, <2>2, <2>4 DEF p, x
    <3>2. /\ Tale(p, marks[p], here[p].session, TRUE, family.member, toAC, toGS)
          /\ Hears(p, here[p].session, toGS, x, Tail(toGS)) /\ x.session = here[p].session
      BY <1>1, <1>7, <3>1, OwnStory
    <3>3. Tale(p, m, here[p].session, TRUE, family.member, toAC, Tail(toGS))
      BY <1>1, <1>3, <1>7, <2>1, <3>1, <3>2, Before, HearsRefused
    <3> QED BY <1>7, <2>1, <2>3, <3>1, <3>3, OwnGoes DEF Current
  <2> QED BY <1>1, <1>2, <2>1, <2>2, <2>3, <2>4, MarkedStep DEF x, p
<1> QED BY <1>4, <1>5, <1>6, <1>7 DEF ACJoinFM_recv

\* ACLeaveFM and ACDelFM: who left is told.
LEMMA LeftHeard ==
    ASSUME IInv, NEW kind \in {"Leave", "Del"}, NEW bars \in BOOLEAN, Left(kind, bars)
    PROVE  IInv'
<1> DEFINE x == Head(toGS)
           p == x.who
<1>1. /\ toGS # <<>> /\ toGS' = Tail(toGS) /\ Tail(toGS) \in Seq(Answers) /\ x \in Answers /\ x.kind = kind
      /\ p \in Folk
  BY Heard DEF Left, IInv
<1>2. UNCHANGED <<family, toAC, slips>>
  BY DEF Left
<1>3. marks[p] \in MarksOf /\ marks \in [Folk -> MarksOf] /\ here \in [Folk -> Presence]
  BY <1>1 DEF IInv, TypeInv
<1>4. ASSUME NEW q \in Folk \ cut
      PROVE  x \notin Told(q, here[q].session)
  <2> HIDE DEF x
  <2> QED BY <1>1, Before, OtherAnswer
<1>5. CASE ~ (Current(x) /\ x.ok)
  <2>1. UNCHANGED <<marks, here, cut>>
    BY <1>5 DEF Left
  <2>2. SameFlags(marks, marks')
    BY <1>3, <2>1 DEF SameFlags
  <2> QED BY <1>1, <1>2, <1>4, <2>1, <2>2, NothingTold
<1>6. CASE Current(x) /\ x.ok
  <2> DEFINE m == SetFMVarInit(marks[p])
             b == here[p].barred \/ bars
  <2>1. m \in MarksOf /\ ~ m.index /\ ~ m.name
    BY <1>3, Reset
  <2>2. marks' = [marks EXCEPT ![p] = m] /\ cut' = IF marks[p].name \/ Overtaken(p) THEN cut \cup {p} ELSE cut
    BY <1>6 DEF Left
  <2>3. here' = [here EXCEPT ![p].barred = b] /\ b \in BOOLEAN
    BY <1>6 DEF Left
  <2> HIDE DEF m, x, p, b
  <2>4. Marked(p, m)
    <3>1. here' \in [Folk -> Presence] /\ \A q \in Folk : here'[q].session = here[q].session /\ here'[q].online = here[q].online
      BY <1>3, <2>3 DEF Presence
    <3> QED BY <2>2, <3>1 DEF Marked
  <2>5. ASSUME p \notin cut'
        PROVE  Goes(p)
    <3>1. p \in Folk \ cut /\ x.who = p /\ Head(toGS) = x /\ ~ marks[p].name
      BY <1>1, <2>2, <2>5 DEF p, x
    <3>2. Tale(p, marks[p], here[p].session, here[p].online, family.member, toAC, Tail(toGS))
      BY <1>1, <1>4, <3>1, Before, ArriveOther
    <3>3. here[p].online = TRUE
      BY <1>6, <3>1, Before DEF Current
    <3>4. Tale(p, marks[p], here[p].session, TRUE, family.member, toAC, Tail(toGS))
      BY <3>2, <3>3
    <3>5. Tale(p, m, here[p].session, TRUE, family.member, toAC, Tail(toGS))
      BY <1>3, <2>1, <3>1, <3>4, Before, ClearedAgain
    <3> QED BY <2>1, <2>4, <3>1, <3>3, <3>5, OwnGoes
  <2>6. cut' \in {cut, cut \cup {p}}
    BY <2>2
  <2> QED BY <1>1, <1>2, <2>1, <2>4, <2>5, <2>6, MarkedStep DEF x, p
<1> QED BY <1>5, <1>6

\* ACFMCharLogin: a member is told its rank, or that it is no member any more.
LEMMA ACFMCharLoginHeard ==
    ASSUME IInv, ACFMCharLogin_recv
    PROVE  IInv'
<1> DEFINE x == Head(toGS)
           p == x.who
<1>1. /\ toGS # <<>> /\ toGS' = Tail(toGS) /\ Tail(toGS) \in Seq(Answers) /\ x \in Answers /\ x.kind = "Login"
      /\ p \in Folk
  BY Heard DEF ACFMCharLogin_recv, IInv
<1>2. UNCHANGED <<family, toAC, slips, cut>>
  BY DEF ACFMCharLogin_recv
<1>3. marks[p] \in MarksOf /\ marks \in [Folk -> MarksOf] /\ here \in [Folk -> Presence]
  BY <1>1 DEF IInv, TypeInv
<1>4. CASE ~ Current(x)
  <2>1. UNCHANGED <<marks, here, cut>>
    BY <1>2, <1>4 DEF ACFMCharLogin_recv
  <2> QED BY <1>1, <1>2, <1>4, <2>1, DroppedStep
<1>5. CASE Current(x) /\ x.ok
  <2> DEFINE m == [marks[p] EXCEPT !.slot = x.slot, !.flag = x.flag]
  <2>1. m \in MarksOf /\ m.index = marks[p].index /\ m.name = marks[p].name /\ m.flag = x.flag
    <3>1. x.slot \in Places \cup {-1} /\ x.flag \in Flags
      BY <1>1 DEF Answers
    <3> QED BY <1>3, <3>1 DEF MarksOf
  <2>2. marks' = [marks EXCEPT ![p] = m] /\ UNCHANGED here
    BY <1>5 DEF ACFMCharLogin_recv
  <2> HIDE DEF m, x, p
  <2>3. Marked(p, m)
    BY <1>3, <2>2 DEF Marked
  <2>4. ASSUME p \notin cut
        PROVE  Goes(p)
    <3>1. p \in Folk \ cut /\ x.who = p /\ Head(toGS) = x
      BY <1>1, <2>4 DEF p, x
    <3>2. /\ Tale(p, marks[p], here[p].session, TRUE, family.member, toAC, toGS)
          /\ Hears(p, here[p].session, toGS, x, Tail(toGS)) /\ x.session = here[p].session
      BY <1>1, <1>5, <3>1, OwnStory
    <3>3. Tale(p, m, here[p].session, TRUE, family.member, toAC, Tail(toGS))
      BY <1>1, <1>3, <1>5, <2>1, <3>1, <3>2, Before, HearsRank
    <3> QED BY <1>5, <2>1, <2>3, <3>1, <3>3, OwnGoes DEF Current
  <2> QED BY <1>1, <1>2, <2>1, <2>3, <2>4, MarkedStep DEF x, p
<1>6. CASE Current(x) /\ ~ x.ok
  <2> DEFINE m == SetFMVarInit(marks[p])
  <2>1. m \in MarksOf /\ ~ m.index /\ ~ m.name
    BY <1>3, Reset
  <2>2. marks' = [marks EXCEPT ![p] = m] /\ here' = [here EXCEPT ![p].barred = TRUE]
    BY <1>6 DEF ACFMCharLogin_recv
  <2> HIDE DEF m, x, p
  <2>3. Marked(p, m)
    <3>1. here' \in [Folk -> Presence] /\ \A q \in Folk : here'[q].session = here[q].session /\ here'[q].online = here[q].online
      BY <1>3, <2>2 DEF Presence
    <3> QED BY <2>2, <3>1 DEF Marked
  <2>4. ASSUME p \notin cut
        PROVE  Goes(p)
    <3>1. p \in Folk \ cut /\ x.who = p /\ Head(toGS) = x
      BY <1>1, <2>4 DEF p, x
    <3>2. /\ Tale(p, marks[p], here[p].session, TRUE, family.member, toAC, toGS)
          /\ Hears(p, here[p].session, toGS, x, Tail(toGS)) /\ x.session = here[p].session
      BY <1>1, <1>6, <3>1, OwnStory
    <3>3. Tale(p, m, here[p].session, TRUE, family.member, toAC, Tail(toGS))
      BY <1>1, <1>3, <1>6, <2>1, <3>1, <3>2, Before, HearsStruckOff
    <3> QED BY <1>6, <2>1, <2>3, <3>1, <3>3, OwnGoes DEF Current
  <2> QED BY <1>1, <1>2, <2>1, <2>3, <2>4, MarkedStep DEF x, p
<1> QED BY <1>4, <1>5, <1>6

\* ACFixFMData: the leader's change is over.
LEMMA ACFixFMDataHeard ==
    ASSUME IInv, ACFixFMData_recv
    PROVE  IInv'
<1> DEFINE x == Head(toGS)
           q == x.who
           p == marks[q].change
<1>1. /\ toGS # <<>> /\ toGS' = Tail(toGS) /\ Tail(toGS) \in Seq(Answers) /\ x \in Answers /\ x.kind = "Fix"
      /\ q \in Folk
  BY Heard DEF ACFixFMData_recv, IInv
<1>2. UNCHANGED <<family, here, toAC, slips, cut>>
  BY DEF ACFixFMData_recv
<1>3. marks \in [Folk -> MarksOf] /\ p \in Folk \cup {NoOne}
  BY <1>1 DEF IInv, TypeInv, MarksOf
<1>4. ASSUME NEW r \in Folk \ cut
      PROVE  x \notin Told(r, here[r].session)
  <2> HIDE DEF x
  <2> QED BY <1>1, Before, OtherAnswer
<1>5. SameFlags(marks, marks')
  <2>1. CASE marks' = marks
    BY <1>3, <2>1 DEF SameFlags
  <2>2. CASE p \in Folk /\ marks' = [marks EXCEPT ![q].change = NoOne, ![p].change = NoOne]
    <3>1. marks' = Change(Change(marks, q, NoOne), p, NoOne)
      BY <2>2 DEF Change
    <3>2. SameFlags(marks, Change(Change(marks, q, NoOne), p, NoOne))
      BY <1>1, <1>3, <2>2, OnlyTwoChange
    <3> QED BY <3>1, <3>2
  <2>3. CASE marks' = [marks EXCEPT ![q].change = NoOne]
    <3>1. marks' = Change(marks, q, NoOne)
      BY <2>3 DEF Change
    <3>2. SameFlags(marks, Change(marks, q, NoOne))
      BY <1>1, <1>3, OnlyChange
    <3> QED BY <3>1, <3>2
  <2> QED BY <1>3, <2>1, <2>2, <2>3 DEF ACFixFMData_recv
<1> QED BY <1>1, <1>2, <1>4, <1>5, NothingTold

----------------------------------------------------------------------------
\* The invariant holds at the start, and every step keeps it.

\* Nobody is of a family, and nothing is under way.
LEMMA InitIInv == FamilyInit => IInv
<1> SUFFICES ASSUME NEW start \in Starts, FamilyStart(start)
             PROVE  IInv
  BY DEF FamilyInit
<1>1. start \in [Folk -> 0..MaxSessions] /\ MaxSessions \in Nat
  BY DEF FamilyAssumption
<1>2. /\ family = NoFamily /\ marks = [p \in Folk |-> NoMarks] /\ toAC = <<>> /\ toGS = <<>> /\ slips = 0 /\ cut = {}
      /\ here = [p \in Folk |-> [online |-> start[p] > 0, barred |-> FALSE,
                                session |-> IF start[p] > 0 THEN start[p] ELSE MaxSessions]]
  BY DEF FamilyStart
<1>3. NoMarks \in MarksOf /\ ~ NoMarks.index /\ ~ NoMarks.name
  BY DEF NoMarks, MarksOf, Flags
<1>4. here \in [Folk -> Presence]
  <2>1. ASSUME NEW p \in Folk
        PROVE  [online |-> start[p] > 0, barred |-> FALSE, session |-> IF start[p] > 0 THEN start[p] ELSE MaxSessions] \in Presence
    <3>1. start[p] \in Nat /\ (start[p] > 0) \in BOOLEAN
      BY <1>1
    <3> QED BY <1>1, <3>1 DEF Presence
  <2> QED BY <1>2, <2>1
<1>5. toAC \in Seq(Requests) /\ toGS \in Seq(Answers)
  BY <1>2
<1>6. TypeInv
  BY <1>2, <1>3, <1>4, <1>5, NoFamilyIsRight DEF TypeInv
<1>7. ListInv
  BY <1>2, NoFamilyIsRight DEF ListInv
<1>8. ASSUME NEW p \in Folk
      PROVE  TaleOf(p)
  <2> DEFINE m == marks[p]
             n == here[p].session
             on == here[p].online
             mem == family.member
  <2>1. m \in MarksOf /\ n \in Nat /\ on \in BOOLEAN /\ mem \in Lists
    BY <1>6, Known
  <2>2. ~ m.index /\ ~ m.name
    BY <1>2, <1>3
  <2>3. ~ In(mem, p)
    BY <1>2, NoFamilyIsRight DEF In, Seats
  <2> HIDE DEF m, n, on, mem
  <2>4. \A M : ~ Some(toAC, M) /\ ~ Some(toGS, M)
    BY <1>2 DEF Some
  <2>5. Past(p, n, mem, toAC, toGS)
    BY <2>3, <2>4 DEF Past, In
  <2>6. Tale(p, m, n, on, mem, toAC, toGS)
    BY <2>1, <2>2, <2>3, <2>4, <2>5, FreeIsFine
  <2> QED BY <2>6 DEF TaleOf, m, n, on, mem
<1> QED BY <1>6, <1>7, <1>8 DEF IInv, TaleInv

\* What no step changes keeps the invariant.
LEMMA StutterStep ==
    ASSUME IInv, UNCHANGED familyVars
    PROVE  IInv'
<1>1. UNCHANGED <<family, marks, here, toAC, toGS, slips, cut>>
  BY DEF familyVars
<1>2. TypeInv' /\ ListInv'
  BY <1>1, ListStays DEF IInv, TypeInv
<1>3. TaleInv'
  BY <1>1 DEF IInv, TaleInv, TaleOf
<1> QED BY <1>2, <1>3 DEF IInv

\* Every step keeps the list right and everybody's story going on.
LEMMA NextIInv == IInv /\ [FamilyNext]_familyVars => IInv'
<1> SUFFICES ASSUME IInv, [FamilyNext]_familyVars
             PROVE  IInv'
  OBVIOUS
<1>1. CASE UNCHANGED familyVars
  BY <1>1, StutterStep
<1>2. ASSUME NEW p \in Folk,
             \/ FAMILY_Add(p) \/ FAMILY_Join(p) \/ FAMILY_Leave(p)
             \/ \E s \in Places, result \in {"MEMBER", "ELDER", "NONE"} : FAMILY_CheckMember(p, s, result)
             \/ \E v \in BOOLEAN : FAMILY_SetAcceptFlag(p, v)
             \/ \E q \in Folk : LeaderOffers(p, q)
             \/ \E yes \in BOOLEAN : LeaderAnswers(p, yes)
             \/ CHAR_login(p) \/ CHAR_logout(p) \/ TimeLimitEnds(p)
      PROVE  IInv'
  BY <1>2, AddStep, JoinStep, LeaveStep, CheckMemberStep, AcceptFlagStep, OfferStep, AnswerStep, LoginStep,
     LogoutStep, TimeLimitStep
<1>3. CASE \/ ACAddFM \/ ACJoinFM \/ ACLeaveFM \/ ACDelFM \/ ACMemberJoinFM \/ ACMemberLeaveFM
           \/ ACFixFMLeader \/ ACFixFMAccept \/ ACFMCharLogin \/ ACFMCharLogout
  BY <1>3, ACAddFMStep, ACJoinFMStep, ACLeaveFMStep, ACDelFMStep, ACMemberJoinFMStep, ACMemberLeaveFMStep,
     ACFixFMLeaderStep, ACFixFMAcceptStep, ACFMCharLoginStep, ACFMCharLogoutStep
<1>4. CASE \/ ACAddFM_recv \/ ACJoinFM_recv \/ ACLeaveFM_recv \/ ACDelFM_recv
           \/ ACFMCharLogin_recv \/ ACFixFMData_recv
  <2>1. CASE ACLeaveFM_recv \/ ACDelFM_recv
    BY <2>1, LeftHeard DEF ACLeaveFM_recv, ACDelFM_recv
  <2> QED BY <1>4, <2>1, ACAddFMHeard, ACJoinFMHeard, ACFMCharLoginHeard, ACFixFMDataHeard
<1> QED BY <1>1, <1>2, <1>3, <1>4 DEF FamilyNext

\* The list agrees with itself and with its counts; who is listed twice missed an answer.
LEMMA IInvAgree == IInv => ListAndCountsAgree
<1> SUFFICES ASSUME IInv, family.used
             PROVE  /\ Member(0).flag = "LEADER" /\ Member(0).who # NoOne
                    /\ \A s \in Places \ {0} : Member(s).flag # "LEADER"
                    /\ Count(family.member, {"ELDER"}) <= ElderMax
                    /\ \A s \in Places : Member(s).flag = "NONE" <=> Member(s).who = NoOne
                    /\ \A s, t \in Places : s # t /\ Member(s).who = Member(t).who => Member(s).who \in cut \cup {NoOne}
                    /\ family.num = Count(family.member, Flags \ {"NONE"})
                    /\ family.joined = Count(family.member, Joined) + slips
  BY DEF ListAndCountsAgree
<1>1. Seats(family) /\ Counts(family, slips) /\ family.member \in Lists
  BY DEF IInv, ListInv, TypeInv, Families
<1>2. 0 \in Places
  BY PlacesFacts
<1>3. Member(0).flag = "LEADER" /\ Member(0).who # NoOne
  BY <1>1, <1>2 DEF Seats, Counts, Member
<1>4. ASSUME NEW s \in Places, NEW t \in Places, s # t, Member(s).who = Member(t).who
      PROVE  Member(s).who \in cut \cup {NoOne}
  <2>1. SUFFICES ASSUME Member(s).who \in Folk \ cut
                 PROVE  FALSE
    BY <1>1 DEF Member, Lists, Ranked
  <2>2. Alone(Member(s).who, family.member)
    BY <2>1, Before DEF Tale
  <2> QED BY <1>4, <2>2 DEF Alone, Member
<1> QED BY <1>1, <1>3, <1>4 DEF Seats, Counts, Member

\* Who waits for nothing has no message of its own under way.
LEMMA NothingUnderWay ==
    ASSUME TypeInv, NEW p \in Folk, ~ Awaits(p), NEW n, n = here[p].session
    PROVE  /\ ~ Some(toAC, Ask(p)) /\ ~ Some(toAC, AddReq(p)) /\ ~ Some(toAC, LoginReq(p, n))
           /\ ~ Some(toGS, Founded(p, n)) /\ ~ Some(toGS, Refusal(p, n)) /\ ~ Some(toGS, Tell(p, n))
           /\ ~ Some(toGS, Clear(p, n))
<1>1. ASSUME NEW i \in DOMAIN toAC
      PROVE  ~ (toAC[i].who = p /\ toAC[i].kind \in {"Add", "Join", "Leave", "Del", "Login"})
  BY DEF Awaits
<1>2. ASSUME NEW i \in DOMAIN toGS
      PROVE  ~ (toGS[i].who = p /\ toGS[i].session = n)
  BY DEF Awaits
<1>3. ~ Some(toAC, Ask(p)) /\ ~ Some(toAC, AddReq(p))
  BY <1>1 DEF Some, Ask, AddReq
<1>4. ~ Some(toAC, LoginReq(p, n))
  BY <1>1 DEF Some, LoginReq
<1>5. ~ Some(toGS, Founded(p, n)) /\ ~ Some(toGS, Refusal(p, n))
  BY <1>2 DEF Some, Founded, Refusal, Ans
<1>6. ~ Some(toGS, Tell(p, n)) /\ ~ Some(toGS, Clear(p, n))
  BY <1>2 DEF Some, Tell, Clear, Ans
<1> QED BY <1>3, <1>4, <1>5, <1>6

\* Who waits for nothing carries the rank that the list shows, or none.
LEMMA IInvFollow == IInv => MarksFollowTheList
<1> SUFFICES ASSUME IInv, NEW p \in Folk \ cut, here[p].online, ~ Awaits(p)
             PROVE  IF \E s \in Places : Member(s).who = p
                    THEN InFamily(p) /\ \E s \in Places : Member(s).who = p /\ Member(s).flag = marks[p].flag
                    ELSE ~ InFamily(p)
  BY DEF MarksFollowTheList
<1> DEFINE m == marks[p]
           n == here[p].session
           mem == family.member
<1>1. Tale(p, m, n, TRUE, mem, toAC, toGS)
  <2>1. here[p].online = TRUE
    BY Before
  <2> QED BY <2>1, Before
<1>2. /\ ~ Some(toAC, Ask(p)) /\ ~ Some(toAC, AddReq(p)) /\ ~ Some(toAC, LoginReq(p, n))
      /\ ~ Some(toGS, Founded(p, n)) /\ ~ Some(toGS, Refusal(p, n)) /\ ~ Some(toGS, Tell(p, n))
      /\ ~ Some(toGS, Clear(p, n))
  BY NothingUnderWay DEF IInv
<1>3. FreeTale(p, m, n, mem, toAC, toGS) /\ OnlineTale(p, m, n, mem, toAC, toGS)
  BY <1>1 DEF Tale
<1>4. InFamily(p) <=> m.index /\ m.name
  BY DEF InFamily
<1>5. ASSUME NEW s \in Places, mem[s].who = p
      PROVE  m.index /\ m.name /\ mem[s].flag = m.flag
  <2>1. In(mem, p)
    BY <1>5 DEF In
  <2> HIDE DEF m, n, mem
  <2>2. m.name
    BY <1>3, <2>1 DEF FreeTale
  <2>3. m.index
    BY <1>2, <1>3, <2>2 DEF OnlineTale
  <2>4. LastIs(toGS, Tell(p, n), m.flag, mem[s].flag)
    BY <1>2, <1>3, <1>5 DEF OnlineTale
  <2>5. mem[s].flag = m.flag
    BY <1>2, <2>4 DEF LastIs, Some
  <2> QED BY <2>2, <2>3, <2>5
<1>6. ASSUME ~ In(mem, p)
      PROVE  ~ m.name
  <2> HIDE DEF m, n, mem
  <2> QED BY <1>2, <1>3, <1>6 DEF OnlineTale
<1>7. In(mem, p) <=> \E s \in Places : Member(s).who = p
  BY DEF In, Member
<1>8. CASE \E s \in Places : Member(s).who = p
  <2>1. PICK s \in Places : mem[s].who = p
    BY <1>8 DEF Member
  <2>2. Member(s).who = p /\ Member(s).flag = marks[p].flag
    BY <1>5, <2>1 DEF Member
  <2> QED BY <1>4, <1>5, <1>8, <2>1, <2>2
<1>9. CASE ~ \E s \in Places : Member(s).who = p
  BY <1>4, <1>6, <1>7, <1>9
<1> QED BY <1>8, <1>9

\* The inductive invariant of the families.
THEOREM Inductive == FamilySpec => []IInv
  BY InitIInv, NextIInv, PTL DEF FamilySpec

\* Family, marks, sessions and messages keep their types, for every number of
\* characters, places, elders and logins.
THEOREM FamilyTypes == FamilySpec => []TypeInv
<1>1. IInv => TypeInv
  BY DEF IInv
<1> QED BY <1>1, Inductive, PTL

\* The leader, and nobody else, leads, from the first place; there are no more
\* elders than allowed; nobody is listed twice but who missed an answer; and the
\* two counts are those of the list, but for the applicants that were counted
\* wrong - in whatever order requests and answers pass each other.
THEOREM ListAgrees == FamilySpec => []ListAndCountsAgree
  BY Inductive, IInvAgree, PTL

\* A character that is online and has every answer it waited for carries the
\* rank that the account server's list shows, or none if it is not listed; but
\* for those that missed an answer, in a battle or because a later request
\* overtook it.
THEOREM MarksFollow == FamilySpec => []MarksFollowTheList
  BY Inductive, IInvFollow, PTL

----------------------------------------------------------------------------
(* The gold of a family.  Sums first: the order in which a set is summed up *)
(* makes no difference.                                                     *)

HIDE FamilyAssumption

\* g is the sum of f over each part of S.
Sums(g, f, S) == /\ g \in [SUBSET S -> Int] /\ g[{}] = 0
                 /\ \A s \in SUBSET S : \A x \in s : g[s] = f[x] + g[s \ {x}]

\* One more is added to all sums.
LEMMA SumsGrow ==
    ASSUME NEW s, NEW f, NEW a \in s, f[a] \in Int, NEW h, Sums(h, f, s \ {a}), \A x \in s : f[x] \in Int
    PROVE  \E g : Sums(g, f, s)
<1> DEFINE g == [t \in SUBSET s |-> IF a \in t THEN f[a] + h[t \ {a}] ELSE h[t]]
<1>1. \A t \in SUBSET s : t \ {a} \in SUBSET (s \ {a}) /\ h[t \ {a}] \in Int /\ (a \notin t => h[t] \in Int)
  BY DEF Sums
<1>2. g \in [SUBSET s -> Int]
  <2>1. \A t \in SUBSET s : (IF a \in t THEN f[a] + h[t \ {a}] ELSE h[t]) \in Int
    <3> TAKE t \in SUBSET s
    <3>1. CASE a \in t
      <4>1. f[a] \in Int /\ h[t \ {a}] \in Int
        BY <1>1
      <4>2. f[a] + h[t \ {a}] \in Int
        BY <4>1
      <4> QED BY <3>1, <4>2
    <3>2. CASE a \notin t
      BY <1>1, <3>2
    <3> QED BY <3>1, <3>2
  <2> QED BY <2>1
<1>3. g[{}] = 0
  BY DEF Sums
<1>4. ASSUME NEW t \in SUBSET s, NEW x \in t
      PROVE  g[t] = f[x] + g[t \ {x}]
  <2>1. t \ {x} \in SUBSET s /\ f[x] \in Int /\ f[a] \in Int
    OBVIOUS
  <2>2. CASE a \notin t
    <3>1. t \in SUBSET (s \ {a}) /\ a \notin t \ {x}
      BY <2>2
    <3>2. h[t] = f[x] + h[t \ {x}]
      BY <3>1 DEF Sums
    <3>3. g[t] = h[t] /\ g[t \ {x}] = h[t \ {x}]
      BY <2>1, <3>1, <2>2
    <3> QED BY <3>2, <3>3
  <2>3. CASE a \in t /\ x = a
    <3>1. g[t] = f[a] + h[t \ {a}] /\ g[t \ {x}] = h[t \ {x}]
      BY <2>1, <2>3
    <3> QED BY <2>3, <3>1
  <2>4. CASE a \in t /\ x # a
    <3> DEFINE u == t \ {a}
    <3>1. u \in SUBSET (s \ {a}) /\ x \in u /\ u \ {x} = (t \ {x}) \ {a} /\ a \in t \ {x}
      BY <2>4
    <3>2. h[u] = f[x] + h[u \ {x}] /\ h[u \ {x}] \in Int
      <4> HIDE DEF u
      <4> QED BY <3>1 DEF Sums
    <3>3. g[t] = f[a] + h[u] /\ g[t \ {x}] = f[a] + h[(t \ {x}) \ {a}]
      BY <2>1, <2>4, <3>1
    <3> HIDE DEF u, g
    <3>4. f[a] + (f[x] + h[u \ {x}]) = f[x] + (f[a] + h[u \ {x}])
      BY <2>1, <3>2
    <3> QED BY <3>1, <3>2, <3>3, <3>4
  <2> QED BY <2>2, <2>3, <2>4
<1> HIDE DEF g
<1>5. Sums(g, f, s)
  BY <1>2, <1>3, <1>4 DEF Sums
<1> QED BY <1>5

\* Whatever is finite can be summed up.
LEMMA SumsExist ==
    ASSUME NEW S, IsFiniteSet(S), NEW f, \A x \in S : f[x] \in Int
    PROVE  \E g : Sums(g, f, S)
<1> DEFINE T == {n \in Nat : \E s \in SUBSET S : Cardinality(s) = n /\ ~ \E g : Sums(g, f, s)}
<1>0. \A s \in SUBSET S : IsFiniteSet(s) /\ Cardinality(s) \in Nat
  BY FS_Subset, FS_CardinalityType
<1>1. SUFFICES ASSUME T # {} PROVE FALSE
  BY <1>0
<1>2. PICK n \in T : \A j \in T : n <= j
  <2>1. T \in SUBSET Nat
    OBVIOUS
  <2> HIDE DEF T
  <2> QED BY <1>1, <2>1, FirstOfMany
<1>3. PICK s \in SUBSET S : Cardinality(s) = n /\ ~ \E g : Sums(g, f, s)
  BY <1>2
<1>4. CASE s = {}
  <2> DEFINE g == [t \in SUBSET {} |-> 0]
  <2>1. g \in [SUBSET {} -> Int] /\ g[{}] = 0 /\ \A t \in SUBSET {} : t = {}
    OBVIOUS
  <2> HIDE DEF g
  <2>2. Sums(g, f, {})
    BY <2>1 DEF Sums
  <2> QED BY <2>2, <1>3, <1>4
<1>5. CASE s # {}
  <2>1. PICK a \in s : TRUE
    BY <1>5
  <2>2. s \ {a} \in SUBSET S /\ Cardinality(s \ {a}) = n - 1 /\ n - 1 \in Nat
    <3>1. IsFiniteSet(s) /\ Cardinality(s \ {a}) = Cardinality(s) - 1 /\ Cardinality(s \ {a}) \in Nat
      BY <1>0, <2>1, FS_RemoveElement
    <3> QED BY <3>1, <1>3
  <2>3. n - 1 \notin T
    <3>1. n - 1 \in Nat /\ n \in Nat /\ ~ (n <= n - 1)
      BY <1>2, <2>2
    <3> HIDE DEF T
    <3> QED BY <1>2, <3>1
  <2>4. PICK h : Sums(h, f, s \ {a})
    BY <2>2, <2>3
  <2>5. \A x \in s : f[x] \in Int
    BY <1>3
  <2>6. \E g : Sums(g, f, s)
    BY <2>1, <2>4, <2>5, SumsGrow
  <2> QED BY <1>3, <2>6
<1> QED BY <1>4, <1>5

\* SumOf is the sum, in whatever order it takes the elements.
LEMMA SumIs ==
    ASSUME NEW S, IsFiniteSet(S), NEW f, NEW g, Sums(g, f, S)
    PROVE  SumOf(f, S) = g[S]
<1> DEFINE c(s) == CHOOSE x \in s : TRUE
           G(h) == [s \in SUBSET S |-> IF s = {} THEN 0 ELSE f[c(s)] + h[s \ {c(s)}]]
           C == CHOOSE h : h = G(h)
<1>1. SumOf(f, S) = C[S]
  BY DEF SumOf, FoldSet, MapThenFoldSet
<1>2. g = G(g)
  <2>1. g \in [SUBSET S -> Int] /\ g[{}] = 0
        /\ \A s \in SUBSET S : \A x \in s : g[s] = f[x] + g[s \ {x}]
    BY DEF Sums
  <2>2. \A s \in SUBSET S : s # {} => c(s) \in s
    OBVIOUS
  <2> HIDE DEF c
  <2>3. \A s \in SUBSET S : g[s] = IF s = {} THEN 0 ELSE f[c(s)] + g[s \ {c(s)}]
    BY <2>1, <2>2
  <2> QED BY <2>1, <2>3
<1>3. C = G(C)
  <2> HIDE DEF G
  <2>1. \E h : h = G(h)
    BY <1>2
  <2> QED BY <2>1, Zenon
<1>4. \A s \in SUBSET S : C[s] = IF s = {} THEN 0 ELSE f[c(s)] + C[s \ {c(s)}]
  <2> HIDE DEF C, c
  <2> QED BY <1>3
<1>5. \A s \in SUBSET S : g[s] = IF s = {} THEN 0 ELSE f[c(s)] + g[s \ {c(s)}]
  <2> HIDE DEF c
  <2> QED BY <1>2
<1>6. \A s \in SUBSET S : s # {} => c(s) \in s
  OBVIOUS
<1> HIDE DEF C, G, c
<1> DEFINE T == {n \in Nat : \E s \in SUBSET S : Cardinality(s) = n /\ C[s] # g[s]}
<1>7. \A s \in SUBSET S : IsFiniteSet(s) /\ Cardinality(s) \in Nat
  BY FS_Subset, FS_CardinalityType
<1>8. T = {}
  <2>1. SUFFICES ASSUME T # {} PROVE FALSE
    OBVIOUS
  <2>2. PICK n \in T : \A j \in T : n <= j
    <3>1. T \in SUBSET Nat
      OBVIOUS
    <3> HIDE DEF T
    <3> QED BY <2>1, <3>1, FirstOfMany
  <2>3. PICK s \in SUBSET S : Cardinality(s) = n /\ C[s] # g[s]
    BY <2>2
  <2>4. s # {}
    BY <1>4, <1>5, <2>3
  <2>5. c(s) \in s
    BY <1>6, <2>4
  <2>6. s \ {c(s)} \in SUBSET S /\ Cardinality(s \ {c(s)}) = n - 1 /\ n - 1 \in Nat
    <3>1. IsFiniteSet(s) /\ Cardinality(s \ {c(s)}) = Cardinality(s) - 1 /\ Cardinality(s \ {c(s)}) \in Nat
      BY <1>7, <2>5, FS_RemoveElement
    <3> QED BY <3>1, <2>3
  <2>7. n - 1 \notin T
    <3>1. n - 1 \in Nat /\ n \in Nat /\ ~ (n <= n - 1)
      BY <2>2, <2>6
    <3> HIDE DEF T
    <3> QED BY <2>2, <3>1
  <2>8. C[s \ {c(s)}] = g[s \ {c(s)}]
    BY <2>6, <2>7
  <2> QED BY <1>4, <1>5, <2>3, <2>4, <2>8
<1>9. C[S] = g[S]
  BY <1>7, <1>8
<1> QED BY <1>1, <1>9

\* What a sum is: nothing of nothing, and one more with each element.
LEMMA SumsUp ==
    ASSUME NEW S, IsFiniteSet(S), NEW f, \A x \in S : f[x] \in Int
    PROVE  /\ SumOf(f, S) \in Int /\ (S = {} => SumOf(f, S) = 0)
           /\ \A x \in S : SumOf(f, S) = f[x] + SumOf(f, S \ {x})
<1>1. PICK g : Sums(g, f, S)
  BY SumsExist
<1>2. \A T \in SUBSET S : g[T] \in Int
  BY <1>1 DEF Sums
<1>3. ASSUME NEW T \in SUBSET S PROVE SumOf(f, T) = g[T]
  <2> DEFINE h == [t \in SUBSET T |-> g[t]]
  <2>1. h \in [SUBSET T -> Int] /\ h[{}] = 0
    BY <1>1 DEF Sums
  <2>2. ASSUME NEW s \in SUBSET T, NEW x \in s PROVE h[s] = f[x] + h[s \ {x}]
    <3>1. s \in SUBSET S /\ s \ {x} \in SUBSET T /\ s \ {x} \in SUBSET S
      OBVIOUS
    <3>2. g[s] = f[x] + g[s \ {x}]
      BY <3>1, <1>1 DEF Sums
    <3> QED BY <3>1, <3>2
  <2> HIDE DEF h
  <2>3. Sums(h, f, T)
    BY <2>1, <2>2 DEF Sums
  <2>4. IsFiniteSet(T)
    BY FS_Subset
  <2>5. SumOf(f, T) = h[T]
    BY <2>3, <2>4, SumIs
  <2> QED BY <2>5 DEF h
<1>4. SumOf(f, S) = g[S] /\ g[S] \in Int
  BY <1>2, <1>3
<1>5. S = {} => g[S] = 0
  BY <1>1 DEF Sums
<1>6. ASSUME NEW x \in S PROVE g[S] = f[x] + SumOf(f, S \ {x})
  <2>1. S \ {x} \in SUBSET S
    OBVIOUS
  <2>2. SumOf(f, S \ {x}) = g[S \ {x}]
    BY <2>1, <1>3
  <2>3. S \in SUBSET S /\ g[S] = f[x] + g[S \ {x}]
    BY <1>1 DEF Sums
  <2> QED BY <2>2, <2>3
<1> QED BY <1>4, <1>5, <1>6

\* Only the values count.
LEMMA SumSame ==
    ASSUME NEW S, IsFiniteSet(S), NEW f, NEW h, \A x \in S : f[x] \in Int /\ h[x] = f[x]
    PROVE  SumOf(h, S) = SumOf(f, S)
<1>1. PICK g : Sums(g, f, S)
  BY SumsExist
<1>2. Sums(g, h, S)
  <2>1. ASSUME NEW s \in SUBSET S, NEW x \in s PROVE g[s] = h[x] + g[s \ {x}]
    <3>1. x \in S /\ h[x] = f[x] /\ g[s] = f[x] + g[s \ {x}]
      BY <1>1 DEF Sums
    <3> QED BY <3>1
  <2>2. g \in [SUBSET S -> Int] /\ g[{}] = 0
    BY <1>1 DEF Sums
  <2> QED BY <2>1, <2>2 DEF Sums
<1>3. SumOf(f, S) = g[S] /\ SumOf(h, S) = g[S]
  BY <1>1, <1>2, SumIs
<1> QED BY <1>3

\* When one value changes the sum changes by as much.
LEMMA SumChange ==
    ASSUME NEW S, IsFiniteSet(S), NEW m \in S, NEW f, NEW h,
           \A x \in S : f[x] \in Int /\ h[x] \in Int /\ (x # m => h[x] = f[x])
    PROVE  SumOf(h, S) = SumOf(f, S) + (h[m] - f[m]) /\ SumOf(f, S) \in Int
<1> DEFINE R == S \ {m}
<1>1. IsFiniteSet(R) /\ \A x \in R : f[x] \in Int /\ h[x] = f[x]
  BY FS_RemoveElement
<1>2. SumOf(h, R) = SumOf(f, R) /\ SumOf(f, R) \in Int
  <2> HIDE DEF R
  <2>1. SumOf(h, R) = SumOf(f, R)
    BY <1>1, SumSame
  <2>2. SumOf(f, R) \in Int
    BY <1>1, SumsUp
  <2> QED BY <2>1, <2>2
<1>3. SumOf(f, S) = f[m] + SumOf(f, R) /\ SumOf(f, S) \in Int
  BY SumsUp
<1>4. SumOf(h, S) = h[m] + SumOf(h, R)
  BY SumsUp
<1>5. f[m] \in Int /\ h[m] \in Int
  OBVIOUS
<1> HIDE DEF R
<1> QED BY <1>2, <1>3, <1>4, <1>5

----------------------------------------------------------------------------
(* Sums over streams. *)

SumTo(f, n) == SumOf(f, 1..n)

\* A sum of numbers in a row.
LEMMA SumToFacts ==
    ASSUME NEW n \in Nat, NEW f, \A i \in 1..n : f[i] \in Int
    PROVE  /\ SumTo(f, n) \in Int /\ (n = 0 => SumTo(f, n) = 0)
           /\ n # 0 => SumTo(f, n) = f[n] + SumTo(f, n - 1)
<1> DEFINE S == 1..n
<1>1. IsFiniteSet(S)
  <2> DEFINE a == 1
  <2>1. a \in Int /\ n \in Int
    OBVIOUS
  <2> HIDE DEF a
  <2>2. IsFiniteSet(a..n)
    BY <2>1, FS_Interval
  <2> QED BY <2>2 DEF a
<1>2. /\ SumOf(f, S) \in Int /\ (S = {} => SumOf(f, S) = 0)
      /\ \A x \in S : SumOf(f, S) = f[x] + SumOf(f, S \ {x})
  <2>1. \A i \in S : f[i] \in Int
    OBVIOUS
  <2> HIDE DEF S
  <2> QED BY <1>1, <2>1, SumsUp
<1>3. n = 0 => S = {}
  OBVIOUS
<1>4. n # 0 => n \in S /\ S \ {n} = 1..(n - 1)
  OBVIOUS
<1> QED BY <1>2, <1>3, <1>4 DEF SumTo

\* A sum of numbers in a row depends on these only.
LEMMA SumToSame ==
    ASSUME NEW n \in Nat, NEW f, NEW h, \A i \in 1..n : f[i] \in Int /\ h[i] = f[i]
    PROVE  SumTo(h, n) = SumTo(f, n)
<1> DEFINE S == 1..n
<1>1. IsFiniteSet(S)
  <2> DEFINE a == 1
  <2>1. a \in Int /\ n \in Int
    OBVIOUS
  <2> HIDE DEF a
  <2>2. IsFiniteSet(a..n)
    BY <2>1, FS_Interval
  <2> QED BY <2>2 DEF a
<1>2. \A i \in S : f[i] \in Int /\ h[i] = f[i]
  OBVIOUS
<1>3. SumOf(h, S) = SumOf(f, S)
  <2> HIDE DEF S
  <2> QED BY <1>1, <1>2, SumSame
<1> QED BY <1>3 DEF SumTo

\* Without the first number a sum is less by that.
LEMMA SumToTail ==
    ASSUME NEW n \in Nat, NEW f, NEW h, \A i \in 1..(n + 1) : f[i] \in Int, \A i \in 1..n : h[i] = f[i + 1]
    PROVE  SumTo(f, n + 1) = f[1] + SumTo(h, n)
<1> DEFINE T == {k \in 0..n : SumTo(f, k + 1) # f[1] + SumTo(h, k)}
<1>1. SUFFICES ASSUME T # {} PROVE FALSE
  OBVIOUS
<1>2. PICK k \in T : \A j \in T : k <= j
  <2>1. T \in SUBSET Nat
    OBVIOUS
  <2> HIDE DEF T
  <2> QED BY <1>1, <2>1, FirstOfMany
<1>3. k \in 0..n /\ k \in Nat /\ SumTo(f, k + 1) # f[1] + SumTo(h, k)
  BY <1>2
<1> DEFINE m == k + 1
<1>4. m \in Nat /\ m # 0 /\ m - 1 = k /\ (\A i \in 1..m : f[i] \in Int) /\ (\A i \in 1..k : f[i] \in Int)
      /\ (\A i \in 1..k : h[i] \in Int) /\ f[1] \in Int /\ f[m] \in Int
  BY <1>3
<1>5. SumTo(f, m) = f[m] + SumTo(f, k) /\ SumTo(f, k) \in Int
  <2> HIDE DEF m
  <2>1. SumTo(f, m) = f[m] + SumTo(f, m - 1)
    BY <1>4, SumToFacts
  <2>2. SumTo(f, k) \in Int
    BY <1>3, <1>4, SumToFacts
  <2> QED BY <1>4, <2>1, <2>2
<1>6. CASE k = 0
  <2>1. SumTo(f, k) = 0 /\ SumTo(h, k) = 0
    BY <1>3, <1>4, <1>6, SumToFacts
  <2> QED BY <1>3, <1>4, <1>5, <1>6, <2>1
<1>7. CASE k # 0
  <2> DEFINE j == k - 1
  <2>1. j \in Nat /\ j \in 0..n /\ j + 1 = k /\ ~ (k <= j)
    BY <1>3, <1>7
  <2>2. SumTo(f, k) = f[1] + SumTo(h, j)
    <3>1. j \notin T
      <4> HIDE DEF T, j
      <4> QED BY <1>2, <2>1
    <3> HIDE DEF j
    <3>2. SumTo(f, j + 1) = f[1] + SumTo(h, j)
      BY <2>1, <3>1
    <3> QED BY <2>1, <3>2
  <2>3. SumTo(h, k) = h[k] + SumTo(h, j)
    BY <1>3, <1>4, <1>7, SumToFacts
  <2>4. SumTo(h, j) \in Int
    <3>1. \A i \in 1..j : h[i] \in Int
      BY <1>4, <2>1
    <3> HIDE DEF j
    <3> QED BY <2>1, <3>1, SumToFacts
  <2>5. h[k] = f[m] /\ h[k] \in Int
    BY <1>3, <1>4, <1>7
  <2> HIDE DEF j
  <2>6. SumTo(f, m) = f[1] + SumTo(h, k)
    <3> HIDE DEF m
    <3> QED BY <1>4, <1>5, <2>2, <2>3, <2>4, <2>5
  <2> QED BY <1>3, <2>6
<1> QED BY <1>6, <1>7

\* What an order takes along and what an answer will pay.
Worth(o) == Max({o.amount, 0})
Owed(r) == IF r.kind = "Ask" \/ r.ok = (r.amount > 0) THEN 0
           ELSE IF r.amount > 0 THEN r.amount ELSE -r.amount

Sent(q) == SumOf([i \in DOMAIN q |-> Worth(q[i])], DOMAIN q)
Due(q)  == SumOf([i \in DOMAIN q |-> Owed(q[i])], DOMAIN q)

GoldOrders == [by : Savers, kind : {"Gold"}, amount : Int] \cup [by : Savers, kind : {"Ask"}, amount : {0}]
GoldReceipts == [by : Savers, kind : {"Gold"}, amount : Int, ok : BOOLEAN, fund : Nat]
                \cup [by : Savers, kind : {"Ask"}, amount : {0}, ok : BOOLEAN, fund : Nat]

\* The greater of a number and 0, and the lesser of two numbers.
LEMMA MaxMin ==
    ASSUME NEW a \in Int, NEW b \in Int
    PROVE  Max({a, 0}) = (IF a > 0 THEN a ELSE 0) /\ Min({a, b}) = (IF a <= b THEN a ELSE b)
<1> DEFINE M == Max({a, 0})
           m == Min({a, b})
<1>1. M \in {a, 0} /\ \A y \in {a, 0} : M >= y
  <2>1. \E x \in {a, 0} : \A y \in {a, 0} : x >= y
    <3>1. CASE a >= 0
      BY <3>1
    <3>2. CASE ~ (a >= 0)
      BY <3>2
    <3> QED BY <3>1, <3>2
  <2> QED BY <2>1, Zenon DEF Max
<1>2. m \in {a, b} /\ \A y \in {a, b} : m <= y
  <2>1. \E x \in {a, b} : \A y \in {a, b} : x <= y
    <3>1. CASE a <= b
      BY <3>1
    <3>2. CASE ~ (a <= b)
      BY <3>2
    <3> QED BY <3>1, <3>2
  <2> QED BY <2>1, Zenon DEF Min
<1> HIDE DEF M, m
<1>3. M = IF a > 0 THEN a ELSE 0
  BY <1>1
<1>4. m = IF a <= b THEN a ELSE b
  BY <1>2
<1> QED BY <1>3, <1>4 DEF M, m

\* Worth and Owed are numbers.
LEMMA WorthOwed ==
    /\ \A o \in GoldOrders : Worth(o) = (IF o.amount > 0 THEN o.amount ELSE 0) /\ Worth(o) \in Nat /\ o.amount \in Int
    /\ \A r \in GoldReceipts : Owed(r) \in Nat /\ r.amount \in Int
<1>1. ASSUME NEW o \in GoldOrders
      PROVE  Worth(o) = (IF o.amount > 0 THEN o.amount ELSE 0) /\ Worth(o) \in Nat /\ o.amount \in Int
  <2>1. o.amount \in Int
    BY DEF GoldOrders
  <2>2. Worth(o) = (IF o.amount > 0 THEN o.amount ELSE 0)
    BY <2>1, MaxMin DEF Worth
  <2> QED BY <2>1, <2>2
<1>2. ASSUME NEW r \in GoldReceipts
      PROVE  Owed(r) \in Nat /\ r.amount \in Int
  <2>1. r.amount \in Int
    BY DEF GoldReceipts
  <2> QED BY <2>1 DEF Owed
<1> QED BY <1>1, <1>2

\* The sum over a stream of what each of its messages is worth.
Along(v, q) == SumOf([i \in DOMAIN q |-> v[q[i]]], DOMAIN q)

\* It is a sum of numbers in a row.
LEMMA AlongIs ==
    ASSUME NEW Q, NEW q \in Seq(Q), NEW v \in [Q -> Int]
    PROVE  /\ Len(q) \in Nat /\ Along(v, q) = SumTo([i \in DOMAIN q |-> v[q[i]]], Len(q))
           /\ \A i \in 1..Len(q) : [j \in DOMAIN q |-> v[q[j]]][i] = v[q[i]] /\ v[q[i]] \in Int
           /\ Along(v, q) \in Int
<1> DEFINE f == [i \in DOMAIN q |-> v[q[i]]]
           n == Len(q)
<1>1. n \in Nat /\ DOMAIN q = 1..n /\ \A i \in 1..n : q[i] \in Q
  BY LenProperties, ElementOfSeq
<1>2. Along(v, q) = SumTo(f, n)
  BY <1>1 DEF Along, SumTo
<1>3. \A i \in 1..n : f[i] = v[q[i]] /\ v[q[i]] \in Int
  BY <1>1
<1>4. SumTo(f, n) \in Int
  <2> HIDE DEF f, n
  <2>1. \A i \in 1..n : f[i] \in Int
    BY <1>3
  <2> QED BY <1>1, <2>1, SumToFacts
<1> QED BY <1>1, <1>2, <1>3, <1>4

\* What is written at the end of a stream adds to its sum.
LEMMA AlongAppend ==
    ASSUME NEW Q, NEW q \in Seq(Q), NEW v \in [Q -> Int], NEW x \in Q
    PROVE  Along(v, Append(q, x)) = Along(v, q) + v[x] /\ Along(v, q) \in Int
<1> DEFINE z == Append(q, x)
           f == [i \in DOMAIN q |-> v[q[i]]]
           h == [i \in DOMAIN z |-> v[z[i]]]
           n == Len(q)
           m == n + 1
<1>1. z \in Seq(Q) /\ Len(z) = m /\ (\A i \in 1..n : z[i] = q[i]) /\ z[m] = x
  BY AppendProperties
<1>2. n \in Nat /\ Along(v, q) = SumTo(f, n) /\ (\A i \in 1..n : f[i] = v[q[i]] /\ v[q[i]] \in Int)
      /\ Along(v, q) \in Int
  BY AlongIs
<1>3. Along(v, z) = SumTo(h, m) /\ \A i \in 1..m : h[i] = v[z[i]] /\ v[z[i]] \in Int
  <2>1. Along(v, z) = SumTo(h, Len(z)) /\ \A i \in 1..Len(z) : h[i] = v[z[i]] /\ v[z[i]] \in Int
    <3> HIDE DEF z
    <3> QED BY <1>1, AlongIs
  <2> HIDE DEF z, h
  <2> QED BY <1>1, <2>1
<1> HIDE DEF z, f, h, n
<1>4. m \in Nat /\ m # 0 /\ m - 1 = n /\ m \in 1..m /\ \A i \in 1..n : i \in 1..m
  BY <1>2
<1>5. SumTo(h, m) = h[m] + SumTo(h, n)
  <2> HIDE DEF m
  <2>1. \A i \in 1..m : h[i] \in Int
    BY <1>3
  <2> QED BY <2>1, <1>4, SumToFacts
<1>6. SumTo(h, n) = SumTo(f, n)
  <2>1. \A i \in 1..n : f[i] \in Int /\ h[i] = f[i]
    BY <1>1, <1>2, <1>3, <1>4
  <2> QED BY <2>1, <1>2, SumToSame
<1>7. h[m] = v[x] /\ v[x] \in Int
  BY <1>1, <1>3, <1>4
<1> QED BY <1>2, <1>3, <1>5, <1>6, <1>7 DEF z

\* What is taken from the front of a stream is missing in its sum.
LEMMA AlongTail ==
    ASSUME NEW Q, NEW q \in Seq(Q), NEW v \in [Q -> Int], q # <<>>
    PROVE  Along(v, q) = v[Head(q)] + Along(v, Tail(q)) /\ Along(v, Tail(q)) \in Int /\ Head(q) \in Q
<1> DEFINE z == Tail(q)
           f == [i \in DOMAIN q |-> v[q[i]]]
           h == [i \in DOMAIN z |-> v[z[i]]]
           n == Len(z)
           m == n + 1
<1>1. z \in Seq(Q) /\ Len(q) = m /\ (\A i \in 1..n : z[i] = q[i + 1]) /\ Head(q) = q[1] /\ q[1] \in Q
  BY HeadTailProperties, ElementOfSeq, EmptySeq, LenProperties
<1>2. n \in Nat /\ Along(v, z) = SumTo(h, n) /\ (\A i \in 1..n : h[i] = v[z[i]] /\ v[z[i]] \in Int)
      /\ Along(v, z) \in Int
  <2> HIDE DEF z
  <2> QED BY <1>1, AlongIs
<1>3. Along(v, q) = SumTo(f, m) /\ \A i \in 1..m : f[i] = v[q[i]] /\ v[q[i]] \in Int
  <2>1. Along(v, q) = SumTo(f, Len(q)) /\ \A i \in 1..Len(q) : f[i] = v[q[i]] /\ v[q[i]] \in Int
    BY AlongIs
  <2> HIDE DEF z, f
  <2> QED BY <1>1, <2>1
<1> HIDE DEF z, f, h, n
<1>4. \A i \in 1..n : i + 1 \in 1..m
  BY <1>2
<1>5. 1 \in 1..m
  BY <1>2
<1>6. SumTo(f, m) = f[1] + SumTo(h, n)
  <2>1. \A i \in 1..(n + 1) : f[i] \in Int
    BY <1>3
  <2>2. \A i \in 1..n : h[i] = f[i + 1]
    BY <1>1, <1>2, <1>3, <1>4
  <2> QED BY <1>2, <2>1, <2>2, SumToTail
<1>7. f[1] = v[Head(q)]
  BY <1>1, <1>3, <1>5
<1> QED BY <1>1, <1>2, <1>3, <1>6, <1>7 DEF z

Worths == [o \in GoldOrders |-> Worth(o)]
Owings == [r \in GoldReceipts |-> Owed(r)]

\* The two sums that are under way.
LEMMA SentIs ==
    ASSUME NEW q \in Seq(GoldOrders)
    PROVE  Sent(q) = Along(Worths, q) /\ Sent(q) \in Int
<1>1. \A i \in DOMAIN q : q[i] \in GoldOrders
  BY ElementOfSeq, LenProperties
<1>2. [i \in DOMAIN q |-> Worth(q[i])] = [i \in DOMAIN q |-> Worths[q[i]]]
  BY <1>1 DEF Worths
<1>3. Worths \in [GoldOrders -> Int]
  BY WorthOwed DEF Worths
<1>4. Along(Worths, q) \in Int
  BY <1>3, AlongIs
<1> QED BY <1>2, <1>4 DEF Sent, Along

\* The same for the answers.
LEMMA DueIs ==
    ASSUME NEW q \in Seq(GoldReceipts)
    PROVE  Due(q) = Along(Owings, q) /\ Due(q) \in Int
<1>1. \A i \in DOMAIN q : q[i] \in GoldReceipts
  BY ElementOfSeq, LenProperties
<1>2. [i \in DOMAIN q |-> Owed(q[i])] = [i \in DOMAIN q |-> Owings[q[i]]]
  BY <1>1 DEF Owings
<1>3. Owings \in [GoldReceipts -> Int]
  BY WorthOwed DEF Owings
<1>4. Along(Owings, q) \in Int
  BY <1>3, AlongIs
<1> QED BY <1>2, <1>4 DEF Due, Along

\* Orders come and go.
LEMMA SentChanges ==
    ASSUME NEW q \in Seq(GoldOrders)
    PROVE  /\ \A o \in GoldOrders : Append(q, o) \in Seq(GoldOrders) /\ Sent(Append(q, o)) = Sent(q) + Worth(o)
           /\ q # <<>> => /\ Head(q) \in GoldOrders /\ Tail(q) \in Seq(GoldOrders)
                          /\ Sent(q) = Worth(Head(q)) + Sent(Tail(q))
<1>1. Worths \in [GoldOrders -> Int] /\ \A o \in GoldOrders : Worths[o] = Worth(o)
  BY WorthOwed DEF Worths
<1>2. ASSUME NEW o \in GoldOrders
      PROVE  Append(q, o) \in Seq(GoldOrders) /\ Sent(Append(q, o)) = Sent(q) + Worth(o)
  <2> DEFINE z == Append(q, o)
  <2>1. z \in Seq(GoldOrders)
    BY AppendProperties
  <2>2. Along(Worths, z) = Along(Worths, q) + Worths[o]
    BY <1>1, AlongAppend
  <2>3. Sent(z) = Along(Worths, z)
    <3> HIDE DEF z
    <3> QED BY <2>1, SentIs
  <2> QED BY <1>1, <2>1, <2>2, <2>3, SentIs
<1>3. ASSUME q # <<>>
      PROVE  Head(q) \in GoldOrders /\ Tail(q) \in Seq(GoldOrders) /\ Sent(q) = Worth(Head(q)) + Sent(Tail(q))
  <2> DEFINE z == Tail(q)
  <2>1. z \in Seq(GoldOrders)
    BY <1>3, HeadTailProperties
  <2>2. Along(Worths, q) = Worths[Head(q)] + Along(Worths, z) /\ Head(q) \in GoldOrders
    BY <1>1, <1>3, AlongTail
  <2>3. Sent(z) = Along(Worths, z)
    <3> HIDE DEF z
    <3> QED BY <2>1, SentIs
  <2> QED BY <1>1, <2>1, <2>2, <2>3, SentIs
<1> QED BY <1>2, <1>3

\* Answers come and go.
LEMMA DueChanges ==
    ASSUME NEW q \in Seq(GoldReceipts)
    PROVE  /\ \A r \in GoldReceipts : Append(q, r) \in Seq(GoldReceipts) /\ Due(Append(q, r)) = Due(q) + Owed(r)
           /\ q # <<>> => /\ Head(q) \in GoldReceipts /\ Tail(q) \in Seq(GoldReceipts)
                          /\ Due(q) = Owed(Head(q)) + Due(Tail(q))
<1>1. Owings \in [GoldReceipts -> Int] /\ \A r \in GoldReceipts : Owings[r] = Owed(r)
  BY WorthOwed DEF Owings
<1>2. ASSUME NEW r \in GoldReceipts
      PROVE  Append(q, r) \in Seq(GoldReceipts) /\ Due(Append(q, r)) = Due(q) + Owed(r)
  <2> DEFINE z == Append(q, r)
  <2>1. z \in Seq(GoldReceipts)
    BY AppendProperties
  <2>2. Along(Owings, z) = Along(Owings, q) + Owings[r]
    BY <1>1, AlongAppend
  <2>3. Due(z) = Along(Owings, z)
    <3> HIDE DEF z
    <3> QED BY <2>1, DueIs
  <2> QED BY <1>1, <2>1, <2>2, <2>3, DueIs
<1>3. ASSUME q # <<>>
      PROVE  Head(q) \in GoldReceipts /\ Tail(q) \in Seq(GoldReceipts) /\ Due(q) = Owed(Head(q)) + Due(Tail(q))
  <2> DEFINE z == Tail(q)
  <2>1. z \in Seq(GoldReceipts)
    BY <1>3, HeadTailProperties
  <2>2. Along(Owings, q) = Owings[Head(q)] + Along(Owings, z) /\ Head(q) \in GoldReceipts
    BY <1>1, <1>3, AlongTail
  <2>3. Due(z) = Along(Owings, z)
    <3> HIDE DEF z
    <3> QED BY <2>1, DueIs
  <2> QED BY <1>1, <2>1, <2>2, <2>3, DueIs
<1> QED BY <1>2, <1>3

----------------------------------------------------------------------------
(* The steps of the bank. *)

BankInv ==
    /\ purse \in [Savers -> Nat] /\ account \in [Savers -> Nat]
    /\ fund \in Nat /\ tax \in Nat /\ present \in SUBSET Savers
    /\ orders \in Seq(GoldOrders) /\ receipts \in Seq(GoldReceipts)

\* What GoldNeverMade says of a step.
GoldStep ==
    /\ Total' <= Total
    /\ fund' >= 0 /\ \A m \in Savers : purse'[m] >= 0 /\ account'[m] >= 0
    /\ Total' < Total => (receipts' # receipts /\ orders' # orders /\ Spills)
                         \/ (receipts' = Tail(receipts) /\ Undelivered)

\* All the gold, part by part.
LEMMA Parts ==
    ASSUME BankInv
    PROVE  /\ Total = SumOf(purse, Savers) + SumOf(account, Savers) + fund + (Sent(orders) + Due(receipts))
           /\ Total' = SumOf(purse', Savers) + SumOf(account', Savers) + fund' + (Sent(orders') + Due(receipts'))
           /\ SumOf(purse, Savers) \in Int /\ SumOf(account, Savers) \in Int /\ fund \in Int
           /\ Sent(orders) \in Int /\ Due(receipts) \in Int
<1>1. UnderWay = Sent(orders) + Due(receipts) /\ UnderWay' = Sent(orders') + Due(receipts')
  BY DEF UnderWay, Sent, Due, Worth, Owed
<1>2. SumOf(purse, Savers) \in Int /\ SumOf(account, Savers) \in Int
  <2>1. (\A m \in Savers : purse[m] \in Int) /\ (\A m \in Savers : account[m] \in Int) /\ IsFiniteSet(Savers)
    BY BankAssumption DEF BankInv
  <2> QED BY <2>1, SumsUp
<1>3. Sent(orders) \in Int /\ Due(receipts) \in Int
  BY SentIs, DueIs DEF BankInv
<1> QED BY <1>1, <1>2, <1>3 DEF Total, BankInv

\* A purse or an account changes by n.
LEMMA Moves ==
    ASSUME NEW p \in [Savers -> Nat], NEW m \in Savers, NEW n \in Int, p[m] + n \in Nat
    PROVE  /\ [p EXCEPT ![m] = p[m] + n] \in [Savers -> Nat]
           /\ SumOf([p EXCEPT ![m] = p[m] + n], Savers) = SumOf(p, Savers) + n
<1> DEFINE h == [p EXCEPT ![m] = p[m] + n]
<1>1. h \in [Savers -> Nat] /\ h[m] = p[m] + n /\ \A x \in Savers : x # m => h[x] = p[x]
  OBVIOUS
<1> HIDE DEF h
<1>2. \A x \in Savers : p[x] \in Int /\ h[x] \in Int /\ (x # m => h[x] = p[x])
  BY <1>1
<1>3. SumOf(h, Savers) = SumOf(p, Savers) + (h[m] - p[m]) /\ SumOf(p, Savers) \in Int
  BY <1>2, SumChange, BankAssumption
<1>4. h[m] - p[m] = n
  BY <1>1
<1> QED BY <1>1, <1>3, <1>4 DEF h

\* A step that leaves everybody what is his.
LEMMA Kept ==
    ASSUME BankInv, BankInv', Total' = Total
    PROVE  GoldStep
<1>1. Total \in Int
  BY Parts
<1>2. fund' >= 0 /\ \A m \in Savers : purse'[m] >= 0 /\ account'[m] >= 0
  BY DEF BankInv
<1> QED BY <1>1, <1>2 DEF GoldStep

\* From the purse into the account, or back.
LEMMA BankStep ==
    ASSUME BankInv, NEW m \in Savers, NEW a \in Int, Bank(m, a)
    PROVE  BankInv' /\ GoldStep
<1> DEFINE b == -a
<1>1. b \in Int /\ purse[m] + b \in Nat /\ account[m] + a \in Nat
      /\ purse' = [purse EXCEPT ![m] = purse[m] + b] /\ account' = [account EXCEPT ![m] = account[m] + a]
      /\ purse \in [Savers -> Nat] /\ account \in [Savers -> Nat]
      /\ fund' = fund /\ tax' = tax /\ present' = present /\ orders' = orders /\ receipts' = receipts
  <2>1. purse \in [Savers -> Nat] /\ account \in [Savers -> Nat] /\ purse[m] \in Nat /\ account[m] \in Nat
        /\ purse[m] - a \in Nat /\ account[m] + a \in Nat
    BY BankAssumption DEF BankInv, Bank
  <2>2. purse[m] - a = purse[m] + b /\ b \in Int
    BY <2>1
  <2> QED BY <2>1, <2>2 DEF Bank
<1> HIDE DEF b
<1>2. purse' \in [Savers -> Nat] /\ SumOf(purse', Savers) = SumOf(purse, Savers) + b
  BY <1>1, Moves
<1>3. account' \in [Savers -> Nat] /\ SumOf(account', Savers) = SumOf(account, Savers) + a
  BY <1>1, Moves
<1>4. BankInv'
  BY <1>1, <1>2, <1>3 DEF BankInv
<1>5. Total' = Total
  BY <1>1, <1>2, <1>3, Parts DEF b
<1> QED BY <1>4, <1>5, Kept

\* An order that is sent.
LEMMA Ordered ==
    ASSUME BankInv, NEW m \in Savers, NEW k, NEW n, Order(m, k, n), [by |-> m, kind |-> k, amount |-> n] \in GoldOrders
    PROVE  orders' \in Seq(GoldOrders) /\ n \in Int
           /\ Sent(orders') = Sent(orders) + (IF n > 0 THEN n ELSE 0)
<1> DEFINE o == [by |-> m, kind |-> k, amount |-> n]
<1>1. o \in GoldOrders /\ o.amount = n /\ orders' = Append(orders, o) /\ orders \in Seq(GoldOrders)
  BY DEF Order, BankInv
<1> HIDE DEF o
<1>2. orders' \in Seq(GoldOrders) /\ Sent(orders') = Sent(orders) + Worth(o)
  BY <1>1, SentChanges
<1> QED BY <1>1, <1>2, WorthOwed

\* Into the fund.
LEMMA DepositStep ==
    ASSUME BankInv, NEW m \in Savers, NEW a \in Int, Deposit(m, a)
    PROVE  BankInv' /\ GoldStep
<1> DEFINE b == -a
<1>1. b \in Int /\ purse[m] + b \in Nat /\ a > 0 /\ Order(m, "Gold", a)
      /\ purse' = [purse EXCEPT ![m] = purse[m] + b] /\ purse \in [Savers -> Nat]
      /\ account' = account /\ fund' = fund /\ tax' = tax /\ present' = present /\ receipts' = receipts
  <2>1. purse \in [Savers -> Nat] /\ purse[m] \in Nat /\ purse[m] - a \in Nat
    BY DEF BankInv, Deposit
  <2>2. purse[m] - a = purse[m] + b /\ b \in Int
    BY <2>1
  <2> QED BY <2>1, <2>2 DEF Deposit
<1> HIDE DEF b
<1>2. purse' \in [Savers -> Nat] /\ SumOf(purse', Savers) = SumOf(purse, Savers) + b
  BY <1>1, Moves
<1>3. orders' \in Seq(GoldOrders) /\ Sent(orders') = Sent(orders) + (IF a > 0 THEN a ELSE 0)
  <2>1. [by |-> m, kind |-> "Gold", amount |-> a] \in GoldOrders
    BY DEF GoldOrders
  <2> QED BY <1>1, <2>1, Ordered
<1>4. BankInv'
  BY <1>1, <1>2, <1>3 DEF BankInv
<1>5. Total' = Total
  BY <1>1, <1>2, <1>3, Parts DEF b
<1> QED BY <1>4, <1>5, Kept

\* An order that takes nothing along.
LEMMA EmptyOrderStep ==
    ASSUME BankInv, NEW m \in Savers, NEW k, NEW n \in Int, Order(m, k, n), ~ (n > 0),
           [by |-> m, kind |-> k, amount |-> n] \in GoldOrders,
           UNCHANGED <<purse, account, fund, tax, present, receipts>>
    PROVE  BankInv' /\ GoldStep
<1>1. orders' \in Seq(GoldOrders) /\ Sent(orders') = Sent(orders) + (IF n > 0 THEN n ELSE 0)
  BY Ordered
<1>2. BankInv'
  BY <1>1 DEF BankInv
<1>3. Total' = Total
  BY <1>1, Parts
<1> QED BY <1>2, <1>3, Kept

\* Out of the fund, and the question how much there is.
LEMMA WithdrawStep ==
    ASSUME BankInv, NEW m \in Savers, NEW a \in Int, Withdraw(m, a) \/ AskFund(m)
    PROVE  BankInv' /\ GoldStep
<1>1. CASE Withdraw(m, a)
  <2>1. [by |-> m, kind |-> "Gold", amount |-> a] \in GoldOrders
    BY DEF GoldOrders
  <2>2. Order(m, "Gold", a) /\ ~ (a > 0) /\ UNCHANGED <<purse, account, fund, tax, present, receipts>>
    BY <1>1 DEF Withdraw
  <2> QED BY <2>1, <2>2, EmptyOrderStep
<1>2. CASE AskFund(m)
  <2> DEFINE z == 0
  <2>1. [by |-> m, kind |-> "Ask", amount |-> z] \in GoldOrders
    BY DEF GoldOrders
  <2>2. Order(m, "Ask", z) /\ UNCHANGED <<purse, account, fund, tax, present, receipts>>
    BY <1>2 DEF AskFund
  <2>3. z \in Int /\ ~ (z > 0)
    OBVIOUS
  <2> HIDE DEF z
  <2> QED BY <2>1, <2>2, <2>3, EmptyOrderStep
<1> QED BY <1>1, <1>2

\* Somebody leaves or comes back.
LEMMA PresenceStep ==
    ASSUME BankInv, NEW m \in Savers, Quit(m) \/ Return(m)
    PROVE  BankInv' /\ GoldStep
<1>1. present' \in SUBSET Savers /\ UNCHANGED <<purse, account, fund, tax, orders, receipts>>
  BY DEF BankInv, Quit, Return
<1>2. BankInv'
  BY <1>1 DEF BankInv
<1>3. Total' = Total
  BY <1>1, Parts
<1> QED BY <1>2, <1>3, Kept

\* The answer to an order.
LEMMA Answered ==
    ASSUME BankInv, orders # <<>>, NEW ok \in BOOLEAN, NEW n \in Nat,
           orders' = Tail(orders), receipts' = Append(receipts, Receipt(Head(orders), ok, n))
    PROVE  /\ orders' \in Seq(GoldOrders) /\ receipts' \in Seq(GoldReceipts)
           /\ Head(orders) \in GoldOrders /\ Head(orders).amount \in Int
           /\ Sent(orders) = (IF Head(orders).amount > 0 THEN Head(orders).amount ELSE 0) + Sent(orders')
           /\ Sent(orders') \in Int
           /\ Due(receipts') = Due(receipts) + Owed(Receipt(Head(orders), ok, n))
<1> DEFINE o == Head(orders)
           r == Receipt(o, ok, n)
<1>1. orders \in Seq(GoldOrders) /\ receipts \in Seq(GoldReceipts)
  BY DEF BankInv
<1>2. o \in GoldOrders /\ Tail(orders) \in Seq(GoldOrders) /\ Sent(orders) = Worth(o) + Sent(Tail(orders))
  BY <1>1, SentChanges
<1> HIDE DEF o
<1>3. o.amount \in Int /\ Worth(o) = IF o.amount > 0 THEN o.amount ELSE 0
  BY <1>2, WorthOwed
<1>4. r \in GoldReceipts
  BY <1>2 DEF Receipt, GoldOrders, GoldReceipts
<1>5. receipts' = Append(receipts, r)
  BY DEF o
<1> HIDE DEF r
<1>6. receipts' \in Seq(GoldReceipts) /\ Due(receipts') = Due(receipts) + Owed(r)
  BY <1>1, <1>4, <1>5, DueChanges
<1>7. Sent(orders') \in Int
  BY <1>2, SentIs
<1> QED BY <1>2, <1>3, <1>6, <1>7 DEF o, r

\* Streams that lose or win a message are others.
LEMMA OtherStreams ==
    /\ \A q \in Seq(GoldOrders) : q # <<>> => Tail(q) # q
    /\ \A q \in Seq(GoldReceipts), r \in GoldReceipts : Append(q, r) # q
<1>1. ASSUME NEW q \in Seq(GoldOrders), q # <<>> PROVE Tail(q) # q
  <2>1. Len(Tail(q)) = Len(q) - 1 /\ Len(q) \in Nat
    BY <1>1, HeadTailProperties, LenProperties
  <2> QED BY <2>1
<1>2. ASSUME NEW q \in Seq(GoldReceipts), NEW r \in GoldReceipts PROVE Append(q, r) # q
  <2>1. Len(Append(q, r)) = Len(q) + 1 /\ Len(q) \in Nat
    BY AppendProperties, LenProperties
  <2> QED BY <2>1
<1> QED BY <1>1, <1>2

\* The account server fixes the fund.
LEMMA FixStep ==
    ASSUME BankInv, ACFixFMGold
    PROVE  BankInv' /\ GoldStep
<1> DEFINE a == Head(orders).amount
           ok == fund + a >= 0
           w == IF a > 0 THEN a ELSE 0
           d == IF ok /\ ~ (a > 0) THEN -a ELSE 0
           r == Receipt(Head(orders), ok, fund')
<1>1. orders # <<>> /\ Head(orders).kind = "Gold" /\ orders' = Tail(orders)
      /\ fund' = (IF fund + a < 0 THEN fund ELSE Min({fund + a, FundMaxAC}))
      /\ receipts' = Append(receipts, r)
      /\ UNCHANGED <<purse, account, tax, present>>
  BY DEF ACFixFMGold
<1>2. Head(orders) \in GoldOrders /\ a \in Int /\ fund \in Nat /\ FundMaxAC \in Nat /\ ok \in BOOLEAN
  <2>1. Head(orders) \in GoldOrders
    BY <1>1, SentChanges DEF BankInv
  <2> QED BY <2>1, BankAssumption DEF BankInv, GoldOrders
<1>3. fund' = (IF ~ ok THEN fund ELSE IF fund + a <= FundMaxAC THEN fund + a ELSE FundMaxAC) /\ fund' \in Nat
  <2>1. fund + a \in Int
    BY <1>2
  <2>2. Min({fund + a, FundMaxAC}) = IF fund + a <= FundMaxAC THEN fund + a ELSE FundMaxAC
    <3> DEFINE x == fund + a
    <3>1. x \in Int /\ FundMaxAC \in Int
      BY <1>2, <2>1
    <3> HIDE DEF x
    <3>2. Min({x, FundMaxAC}) = IF x <= FundMaxAC THEN x ELSE FundMaxAC
      BY <3>1, MaxMin
    <3> QED BY <3>2 DEF x
  <2> HIDE DEF a
  <2> QED BY <1>1, <1>2, <2>1, <2>2
<1>4. Owed(r) = d /\ d \in Int
  <2>1. r.kind = "Gold" /\ r.amount = a /\ r.ok = ok
    BY <1>1 DEF Receipt
  <2> HIDE DEF r, a, ok
  <2>2. ok \in BOOLEAN /\ a \in Int
    BY <1>2
  <2>3. CASE ok
    <3>1. CASE a > 0
      <4>1. r.ok = (r.amount > 0)
        BY <2>1, <2>2, <2>3, <3>1
      <4> QED BY <3>1, <2>3, <4>1 DEF Owed
    <3>2. CASE ~ (a > 0)
      <4>1. r.ok # (r.amount > 0)
        BY <2>1, <2>3, <3>2
      <4> QED BY <2>1, <2>2, <2>3, <3>2, <4>1 DEF Owed
    <3> QED BY <3>1, <3>2
  <2>4. CASE ~ ok
    <3>1. a > 0 => Owed(r) = a
      BY <2>1, <2>2, <2>4 DEF Owed
    <3>2. ~ (a > 0)
      BY <2>4, <1>2 DEF ok
    <3> QED BY <2>1, <2>2, <2>4, <3>2 DEF Owed
  <2> QED BY <2>3, <2>4
<1>5. /\ orders' \in Seq(GoldOrders) /\ receipts' \in Seq(GoldReceipts)
      /\ Sent(orders) = w + Sent(orders') /\ Sent(orders') \in Int
      /\ Due(receipts') = Due(receipts) + d
  <2> DEFINE n == fund'
  <2>1. n \in Nat /\ receipts' = Append(receipts, Receipt(Head(orders), ok, n))
    BY <1>1, <1>3
  <2> HIDE DEF n, ok
  <2>2. /\ orders' \in Seq(GoldOrders) /\ receipts' \in Seq(GoldReceipts)
        /\ Sent(orders) = w + Sent(orders') /\ Sent(orders') \in Int
        /\ Due(receipts') = Due(receipts) + Owed(Receipt(Head(orders), ok, n))
    BY <1>1, <1>2, <2>1, Answered
  <2> QED BY <2>2, <1>4 DEF n
<1>6. BankInv'
  BY <1>1, <1>3, <1>5 DEF BankInv
<1>7. Total' = Total + (fund' - fund) - w + d
  <2> DEFINE P == SumOf(purse, Savers)
             A == SumOf(account, Savers)
             X == Sent(orders)
             Y == Sent(orders')
             U == Due(receipts)
             V == Due(receipts')
  <2>1. Total = P + A + fund + (X + U) /\ Total' = P + A + fund' + (Y + V)
        /\ P \in Int /\ A \in Int /\ X \in Int /\ Y \in Int /\ U \in Int
    BY <1>1, <1>5, Parts
  <2>2. X = w + Y /\ V = U + d /\ w \in Int
    BY <1>2, <1>5
  <2> HIDE DEF P, A, X, Y, U, V, w, d
  <2> QED BY <2>1, <2>2, <1>2, <1>3, <1>4
<1>8. Total \in Int
  BY Parts
<1>9. Total' <= Total /\ (Total' < Total => fund + a > FundMaxAC)
  <2> HIDE DEF a
  <2>1. CASE ~ ok
    <3>1. fund' = fund /\ w = 0 /\ d = 0
      BY <1>2, <1>3, <2>1
    <3> QED BY <3>1, <1>7, <1>8, <1>2
  <2>2. CASE ok
    <3>1. d - w = -a
      BY <1>2, <2>2
    <3>2. fund' - fund = (IF fund + a <= FundMaxAC THEN a ELSE FundMaxAC - fund)
      BY <1>2, <1>3, <2>2
    <3> HIDE DEF d, w, ok
    <3>3. Total' = Total + (fund' - fund) + (d - w) /\ d - w \in Int
      BY <1>2, <1>3, <1>4, <1>7, <1>8, <3>1 DEF w
    <3> QED BY <1>2, <1>8, <3>1, <3>2, <3>3
  <2> QED BY <2>1, <2>2
<1>10. fund + a > FundMaxAC => Spills
  BY <1>1 DEF Spills
<1>11. receipts' # receipts /\ orders' # orders
  <2>1. r \in GoldReceipts
    BY <1>2, <1>3 DEF Receipt, GoldOrders, GoldReceipts
  <2>2. orders \in Seq(GoldOrders) /\ receipts \in Seq(GoldReceipts)
    BY DEF BankInv
  <2> HIDE DEF r
  <2> QED BY <1>1, <2>1, <2>2, OtherStreams
<1>12. fund' >= 0 /\ \A m \in Savers : purse'[m] >= 0 /\ account'[m] >= 0
  BY <1>6 DEF BankInv
<1> HIDE DEF a
<1> QED BY <1>6, <1>9, <1>10, <1>11, <1>12 DEF GoldStep

\* The account server says how much there is.
LEMMA GetStep ==
    ASSUME BankInv, ACGetFMData
    PROVE  BankInv' /\ GoldStep
<1> DEFINE o == Head(orders)
           yes == TRUE
<1>1. orders # <<>> /\ o.kind = "Ask" /\ orders' = Tail(orders) /\ yes \in BOOLEAN /\ fund \in Nat
      /\ receipts' = Append(receipts, Receipt(Head(orders), yes, fund))
      /\ UNCHANGED <<purse, account, fund, tax, present>>
  BY DEF ACGetFMData, BankInv
<1>2. Owed(Receipt(o, yes, fund)) = 0
  BY <1>1 DEF Owed, Receipt
<1> HIDE DEF yes
<1>3. /\ orders' \in Seq(GoldOrders) /\ receipts' \in Seq(GoldReceipts) /\ o \in GoldOrders
      /\ Sent(orders) = (IF o.amount > 0 THEN o.amount ELSE 0) + Sent(orders') /\ Sent(orders') \in Int
      /\ Due(receipts') = Due(receipts) + Owed(Receipt(o, yes, fund))
  BY <1>1, Answered
<1>4. o.amount = 0
  BY <1>1, <1>3 DEF GoldOrders
<1>5. BankInv'
  BY <1>1, <1>3 DEF BankInv
<1>6. Total' = Total
  BY <1>1, <1>2, <1>3, <1>4, Parts
<1> QED BY <1>5, <1>6, Kept

\* The game server hears of the gold.
LEMMA HeardStep ==
    ASSUME BankInv, FixFMGold_recv
    PROVE  BankInv' /\ GoldStep
<1> DEFINE r == Head(receipts)
           n == IF r.ok = (r.amount > 0) THEN 0 ELSE IF r.amount > 0 THEN r.amount ELSE -r.amount
<1>1. receipts # <<>> /\ r.kind = "Gold" /\ receipts' = Tail(receipts)
      /\ UNCHANGED <<account, fund, tax, present, orders>>
      /\ (r.by \notin present => purse' = purse)
  BY DEF FixFMGold_recv
<1>2. r \in GoldReceipts /\ receipts' \in Seq(GoldReceipts) /\ Due(receipts) = Owed(r) + Due(receipts')
  BY <1>1, DueChanges DEF BankInv
<1>3. r.amount \in Int /\ r.ok \in BOOLEAN /\ r.by \in Savers
  BY <1>2 DEF GoldReceipts
<1>4. Owed(r) = n /\ n \in Nat
  <2>1. Owed(r) \in Nat
    <3> HIDE DEF r
    <3> QED BY <1>2, WorthOwed
  <2>2. Owed(r) = n
    <3> HIDE DEF r
    <3> QED BY <1>1 DEF Owed
  <2> QED BY <2>1, <2>2
<1>5. r.by \in present => purse' = [purse EXCEPT ![r.by] = purse[r.by] + n] /\ purse \in [Savers -> Nat]
  <2> DEFINE m == r.by
             v == CASE r.ok /\ r.amount < 0 -> purse[m] - r.amount
                    [] ~ r.ok /\ r.amount > 0 -> purse[m] + r.amount
                    [] OTHER -> purse[m]
  <2>1. m \in present => purse' = [purse EXCEPT ![m] = v]
    BY DEF FixFMGold_recv
  <2>2. purse \in [Savers -> Nat] /\ purse[m] \in Nat
    BY <1>3 DEF BankInv
  <2>3. v = purse[m] + n
    <3> HIDE DEF m, r
    <3>1. CASE r.ok
      <4>1. v = IF r.amount < 0 THEN purse[m] - r.amount ELSE purse[m]
        BY <3>1, <1>3
      <4>2. n = IF r.amount > 0 THEN 0 ELSE -r.amount
        BY <3>1, <1>3
      <4> QED BY <4>1, <4>2, <1>3, <2>2
    <3>2. CASE ~ r.ok
      <4>1. v = IF r.amount > 0 THEN purse[m] + r.amount ELSE purse[m]
        BY <3>2, <1>3
      <4>2. n = IF r.amount > 0 THEN r.amount ELSE 0
        BY <3>2, <1>3
      <4> QED BY <4>1, <4>2, <1>3, <2>2
    <3> QED BY <3>1, <3>2
  <2> HIDE DEF v, n, r
  <2> QED BY <2>1, <2>2, <2>3
<1> HIDE DEF n
<1>6. Due(receipts') \in Int
  BY <1>2, DueIs
<1>7. CASE r.by \in present
  <2> DEFINE m == r.by
  <2>1. purse' = [purse EXCEPT ![m] = purse[m] + n] /\ purse \in [Savers -> Nat] /\ m \in Savers /\ n \in Int
        /\ purse[m] + n \in Nat
    <3>1. purse \in [Savers -> Nat] /\ m \in Savers /\ n \in Nat
      BY <1>3, <1>4, <1>5, <1>7
    <3> QED BY <3>1, <1>5, <1>7
  <2> HIDE DEF m
  <2>2. purse' \in [Savers -> Nat] /\ SumOf(purse', Savers) = SumOf(purse, Savers) + n
    BY <2>1, Moves
  <2>3. BankInv'
    BY <1>1, <1>2, <2>2 DEF BankInv
  <2>4. Total' = Total
    BY <1>1, <1>2, <1>4, <1>6, <2>2, Parts
  <2> QED BY <2>3, <2>4, Kept
<1>8. CASE r.by \notin present
  <2>1. purse' = purse
    BY <1>1, <1>8
  <2>2. BankInv'
    BY <1>1, <1>2, <2>1 DEF BankInv
  <2>3. Total' = Total - n /\ Total \in Int
    BY <1>1, <1>2, <1>4, <1>6, <2>1, Parts
  <2>4. Total' <= Total
    BY <2>3, <1>4
  <2>5. Undelivered
    BY <1>1, <1>8 DEF Undelivered
  <2>6. fund' >= 0 /\ \A m \in Savers : purse'[m] >= 0 /\ account'[m] >= 0
    BY <2>2 DEF BankInv
  <2> QED BY <1>1, <2>2, <2>4, <2>5, <2>6 DEF GoldStep
<1> QED BY <1>7, <1>8

\* The game server hears how much there is in the fund.
LEMMA KnownStep ==
    ASSUME BankInv, GetFMData_recv
    PROVE  BankInv' /\ GoldStep
<1> DEFINE r == Head(receipts)
<1>1. receipts # <<>> /\ r.kind = "Ask" /\ receipts' = Tail(receipts)
      /\ UNCHANGED <<purse, account, fund, present, orders>>
  BY DEF GetFMData_recv
<1>2. r \in GoldReceipts /\ receipts' \in Seq(GoldReceipts) /\ Due(receipts) = Owed(r) + Due(receipts')
  BY <1>1, DueChanges DEF BankInv
<1>3. Owed(r) = 0
  BY <1>1 DEF Owed
<1>4. tax' \in Nat
  BY <1>2 DEF GetFMData_recv, GoldReceipts, BankInv
<1>5. Due(receipts') \in Int
  BY <1>2, DueIs
<1>6. BankInv'
  BY <1>1, <1>2, <1>4 DEF BankInv
<1>7. Total' = Total
  BY <1>1, <1>2, <1>3, <1>5, Parts
<1> QED BY <1>6, <1>7, Kept

\* Nobody owes anything at the start.
LEMMA InitBankInv == BankInit => BankInv
<1> SUFFICES ASSUME BankInit PROVE BankInv
  OBVIOUS
<1>1. <<>> \in Seq(GoldOrders) /\ <<>> \in Seq(GoldReceipts)
  BY EmptySeq
<1>2. PurseMax \in Nat
  BY BankAssumption
<1> QED BY <1>1, <1>2 DEF BankInit, BankInv

\* What every step of the bank keeps and does.
LEMMA NextBankInv ==
    ASSUME BankInv, BankNext
    PROVE  BankInv' /\ GoldStep
<1>1. \A a \in Amounts : a \in Int
  BY BankAssumption DEF Amounts
<1>2. ASSUME NEW m \in Savers, NEW a \in Amounts, Bank(m, a) \/ Deposit(m, a) \/ Withdraw(m, a)
      PROVE  BankInv' /\ GoldStep
  BY <1>1, <1>2, BankStep, DepositStep, WithdrawStep
<1>3. ASSUME NEW m \in Savers, AskFund(m) \/ Quit(m) \/ Return(m)
      PROVE  BankInv' /\ GoldStep
  <2> DEFINE z == 0
  <2>1. z \in Int
    OBVIOUS
  <2> HIDE DEF z
  <2>2. Withdraw(m, z) \/ AskFund(m) => BankInv' /\ GoldStep
    BY <2>1, WithdrawStep
  <2> QED BY <1>3, <2>2, PresenceStep
<1> QED BY <1>2, <1>3, FixStep, GetStep, HeardStep, KnownStep DEF BankNext

\* The purses, the accounts and the fund are never below zero, and what is under
\* way keeps its type.
THEOREM BankTypes == BankSpec => []BankInv
<1>1. BankInv /\ [BankNext]_bankVars => BankInv'
  <2>1. BankInv /\ UNCHANGED bankVars => BankInv'
    BY DEF BankInv, bankVars
  <2> QED BY <2>1, NextBankInv
<1> QED BY <1>1, InitBankInv, PTL DEF BankSpec

\* Whatever is paid in and drawn at the same time, from a fund that is known too
\* late, no gold is made and none is overdrawn, and gold is lost at the account
\* server's limit and with an answer whose member has gone only, for every number
\* of members, orders and every limit (FAMILY_Bank of gmsv/char/family.c,
\* ACFixFMData of saac/acfamily.c).
THEOREM NoGoldIsMade == BankSpec => GoldNeverMade
<1>1. BankInv /\ [BankNext]_bankVars => [UNCHANGED bankVars \/ GoldStep]_bankVars
  <2> SUFFICES ASSUME BankInv, [BankNext]_bankVars PROVE UNCHANGED bankVars \/ GoldStep
    OBVIOUS
  <2>1. CASE BankNext
    BY <2>1, NextBankInv
  <2> QED BY <2>1
<1>2. [][UNCHANGED bankVars \/ GoldStep]_bankVars => GoldNeverMade
  BY DEF GoldNeverMade, GoldStep
<1> QED BY <1>1, <1>2, BankTypes, PTL DEF BankSpec
==============================================================================

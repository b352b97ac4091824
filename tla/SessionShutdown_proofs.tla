--------------------- MODULE SessionShutdown_proofs ----------------------
(***************************************************************************)
(* Proofs about sessions, for every number of accounts, game servers and   *)
(* connections, whatever clients do and whichever servers crash: a session *)
(* whose lock was never taken away is the only one of its account, and     *)
(* sessions of one account on two servers are about to be closed.          *)
(*                                                                         *)
(* And about the end of a game server, for every number of connections,    *)
(* minutes, commands and saves: the counter of those that wait for their   *)
(* last save is right, each of them has an answer coming, and the server   *)
(* shows that it is closed only when nobody is left.                       *)
(***************************************************************************)
EXTENDS AccountSession, Shutdown, SequenceTheorems, FiniteSetTheorems, TLAPS

USE NamesAssumption

Requests == Request \cup UCheckAnswer
Answers  == Answer \cup Order

\* The requests of a connection whose answers move it on whatever its state is,
\* and these answers
AskOf(c)    == {m \in Requests : m.type \in {"List", "Load"} /\ m.id = c}
TellOf(c)   == {m \in Answers : m.type \in {"ListDone", "LoadDone"} /\ m.id = c}
Waits(type) == IF type \in {"List", "ListDone"} THEN "WHILEDOWNLOADCHARLIST" ELSE "WHILELOGIN"

\* The stream q holds one message of M at most.
Once(q, M) == \A i, j \in DOMAIN q : q[i] \in M /\ q[j] \in M => i = j

\* The account of a connection that has asked for something is known.
KeyKnown ==
    \A g \in Servers, c \in Conns :
        conn[g][c].state \notin {"FREE", "NOTLOGIN"} => conn[g][c].key \in CdKeys

TypeInv ==
    /\ conn \in [Servers -> [Conns -> Conn]]
    /\ up \subseteq Servers
    /\ gs \subseteq Servers
    /\ lock \in [CdKeys -> Servers \cup {"none"}]
    /\ store \subseteq CdKeys
    /\ toAC \in [Servers -> Seq(Requests)]
    /\ toGS \in [Servers -> Seq(Answers)]
    /\ forced \subseteq CdKeys
    /\ KeyKnown

\* A server that does not run has no connections and gets nothing; what it sent
\* is read until its stream ends.
Connected ==
    /\ up \subseteq gs
    /\ \A g \in Servers \ up : toGS[g] = <<>> /\ \A c \in Conns : conn[g][c].state = "FREE"
    /\ \A g \in Servers \ gs : toAC[g] = <<>>

\* A connection that waits has one request or one answer under way, about the
\* account it named.
AskedAt(g, c) ==
    /\ Once(toAC[g], AskOf(c))
    /\ Once(toGS[g], TellOf(c))
    /\ \A m \in In(toAC[g]) \cap AskOf(c) :
         /\ conn[g][c].state = Waits(m.type)
         /\ conn[g][c].key = m.key
         /\ In(toGS[g]) \cap TellOf(c) = {}
    /\ \A m \in In(toGS[g]) \cap TellOf(c) : conn[g][c].state = Waits(m.type)

AskedOnce == \A g \in Servers, c \in Conns : InUse(g, c) => AskedAt(g, c)

\* Connections that are online, or will be by an answer on its way
Grant(c)      == DoneOk("LoadDone", c, TRUE)
Granted(g, k) == {c \in Conns : InUse(g, c) /\ conn[g][c].key = k /\ Grant(c) \in In(toGS[g])}
Claims(g, k)  == SessionsOf(g, k) \cup Granted(g, k)
SavesFor(g, k)   == \E m \in In(toAC[g]) : m.type = "SaveUnlock" /\ m.key = k

\* The lock of an account that has a claim is held by the server of the claim,
\* unless it was taken away; and there is one claim, or a save, and not both.
OneClaim ==
    \A k \in CdKeys \ forced : \A g \in Servers :
        /\ Claims(g, k) # {} \/ SavesFor(g, k) => lock[k] = g
        /\ SavesFor(g, k) => Claims(g, k) = {}
        /\ \A c, d \in Claims(g, k) : c = d

\* Of two claims on two servers one is about to be closed.
ClaimsApart ==
    \A k \in CdKeys : \A g, h \in Servers : g # h =>
        \A c \in Claims(g, k), d \in Claims(h, k) : Doomed(g, c) \/ Doomed(h, d)

IInv == TypeInv /\ Connected /\ AskedOnce /\ OneClaim /\ ClaimsApart

----------------------------------------------------------------------------
(* Streams. *)

\* One more message at the end
LEMMA InAppend ==
    ASSUME NEW S, NEW q \in Seq(S), NEW m \in S
    PROVE  /\ Append(q, m) \in Seq(S)
           /\ In(Append(q, m)) = In(q) \cup {m}
           /\ \A M : Once(q, M) /\ (m \notin M \/ In(q) \cap M = {}) => Once(Append(q, m), M)
<1>1. /\ Append(q, m) \in Seq(S) /\ Len(Append(q, m)) = Len(q) + 1
      /\ \A i \in 1 .. Len(q) : Append(q, m)[i] = q[i]
      /\ Append(q, m)[Len(q) + 1] = m
  BY AppendProperties
<1>2. DOMAIN q = 1 .. Len(q) /\ Len(q) \in Nat /\ DOMAIN Append(q, m) = 1 .. Len(q) + 1
  BY <1>1, LenProperties
<1>3. DOMAIN Append(q, m) = DOMAIN q \cup {Len(q) + 1}
  BY <1>2
<1> QED BY <1>1, <1>2, <1>3 DEF In, Once

\* The first message is taken.
LEMMA InTail ==
    ASSUME NEW S, NEW q \in Seq(S), q # <<>>
    PROVE  /\ Head(q) \in S /\ Tail(q) \in Seq(S)
           /\ In(q) = {Head(q)} \cup In(Tail(q))
           /\ \A M : Once(q, M) => Once(Tail(q), M) /\ (Head(q) \in M => In(Tail(q)) \cap M = {})
<1>1. /\ Head(q) \in S /\ Tail(q) \in Seq(S) /\ Len(Tail(q)) = Len(q) - 1
      /\ \A i \in 1 .. Len(Tail(q)) : Tail(q)[i] = q[i + 1]
  BY HeadTailProperties
<1>2. /\ DOMAIN q = 1 .. Len(q) /\ Len(q) \in Nat \ {0} /\ DOMAIN Tail(q) = 1 .. Len(q) - 1
      /\ Head(q) = q[1]
  BY <1>1, LenProperties, EmptySeq
<1>3. ASSUME NEW i \in DOMAIN q, i # 1 PROVE i - 1 \in DOMAIN Tail(q) /\ Tail(q)[i - 1] = q[i]
  <2>1. i - 1 \in 1 .. Len(q) - 1 /\ (i - 1) + 1 = i
    BY <1>2, <1>3
  <2> QED BY <1>1, <1>2, <2>1
<1>4. In(q) \subseteq {Head(q)} \cup In(Tail(q))
  BY <1>2, <1>3 DEF In
<1>5. In(Tail(q)) \subseteq In(q) /\ Head(q) \in In(q)
  BY <1>1, <1>2 DEF In
<1>6. ASSUME NEW i \in DOMAIN Tail(q)
      PROVE  i \in Int /\ i + 1 \in DOMAIN q /\ i + 1 # 1 /\ Tail(q)[i] = q[i + 1]
  BY <1>1, <1>2
<1>7. ASSUME NEW M, Once(q, M) PROVE Once(Tail(q), M)
  <2> SUFFICES ASSUME NEW i \in DOMAIN Tail(q), NEW j \in DOMAIN Tail(q), Tail(q)[i] \in M, Tail(q)[j] \in M
               PROVE  i = j
    BY DEF Once
  <2>1. i + 1 = j + 1
    BY <1>6, <1>7 DEF Once
  <2> QED BY <2>1, <1>6
<1>8. ASSUME NEW M, Once(q, M), Head(q) \in M PROVE In(Tail(q)) \cap M = {}
  BY <1>2, <1>6, <1>8 DEF Once, In
<1> QED BY <1>1, <1>4, <1>5, <1>7, <1>8

\* What one stream holds is followed by what another holds.
LEMMA InConcat ==
    ASSUME NEW S, NEW q \in Seq(S), NEW r \in Seq(S)
    PROVE  /\ q \o r \in Seq(S)
           /\ In(q \o r) = In(q) \cup In(r)
           /\ \A M : Once(q, M) /\ Once(r, M) /\ (In(q) \cap M = {} \/ In(r) \cap M = {}) => Once(q \o r, M)
<1>1. /\ q \o r \in Seq(S) /\ Len(q \o r) = Len(q) + Len(r)
      /\ \A i \in 1 .. Len(q) + Len(r) : (q \o r)[i] = IF i <= Len(q) THEN q[i] ELSE r[i - Len(q)]
  BY ConcatProperties
<1>2. /\ DOMAIN q = 1 .. Len(q) /\ DOMAIN r = 1 .. Len(r) /\ Len(q) \in Nat /\ Len(r) \in Nat
      /\ DOMAIN (q \o r) = 1 .. Len(q) + Len(r)
  BY <1>1, LenProperties
<1>3. ASSUME NEW i \in DOMAIN r PROVE i + Len(q) \in DOMAIN (q \o r) /\ (q \o r)[i + Len(q)] = r[i]
  BY <1>1, <1>2
<1>4. In(r) \subseteq In(q \o r)
  BY <1>3 DEF In
<1>5. In(q) \subseteq In(q \o r) /\ In(q \o r) \subseteq In(q) \cup In(r)
  BY <1>1, <1>2 DEF In
<1>6. ASSUME NEW i \in DOMAIN (q \o r)
      PROVE  \/ i \in DOMAIN q /\ (q \o r)[i] = q[i]
             \/ i \in Int /\ i - Len(q) \in DOMAIN r /\ (q \o r)[i] = r[i - Len(q)]
  BY <1>1, <1>2
<1>7. ASSUME NEW M, Once(q, M), Once(r, M), In(q) \cap M = {} \/ In(r) \cap M = {}
      PROVE  Once(q \o r, M)
  <2> SUFFICES ASSUME NEW i \in DOMAIN (q \o r), NEW j \in DOMAIN (q \o r),
                      (q \o r)[i] \in M, (q \o r)[j] \in M
               PROVE  i = j
    BY DEF Once
  <2>1. CASE In(q) \cap M = {}
    <3>1. /\ i \in Int /\ i - Len(q) \in DOMAIN r /\ r[i - Len(q)] \in M
          /\ j \in Int /\ j - Len(q) \in DOMAIN r /\ r[j - Len(q)] \in M
      BY <1>6, <2>1 DEF In
    <3>2. i - Len(q) = j - Len(q)
      BY <3>1, <1>7 DEF Once
    <3> QED BY <3>1, <3>2, <1>2
  <2>2. CASE In(r) \cap M = {}
    BY <1>6, <2>2, <1>7 DEF In, Once
  <2> QED BY <2>1, <2>2, <1>7
<1> QED BY <1>1, <1>4, <1>5, <1>7

\* The end of the stream is lost.
LEMMA InPrefix ==
    ASSUME NEW S, NEW q \in Seq(S), NEW n \in 0 .. Len(q)
    PROVE  /\ SubSeq(q, 1, n) \in Seq(S)
           /\ In(SubSeq(q, 1, n)) \subseteq In(q)
<1>1. Len(q) \in Nat /\ DOMAIN q = 1 .. Len(q)
  BY LenProperties
<1>2. SubSeq(q, 1, n) \in Seq(S) /\ Len(SubSeq(q, 1, n)) = n /\ \A i \in 1 .. n : SubSeq(q, 1, n)[i] = q[i]
  BY <1>1, SubSeqProperties
<1>3. DOMAIN SubSeq(q, 1, n) = 1 .. n
  BY <1>2, LenProperties
<1> QED BY <1>1, <1>2, <1>3 DEF In

\* The empty stream
LEMMA InEmpty == In(<<>>) = {} /\ (\A S : <<>> \in Seq(S)) /\ \A M : Once(<<>>, M)
<1>1. <<>> \in Seq({}) /\ Len(<<>>) = 0
  BY EmptySeq
<1>2. DOMAIN <<>> = 1 .. 0
  BY <1>1, LenProperties
<1>3. 1 .. 0 = {}
  OBVIOUS
<1> QED BY <1>2, <1>3, EmptySeq DEF In, Once

\* A stream of one message
LEMMA InOne ==
    ASSUME NEW S, NEW m \in S
    PROVE  <<m>> \in Seq(S) /\ In(<<m>>) = {m} /\ \A M : Once(<<m>>, M)
BY DEF In, Once

----------------------------------------------------------------------------
(* The two sides of a step: what a game server writes, what it reads, what    *)
(* the account server reads and writes.                                       *)

\* A request is written by SendAC to the end of the stream.
LEMMA Written ==
    ASSUME toAC \in [Servers -> Seq(Requests)], NEW g \in Servers, NEW r \in Requests, SendAC(g, r)
    PROVE  /\ toAC' \in [Servers -> Seq(Requests)]
           /\ \A h \in Servers \ {g} : toAC'[h] = toAC[h]
           /\ In(toAC'[g]) = In(toAC[g]) \cup {r}
           /\ \A M : Once(toAC[g], M) /\ (r \notin M \/ In(toAC[g]) \cap M = {}) => Once(toAC'[g], M)
<1>1. /\ toAC'[g] = Append(toAC[g], r) /\ toAC[g] \in Seq(Requests)
      /\ \A h \in Servers \ {g} : toAC'[h] = toAC[h]
      /\ DOMAIN toAC' = Servers /\ toAC' = [h \in Servers |-> toAC'[h]]
  BY DEF SendAC
<1>2. toAC'[g] \in Seq(Requests)
  BY <1>1, InAppend
<1>3. toAC' \in [Servers -> Seq(Requests)]
  BY <1>1, <1>2
<1> QED BY <1>1, <1>3, InAppend

\* Messages of the account server to the game servers
Outs == [Servers -> Seq(Answers)]

\* What the account server sends with SendGS is added to the streams of the
\* servers that run.
LEMMA Sent ==
    ASSUME toGS \in [Servers -> Seq(Answers)], NEW out \in Outs, SendGS(out)
    PROVE  /\ toGS' \in [Servers -> Seq(Answers)]
           /\ \A h \in Servers : h \notin up => toGS'[h] = toGS[h]
           /\ \A h \in Servers : h \in up => In(toGS'[h]) = In(toGS[h]) \cup In(out[h])
           /\ \A h \in Servers : \A M : /\ Once(toGS[h], M) /\ Once(out[h], M)
                                        /\ In(toGS[h]) \cap M = {} \/ In(out[h]) \cap M = {}
                                        => Once(toGS'[h], M)
<1>1. ASSUME NEW h \in Servers
      PROVE  toGS[h] \in Seq(Answers) /\ out[h] \in Seq(Answers) /\ (toGS[h] \o out[h]) \in Seq(Answers)
  BY InConcat DEF Outs
<1>2. /\ toGS' = [h \in Servers |-> IF h \in up THEN toGS[h] \o out[h] ELSE toGS[h]]
      /\ \A h \in Servers : toGS'[h] = IF h \in up THEN toGS[h] \o out[h] ELSE toGS[h]
  BY DEF SendGS
<1>3. toGS' \in [Servers -> Seq(Answers)]
  BY <1>1, <1>2
<1> QED BY <1>1, <1>2, <1>3, InConcat

\* A connection changes its state.
LEMMA StateSet ==
    ASSUME conn \in [Servers -> [Conns -> Conn]], NEW g \in Servers, NEW c \in Conns,
           NEW s \in States, SetState(g, c, s)
    PROVE  /\ conn' \in [Servers -> [Conns -> Conn]]
           /\ conn'[g][c].state = s
           /\ \A h \in Servers, d \in Conns : h # g \/ d # c => conn'[h][d].state = conn[h][d].state
           /\ \A h \in Servers, d \in Conns : /\ conn'[h][d].key = conn[h][d].key
                                              /\ conn'[h][d].close = conn[h][d].close
<1>1. conn[g][c] \in Conn /\ conn'[g][c] = [conn[g][c] EXCEPT !.state = s]
  BY DEF SetState
<1>2. conn'[g][c] \in Conn /\ conn'[g][c].state = s /\ conn'[g][c].key = conn[g][c].key
      /\ conn'[g][c].close = conn[g][c].close
  BY <1>1 DEF Conn
<1>3. conn' = [h \in Servers |-> [d \in Conns |-> conn'[h][d]]]
      /\ \A h \in Servers, d \in Conns : h # g \/ d # c => conn'[h][d] = conn[h][d]
  BY DEF SetState
<1> QED BY <1>2, <1>3

\* Connections are asked to close.
LEMMA CloseRequested ==
    ASSUME conn \in [Servers -> [Conns -> Conn]], NEW g \in Servers, NEW D
    PROVE  /\ setCloseRequest(g, D) \in [Conns -> Conn]
           /\ \A d \in Conns : LET r == setCloseRequest(g, D)[d] IN
                /\ r.state = conn[g][d].state /\ r.key = conn[g][d].key
                /\ conn[g][d].close \/ d \in D => r.close
<1>1. ASSUME NEW d \in Conns
      PROVE  LET r == setCloseRequest(g, D)[d] IN
             /\ r \in Conn /\ r.state = conn[g][d].state /\ r.key = conn[g][d].key
             /\ conn[g][d].close \/ d \in D => r.close
  <2> DEFINE b == conn[g][d].close \/ d \in D
  <2>1. conn[g][d] \in Conn /\ b \in BOOLEAN
    OBVIOUS
  <2>2. setCloseRequest(g, D)[d] = [conn[g][d] EXCEPT !.close = b]
    BY DEF setCloseRequest
  <2> HIDE DEF b
  <2>3. LET r == [conn[g][d] EXCEPT !.close = b] IN
        r \in Conn /\ r.state = conn[g][d].state /\ r.key = conn[g][d].key /\ r.close = b
    BY <2>1 DEF Conn
  <2> QED BY <2>2, <2>3 DEF b
<1> QED BY <1>1 DEF setCloseRequest

----------------------------------------------------------------------------
(* What the account server sends. *)

\* An answer to one server
LEMMA OutReply ==
    ASSUME NEW g \in Servers, NEW a \in Answers
    PROVE  /\ Reply(g, a) \in Outs
           /\ \A h \in Servers : In(Reply(g, a)[h]) = IF h = g THEN {a} ELSE {}
           /\ \A h \in Servers : \A M : Once(Reply(g, a)[h], M)
<1>1. ASSUME NEW h \in Servers
      PROVE  /\ Reply(g, a)[h] \in Seq(Answers)
             /\ In(Reply(g, a)[h]) = IF h = g THEN {a} ELSE {}
             /\ \A M : Once(Reply(g, a)[h], M)
  <2>1. CASE h = g
    BY <2>1, InOne DEF Reply
  <2>2. CASE h # g
    BY <2>2, InEmpty DEF Reply
  <2> QED BY <2>1, <2>2
<1> QED BY <1>1 DEF Reply, Outs

\* Orders to some servers
LEMMA OutKick ==
    ASSUME NEW k \in CdKeys, NEW g \in Servers
    PROVE  /\ {KickAll(k), KickBut(g, k), Nothing} \subseteq Outs
           /\ \A h \in Servers : In(KickAll(k)[h]) = IF h \in gs THEN {Kick(k)} ELSE {}
           /\ \A h \in Servers : In(KickBut(g, k)[h]) = IF h \in gs /\ h # g THEN {Kick(k)} ELSE {}
           /\ \A h \in Servers : In(Nothing[h]) = {}
           /\ \A h \in Servers : \A M : /\ Once(KickAll(k)[h], M)
                                        /\ Once(KickBut(g, k)[h], M)
                                        /\ Once(Nothing[h], M)
<1>1. Kick(k) \in Answers
  BY DEF Kick, Answers, Order
<1>2. ASSUME NEW h \in Servers
      PROVE  /\ KickAll(k)[h] \in Seq(Answers)
             /\ In(KickAll(k)[h]) = IF h \in gs THEN {Kick(k)} ELSE {}
             /\ \A M : Once(KickAll(k)[h], M)
  <2>1. CASE h \in gs
    BY <1>1, <2>1, InOne DEF KickAll
  <2>2. CASE h \notin gs
    BY <2>2, InEmpty DEF KickAll
  <2> QED BY <2>1, <2>2
<1>3. ASSUME NEW h \in Servers
      PROVE  /\ KickBut(g, k)[h] \in Seq(Answers)
             /\ In(KickBut(g, k)[h]) = IF h \in gs /\ h # g THEN {Kick(k)} ELSE {}
             /\ \A M : Once(KickBut(g, k)[h], M)
  <2>1. CASE h \in gs /\ h # g
    BY <1>1, <2>1, InOne DEF KickBut
  <2>2. CASE ~ (h \in gs /\ h # g)
    BY <2>2, InEmpty DEF KickBut
  <2> QED BY <2>1, <2>2
<1>4. ASSUME NEW h \in Servers
      PROVE  Nothing[h] \in Seq(Answers) /\ In(Nothing[h]) = {} /\ \A M : Once(Nothing[h], M)
  BY InEmpty DEF Nothing
<1> QED BY <1>2, <1>3, <1>4 DEF KickAll, KickBut, Nothing, Outs

\* An answer and an order
LEMMA OutBoth ==
    ASSUME NEW a \in Outs, NEW b \in Outs
    PROVE  /\ a ++ b \in Outs
           /\ \A h \in Servers : In((a ++ b)[h]) = In(a[h]) \cup In(b[h])
           /\ \A h \in Servers : \A M :
                Once(a[h], M) /\ Once(b[h], M) /\ In(b[h]) \cap M = {} => Once((a ++ b)[h], M)
<1>1. ASSUME NEW h \in Servers
      PROVE  /\ (a ++ b)[h] = a[h] \o b[h] /\ a[h] \in Seq(Answers) /\ b[h] \in Seq(Answers)
             /\ a[h] \o b[h] \in Seq(Answers)
  BY InConcat DEF ++, Outs
<1>2. a ++ b \in Outs
  BY <1>1 DEF ++, Outs
<1>3. ASSUME NEW h \in Servers
      PROVE  In((a ++ b)[h]) = In(a[h]) \cup In(b[h])
  <2> DEFINE q == a[h]
             r == b[h]
  <2>1. (a ++ b)[h] = q \o r /\ q \in Seq(Answers) /\ r \in Seq(Answers)
    BY <1>1
  <2> HIDE DEF q, r
  <2>2. In(q \o r) = In(q) \cup In(r)
    BY <2>1, InConcat
  <2>3. In((a ++ b)[h]) = In(q) \cup In(r)
    BY <2>1, <2>2
  <2> QED BY <2>3 DEF q, r
<1>4. ASSUME NEW h \in Servers, NEW M, Once(a[h], M), Once(b[h], M), In(b[h]) \cap M = {}
      PROVE  Once((a ++ b)[h], M)
  <2>1. Once(a[h] \o b[h], M)
    BY <1>1, <1>4, InConcat
  <2> QED BY <1>1, <2>1, Zenon
<1> QED BY <1>2, <1>3, <1>4

\* No order is an answer that a connection waits for.
LEMMA OrderKind ==
    ASSUME NEW k \in CdKeys
    PROVE  /\ Kick(k) \in Answers /\ UCheck(k) \in Answers
           /\ \A d : Kick(k) \notin TellOf(d) /\ UCheck(k) \notin TellOf(d)
           /\ \A d : Kick(k) # Grant(d) /\ UCheck(k) # Grant(d)
BY DEF Kick, UCheck, Answers, Order, TellOf, Grant, DoneOk

\* Of the answers without a verdict only that to a list is waited for.
LEMMA DoneKind ==
    ASSUME NEW c \in Conns, NEW t \in {"ListDone", "SaveDone", "DeleteDone"}
    PROVE  /\ Done(t, c) \in Answers /\ Done(t, c).type = t
           /\ \A d : Done(t, c) # Grant(d)
           /\ \A d : Done(t, c) \in TellOf(d) => t = "ListDone" /\ d = c
BY DEF Answers, Answer, TellOf, Grant, Done, DoneOk

\* Of those with one only that to a load is, and only success is a grant.
LEMMA DoneOkKind ==
    ASSUME NEW c \in Conns, NEW t \in {"LoadDone", "UnlockDone"}, NEW b \in BOOLEAN
    PROVE  /\ DoneOk(t, c, b) \in Answers /\ DoneOk(t, c, b).type = t
           /\ \A d : DoneOk(t, c, b) = Grant(d) => t = "LoadDone" /\ d = c /\ b
           /\ \A d : DoneOk(t, c, b) \in TellOf(d) => t = "LoadDone" /\ d = c
BY DEF Answers, Answer, TellOf, Grant, DoneOk

\* Orders: nothing of what they send is waited for.
Silent(b) ==
    /\ b \in Outs
    /\ \A h \in Servers, c \in Conns : /\ Once(b[h], TellOf(c))
                                       /\ In(b[h]) \cap TellOf(c) = {}
                                       /\ Grant(c) \notin In(b[h])

\* Every order is silent.
LEMMA OrdersSilent ==
    ASSUME NEW g \in Servers, NEW k \in CdKeys
    PROVE  Silent(KickAll(k)) /\ Silent(KickBut(g, k)) /\ Silent(Nothing) /\ Silent(Reply(g, UCheck(k)))
<1>1. ASSUME NEW b \in Outs, NEW o \in Order, o.key = k,
             \A h \in Servers : In(b[h]) \subseteq {o} /\ \A M : Once(b[h], M)
      PROVE  Silent(b)
  <2>1. o \in {Kick(k), UCheck(k)}
    BY <1>1 DEF Order, Kick, UCheck
  <2>2. \A c : o \notin TellOf(c) /\ o # Grant(c)
    BY <2>1, OrderKind
  <2> QED BY <1>1, <2>2 DEF Silent
<1>2. Kick(k) \in Order /\ Kick(k).key = k /\ UCheck(k) \in Order /\ UCheck(k).key = k
  BY DEF Order, Kick, UCheck
<1>3. KickAll(k) \in Outs /\ \A h \in Servers : In(KickAll(k)[h]) \subseteq {Kick(k)} /\ \A M : Once(KickAll(k)[h], M)
  <2>1. KickAll(k) \in Outs
    BY OutKick
  <2>2. ASSUME NEW h \in Servers
        PROVE In(KickAll(k)[h]) \subseteq {Kick(k)} /\ \A M : Once(KickAll(k)[h], M)
    BY OutKick
  <2> QED BY <2>1, <2>2
<1>4. /\ KickBut(g, k) \in Outs
      /\ \A h \in Servers : In(KickBut(g, k)[h]) \subseteq {Kick(k)} /\ \A M : Once(KickBut(g, k)[h], M)
  <2>1. KickBut(g, k) \in Outs
    BY OutKick
  <2>2. ASSUME NEW h \in Servers
        PROVE In(KickBut(g, k)[h]) \subseteq {Kick(k)} /\ \A M : Once(KickBut(g, k)[h], M)
    BY OutKick
  <2> QED BY <2>1, <2>2
<1>5. Nothing \in Outs /\ \A h \in Servers : In(Nothing[h]) \subseteq {Kick(k)} /\ \A M : Once(Nothing[h], M)
  BY OutKick
<1>6. UCheck(k) \in Answers
  BY OrderKind
<1>7. /\ Reply(g, UCheck(k)) \in Outs
      /\ \A h \in Servers : In(Reply(g, UCheck(k))[h]) \subseteq {UCheck(k)} /\ \A M : Once(Reply(g, UCheck(k))[h], M)
  BY <1>6, OutReply
<1> QED BY <1>1, <1>2, <1>3, <1>4, <1>5, <1>7

\* An answer to the connection that asked; a grant comes with the lock.
Proper(g, m, a) ==
    /\ a \in Answers
    /\ \A c \in Conns : /\ a \in TellOf(c) => m \in AskOf(c) /\ Waits(a.type) = Waits(m.type)
                        /\ a = Grant(c) => charLoad_done(g, m) /\ m.type = "Load"

\* What one request makes the account server send, and do to the lock table
Sends(g, m, out) ==
    /\ out \in Outs
    /\ SendGS(out)
    /\ \A h \in Servers, c \in Conns :
         /\ Once(out[h], TellOf(c))
         /\ \A a \in In(out[h]) \cap TellOf(c) : h = g /\ m \in AskOf(c) /\ Waits(a.type) = Waits(m.type)
         /\ Grant(c) \in In(out[h]) => h = g /\ charLoad_done(g, m) /\ m.type = "Load"

Locks(g, m) ==
    \/ UNCHANGED <<lock, forced>>
    \/ \E k \in CdKeys : Unlocked(k)
    \/ charLoad_done(g, m) /\ m.type = "Load"

\* A proper answer, alone or with orders, is all that a handler sends.
LEMMA SendsReply ==
    ASSUME NEW g \in Servers, NEW m, NEW a, Proper(g, m, a), SendGS(Reply(g, a))
    PROVE  \E out : Sends(g, m, out)
<1> DEFINE out == Reply(g, a)
<1>1. /\ out \in Outs
      /\ \A h \in Servers : In(out[h]) = IF h = g THEN {a} ELSE {}
      /\ \A h \in Servers : \A M : Once(out[h], M)
  BY OutReply DEF Proper
<1>2. SendGS(out)
  OBVIOUS
<1>3. Sends(g, m, out)
  <2> HIDE DEF out
  <2> QED BY <1>1, <1>2 DEF Sends, Proper
<1> QED BY <1>3

\* The same with orders
LEMMA SendsBoth ==
    ASSUME NEW g \in Servers, NEW m, NEW a, NEW b, Proper(g, m, a), Silent(b), SendGS(Reply(g, a) ++ b)
    PROVE  \E out : Sends(g, m, out)
<1> DEFINE r == Reply(g, a)
<1>1. /\ r \in Outs
      /\ \A h \in Servers : In(r[h]) = IF h = g THEN {a} ELSE {}
      /\ \A h \in Servers : \A M : Once(r[h], M)
  BY OutReply DEF Proper
<1>2. SendGS(r ++ b) /\ b \in Outs
  BY DEF Silent
<1> HIDE DEF r
<1> DEFINE out == r ++ b
<1>3. out \in Outs
  BY <1>1, <1>2, OutBoth
<1>4. \A h \in Servers : In(out[h]) = In(r[h]) \cup In(b[h])
  BY <1>1, <1>2, OutBoth
<1>5. \A h \in Servers, c \in Conns : Once(out[h], TellOf(c))
  BY <1>1, <1>2, OutBoth DEF Silent
<1>6. SendGS(out)
  BY <1>2
<1>7. Sends(g, m, out)
  <2> HIDE DEF out
  <2> QED BY <1>1, <1>3, <1>4, <1>5, <1>6 DEF Sends, Silent, Proper
<1> QED BY <1>7

\* Every handler of the account server sends at most one answer to the
\* connection that asked, and grants it what it asked for only with the lock.
LEMMA RequestHandled ==
    ASSUME lock \in [CdKeys -> Servers \cup {"none"}],
           NEW g \in Servers, NEW m \in Requests,
           \/ charLoadCallback(g, m) \/ charSave(g, m) \/ charListCallback(g, m)
           \/ charDeleteCallback(g, m) \/ Lock_recv(g, m) \/ UCheck_recv(g, m)
    PROVE  (\E out : Sends(g, m, out)) /\ Locks(g, m)
<1>1. m.key \in CdKeys /\ (m.type # "UCheck" => m.id \in Conns)
  BY DEF Requests, Request, UCheckAnswer
<1>2. ASSUME m.type \in {"List", "Load"} PROVE m \in AskOf(m.id)
  BY <1>2 DEF AskOf
<1>3. CASE charLoadCallback(g, m)
  <2>1. m.type = "Load" /\ m.id \in Conns /\ m \in AskOf(m.id)
    BY <1>1, <1>2, <1>3 DEF charLoadCallback
  <2>2. Proper(g, m, DoneOk("LoadDone", m.id, FALSE))
    BY <2>1, DoneOkKind DEF Waits, Proper
  <2>3. CASE charLoad_locked(g, m)
    <3>1. \E out : Sends(g, m, out)
      BY <1>1, <2>2, <2>3, OrdersSilent, SendsBoth DEF charLoad_locked
    <3> QED BY <1>1, <2>3, <3>1 DEF charLoad_locked, Locks
  <2>4. CASE charLoad_failed(g, m)
    BY <2>2, <2>4, SendsReply DEF charLoad_failed, Locks
  <2>5. CASE charLoad_done(g, m)
    <3>1. Proper(g, m, DoneOk("LoadDone", m.id, TRUE))
      BY <2>1, <2>5, DoneOkKind DEF Waits, Proper
    <3>2. SendGS(Reply(g, DoneOk("LoadDone", m.id, TRUE)) ++ KickBut(g, m.key))
      BY <2>5 DEF charLoad_done
    <3>3. \E out : Sends(g, m, out)
      BY <1>1, <3>1, <3>2, OrdersSilent, SendsBoth
    <3> QED BY <2>1, <2>5, <3>3 DEF Locks
  <2> QED BY <1>3, <2>3, <2>4, <2>5 DEF charLoadCallback
<1>4. CASE charSave(g, m)
  <2>1. m.id \in Conns
    BY <1>1, <1>4 DEF charSave
  <2>2. Proper(g, m, Done("SaveDone", m.id))
    BY <2>1, DoneKind DEF Proper
  <2> QED BY <1>1, <1>4, <2>2, SendsReply DEF charSave, Locks
<1>5. CASE charListCallback(g, m)
  <2>1. m.type = "List" /\ m.id \in Conns /\ m \in AskOf(m.id)
    BY <1>1, <1>2, <1>5 DEF charListCallback
  <2>2. Proper(g, m, Done("ListDone", m.id))
    BY <2>1, DoneKind DEF Waits, Proper
  <2>3. CASE SendGS(Reply(g, Done("ListDone", m.id)))
    <3>1. \E out : Sends(g, m, out)
      BY <2>2, <2>3, SendsReply
    <3>2. Locks(g, m)
      BY <1>1, <1>5, <2>3 DEF charListCallback, charList_locked, charList_done, Locks
    <3> QED BY <3>1, <3>2
  <2>4. CASE /\ lock[m.key] # "none" /\ UNCHANGED <<lock, forced>>
             /\ SendGS(Reply(g, Done("ListDone", m.id)) ++ Reply(lock[m.key], UCheck(m.key)))
    <3>1. Silent(Reply(lock[m.key], UCheck(m.key)))
      BY <1>1, <2>4, OrdersSilent
    <3>2. \E out : Sends(g, m, out)
      BY <2>2, <2>4, <3>1, SendsBoth
    <3> QED BY <2>4, <3>2 DEF Locks
  <2> QED BY <1>5, <2>3, <2>4 DEF charListCallback, charList_locked, charList_done, isLocked
<1>6. CASE charDeleteCallback(g, m)
  <2>1. m.id \in Conns
    BY <1>1, <1>6 DEF charDeleteCallback
  <2>2. Proper(g, m, Done("DeleteDone", m.id))
    BY <2>1, DoneKind DEF Proper
  <2> QED BY <1>6, <2>2, SendsReply DEF charDeleteCallback, Locks
<1>7. CASE Lock_recv(g, m)
  <2>1. m.id \in Conns /\ isLocked(m.key) \in BOOLEAN
    BY <1>1, <1>7 DEF Lock_recv, isLocked
  <2>2. Proper(g, m, DoneOk("UnlockDone", m.id, isLocked(m.key)))
    BY <2>1, DoneOkKind DEF Proper
  <2> QED BY <1>1, <1>7, <2>2, SendsReply DEF Lock_recv, Locks
<1>8. CASE UCheck_recv(g, m)
  <2>1. ASSUME NEW out, Silent(out), SendGS(out) PROVE Sends(g, m, out)
    BY <2>1 DEF Sends, Silent
  <2>2. \E out : Sends(g, m, out)
    BY <1>1, <1>8, <2>1, OrdersSilent DEF UCheck_recv
  <2> QED BY <1>1, <1>8, <2>2 DEF UCheck_recv, Locks
<1> QED BY <1>3, <1>4, <1>5, <1>6, <1>7, <1>8

----------------------------------------------------------------------------
(* Steps of a game server. *)

\* The lock table stays: claims may go, a save may take the place of a claim.
LEMMA ClaimsKept ==
    ASSUME OneClaim, ClaimsApart, UNCHANGED <<lock, forced>>,
           \A h \in Servers, k \in CdKeys :
             /\ Claims(h, k)' \subseteq Claims(h, k)
             /\ SavesFor(h, k)' => SavesFor(h, k) \/ \E c \in Claims(h, k) : c \notin Claims(h, k)'
             /\ \A c \in Claims(h, k)' : Doomed(h, c) => Doomed(h, c)'
    PROVE  OneClaim' /\ ClaimsApart'
<1>1. OneClaim'
  <2> SUFFICES ASSUME NEW k \in CdKeys \ forced, NEW g \in Servers
               PROVE  /\ Claims(g, k)' # {} \/ SavesFor(g, k)' => lock[k] = g
                      /\ SavesFor(g, k)' => Claims(g, k)' = {}
                      /\ \A c, d \in Claims(g, k)' : c = d
    BY DEF OneClaim
  <2> QED BY DEF OneClaim
<1>2. ClaimsApart'
  <2> SUFFICES ASSUME NEW k \in CdKeys, NEW g \in Servers, NEW h \in Servers, g # h,
                      NEW c \in Claims(g, k)', NEW d \in Claims(h, k)'
               PROVE  Doomed(g, c)' \/ Doomed(h, d)'
    BY DEF ClaimsApart
  <2> QED BY DEF ClaimsApart
<1> QED BY <1>1, <1>2

\* A connection whose state and account stay, and that no new message names
LEMMA AskedKept ==
    ASSUME NEW g \in Servers, NEW d \in Conns, AskedAt(g, d),
           conn'[g][d].state = conn[g][d].state, conn'[g][d].key = conn[g][d].key,
           Once(toAC[g], AskOf(d)) => Once(toAC'[g], AskOf(d)),
           Once(toGS[g], TellOf(d)) => Once(toGS'[g], TellOf(d)),
           In(toAC'[g]) \cap AskOf(d) \subseteq In(toAC[g]) \cap AskOf(d),
           In(toGS'[g]) \cap TellOf(d) \subseteq In(toGS[g]) \cap TellOf(d)
    PROVE  AskedAt(g, d)'
BY DEF AskedAt

\* What a step of the game server g has to keep
LEMMA GameServerStep ==
    ASSUME IInv, NEW g \in up,
           conn' \in [Servers -> [Conns -> Conn]],
           toAC' \in [Servers -> Seq(Requests)],
           toGS' \in [Servers -> Seq(Answers)],
           UNCHANGED <<up, gs, lock, store, forced>>,
           \A h \in Servers \ {g} : /\ toAC'[h] = toAC[h] /\ toGS'[h] = toGS[h]
                                    /\ \A d \in Conns : conn'[h][d] = conn[h][d],
           \A d \in Conns : conn'[g][d].state \notin {"FREE", "NOTLOGIN"} => conn'[g][d].key \in CdKeys,
           \A d \in Conns : InUse(g, d)' => AskedAt(g, d)',
           \A k \in CdKeys, d \in Conns :
             d \in Claims(g, k)' => d \in Claims(g, k) /\ (Doomed(g, d) => Doomed(g, d)'),
           \A k \in CdKeys : SavesFor(g, k)' => SavesFor(g, k) \/ \E d \in Claims(g, k) : d \notin Claims(g, k)'
    PROVE  IInv'
<1>1. g \in Servers /\ g \in gs
  BY DEF IInv, TypeInv, Connected
<1>2. TypeInv'
  BY DEF IInv, TypeInv, KeyKnown
<1>3. Connected'
  <2>1. ASSUME NEW h \in Servers \ up PROVE toGS'[h] = <<>> /\ \A c \in Conns : conn'[h][c].state = "FREE"
    <3>1. h # g /\ toGS'[h] = toGS[h] /\ \A c \in Conns : conn'[h][c] = conn[h][c]
      BY <2>1
    <3>2. toGS[h] = <<>> /\ \A c \in Conns : conn[h][c].state = "FREE"
      BY <2>1 DEF IInv, Connected
    <3> QED BY <3>1, <3>2
  <2>2. ASSUME NEW h \in Servers \ gs PROVE toAC'[h] = <<>>
    BY <1>1, <2>2 DEF IInv, Connected
  <2> QED BY <2>1, <2>2 DEF IInv, Connected
<1>4. AskedOnce'
  <2> SUFFICES ASSUME NEW h \in Servers, NEW d \in Conns, InUse(h, d)'
               PROVE  AskedAt(h, d)'
    BY DEF AskedOnce
  <2>1. CASE h = g
    BY <2>1
  <2>2. CASE h # g
    <3>1. toAC'[h] = toAC[h] /\ toGS'[h] = toGS[h] /\ conn'[h][d] = conn[h][d]
      BY <2>2
    <3>2. AskedAt(h, d)
      BY <3>1 DEF IInv, AskedOnce, InUse
    <3> QED BY <3>1, <3>2, AskedKept
  <2> QED BY <2>1, <2>2
<1>5. OneClaim' /\ ClaimsApart'
  <2>1. ASSUME NEW h \in Servers, NEW k \in CdKeys
        PROVE  /\ Claims(h, k)' \subseteq Claims(h, k)
               /\ SavesFor(h, k)' => SavesFor(h, k) \/ \E c \in Claims(h, k) : c \notin Claims(h, k)'
               /\ \A c \in Claims(h, k)' : Doomed(h, c) => Doomed(h, c)'
    <3>1. CASE h = g
      BY <3>1 DEF Claims, SessionsOf, Granted
    <3>2. CASE h # g
      <4>1. Claims(h, k)' = Claims(h, k)
        BY <3>2 DEF Claims, SessionsOf, Granted, Online, InUse
      <4>2. SavesFor(h, k)' = SavesFor(h, k)
        BY <3>2 DEF SavesFor
      <4>3. \A c \in Conns : Doomed(h, c)' = Doomed(h, c)
        BY <3>2 DEF Doomed
      <4> QED BY <4>1, <4>2, <4>3 DEF Claims, SessionsOf, Granted
    <3> QED BY <3>1, <3>2
  <2> QED BY <2>1, ClaimsKept DEF IInv
<1> QED BY <1>2, <1>3, <1>4, <1>5 DEF IInv

\* A connection that waits for nothing has nothing under way.
LEMMA NothingAsked ==
    ASSUME NEW g \in Servers, NEW d \in Conns, AskedAt(g, d),
           conn[g][d].state \notin {"WHILEDOWNLOADCHARLIST", "WHILELOGIN"}
    PROVE  In(toAC[g]) \cap AskOf(d) = {} /\ In(toGS[g]) \cap TellOf(d) = {}
BY DEF AskedAt, Waits

\* A connection with a grant under way waits for it.
LEMMA GrantedWaits ==
    ASSUME NEW g \in Servers, NEW d \in Conns, AskedAt(g, d), Grant(d) \in In(toGS[g])
    PROVE  conn[g][d].state = "WHILELOGIN" /\ Grant(d) \in TellOf(d)
<1>1. Grant(d) \in TellOf(d) /\ Grant(d).type = "LoadDone"
  BY DEF Grant, DoneOk, TellOf, Answers, Answer
<1> QED BY <1>1 DEF AskedAt, Waits

\* No request but List and Load makes a connection wait, and only SaveUnlock
\* is a save that ends a session.
LEMMA RequestKind ==
    ASSUME NEW k \in CdKeys, NEW c \in Conns,
           NEW t \in {"List", "Load", "Save", "SaveUnlock", "Delete", "Unlock"}
    PROVE  /\ Req(t, k, c) \in Requests /\ Req(t, k, c).type = t
           /\ Req(t, k, c).key = k /\ Req(t, k, c).id = c
           /\ \A d : Req(t, k, c) \in AskOf(d) => t \in {"List", "Load"} /\ d = c
BY DEF Req, Requests, Request, AskOf


\* Steps of clients of g that change at most the connection c in other fields
\* than close, and write at most one request about it
LEMMA ClientStep ==
    ASSUME IInv, NEW g \in up, NEW c \in Conns,
           conn' \in [Servers -> [Conns -> Conn]],
           \A h \in Servers \ {g}, d \in Conns : conn'[h][d] = conn[h][d],
           \A d \in Conns \ {c} : /\ conn'[g][d].state = conn[g][d].state
                                  /\ conn'[g][d].key = conn[g][d].key
                                  /\ conn[g][d].close => conn'[g][d].close,
           conn'[g][c].state \notin {"FREE", "NOTLOGIN"} => conn'[g][c].key \in CdKeys,
           UNCHANGED <<up, gs, lock, store, toGS, forced>>,
           \/ UNCHANGED toAC
           \/ \E k \in CdKeys, t \in {"List", "Load", "Save", "SaveUnlock", "Delete", "Unlock"} :
                /\ SendAC(g, Req(t, k, c))
                /\ t = "SaveUnlock" => c \in Claims(g, k) /\ c \notin Claims(g, k)',
           InUse(g, c)' => AskedAt(g, c)',
           \A k \in CdKeys : c \in Claims(g, k)' => c \in Claims(g, k) /\ conn'[g][c].key = conn[g][c].key
                                                  /\ (conn[g][c].close => conn'[g][c].close)
    PROVE  IInv'
<1>1. /\ g \in Servers
      /\ conn \in [Servers -> [Conns -> Conn]]
      /\ toAC \in [Servers -> Seq(Requests)]
      /\ toGS \in [Servers -> Seq(Answers)]
      /\ KeyKnown
      /\ AskedOnce
  BY DEF IInv, TypeInv
<1>2. /\ toAC' \in [Servers -> Seq(Requests)]
      /\ \A h \in Servers \ {g} : toAC'[h] = toAC[h]
      /\ \A d \in Conns \ {c} : /\ Once(toAC[g], AskOf(d)) => Once(toAC'[g], AskOf(d))
                                /\ In(toAC'[g]) \cap AskOf(d) \subseteq In(toAC[g]) \cap AskOf(d)
      /\ \A k \in CdKeys : SavesFor(g, k)' => SavesFor(g, k) \/ \E d \in Claims(g, k) : d \notin Claims(g, k)'
  <2>1. CASE UNCHANGED toAC
    BY <1>1, <2>1 DEF SavesFor
  <2>2. CASE \E k \in CdKeys, t \in {"List", "Load", "Save", "SaveUnlock", "Delete", "Unlock"} :
                /\ SendAC(g, Req(t, k, c))
                /\ t = "SaveUnlock" => c \in Claims(g, k) /\ c \notin Claims(g, k)'
    <3> PICK k \in CdKeys, t \in {"List", "Load", "Save", "SaveUnlock", "Delete", "Unlock"} :
               /\ SendAC(g, Req(t, k, c))
               /\ t = "SaveUnlock" => c \in Claims(g, k) /\ c \notin Claims(g, k)'
      BY <2>2
    <3> DEFINE r == Req(t, k, c)
    <3>1. r \in Requests /\ r.type = t /\ r.key = k /\ \A d \in Conns \ {c} : r \notin AskOf(d)
      BY RequestKind
    <3>2. SendAC(g, r)
      OBVIOUS
    <3> HIDE DEF r
    <3>3. /\ toAC' \in [Servers -> Seq(Requests)]
          /\ \A h \in Servers \ {g} : toAC'[h] = toAC[h]
          /\ In(toAC'[g]) = In(toAC[g]) \cup {r}
          /\ \A M : Once(toAC[g], M) /\ (r \notin M \/ In(toAC[g]) \cap M = {}) => Once(toAC'[g], M)
      BY <1>1, <3>1, <3>2, Written
    <3>4. ASSUME NEW k2 \in CdKeys, SavesFor(g, k2)'
          PROVE  SavesFor(g, k2) \/ \E d \in Claims(g, k2) : d \notin Claims(g, k2)'
      <4>1. PICK m \in In(toAC'[g]) : m.type = "SaveUnlock" /\ m.key = k2
        BY <3>4 DEF SavesFor
      <4> QED BY <3>1, <3>3, <4>1 DEF SavesFor
    <3> QED BY <3>1, <3>3, <3>4
  <2> QED BY <2>1, <2>2
<1>3. ASSUME NEW d \in Conns, InUse(g, d)' PROVE AskedAt(g, d)'
  <2>1. CASE d = c
    BY <1>3, <2>1
  <2>2. CASE d # c
    <3>1. AskedAt(g, d)
      BY <1>1, <1>3, <2>2 DEF AskedOnce, InUse
    <3> QED BY <1>1, <1>2, <2>2, <3>1, AskedKept
  <2> QED BY <2>1, <2>2
<1>4. \A d \in Conns : conn'[g][d].state \notin {"FREE", "NOTLOGIN"} => conn'[g][d].key \in CdKeys
  BY <1>1 DEF KeyKnown
<1>5. ASSUME NEW k \in CdKeys, NEW d \in Conns, d \in Claims(g, k)'
      PROVE  d \in Claims(g, k) /\ (Doomed(g, d) => Doomed(g, d)')
  <2>1. d \in Claims(g, k) /\ conn'[g][d].key = conn[g][d].key /\ (conn[g][d].close => conn'[g][d].close)
    <3>1. CASE d = c
      BY <1>5, <3>1
    <3>2. CASE d # c
      BY <1>5, <3>2 DEF Claims, SessionsOf, Granted, Online, InUse
    <3> QED BY <3>1, <3>2
  <2> QED BY <2>1 DEF Doomed
<1> QED BY <1>1, <1>2, <1>3, <1>4, <1>5, GameServerStep

\* The facts about a connection that its steps start from
LEMMA ConnFacts ==
    ASSUME IInv, NEW g \in Servers, NEW c \in Conns
    PROVE  /\ conn[g][c] \in Conn /\ conn[g][c].state \in States
           /\ conn[g][c].key \in CdKeys \cup {"none"}
           /\ InUse(g, c) => AskedAt(g, c)
           /\ conn[g][c].state \notin {"FREE", "NOTLOGIN"} => conn[g][c].key \in CdKeys
           /\ toAC[g] \in Seq(Requests) /\ toGS[g] \in Seq(Answers)
           /\ conn \in [Servers -> [Conns -> Conn]]
           /\ toAC \in [Servers -> Seq(Requests)] /\ toGS \in [Servers -> Seq(Answers)]
<1>1. conn[g][c] \in Conn
  BY DEF IInv, TypeInv
<1>2. conn[g][c].state \in States /\ conn[g][c].key \in CdKeys \cup {"none"}
  BY <1>1 DEF Conn
<1> QED BY <1>1, <1>2 DEF IInv, TypeInv, AskedOnce, KeyKnown

\* accept: the connection is new, and so is its fdid.
LEMMA AcceptStep ==
    ASSUME IInv, NEW g \in Servers, NEW c \in Conns, Accept(g, c)
    PROVE  IInv'
<1>1. g \in up /\ UNCHANGED <<up, gs, lock, store, toAC, toGS, forced>>
  BY DEF Accept, Room
<1>2. NewConn \in Conn /\ NewConn.state = "NOTLOGIN"
  BY DEF NewConn, Conn, States
<1>3. /\ conn' \in [Servers -> [Conns -> Conn]]
      /\ conn'[g][c].state = "NOTLOGIN"
      /\ \A h \in Servers, d \in Conns : h # g \/ d # c => conn'[h][d] = conn[h][d]
  BY <1>2, ConnFacts DEF Accept
<1>4. In(toAC[g]) \cap AskOf(c) = {} /\ In(toGS[g]) \cap TellOf(c) = {}
  <2>1. About(toAC[g], c) = {} /\ About(toGS[g], c) = {}
    BY DEF Accept
  <2>2. ASSUME NEW m \in AskOf(c) \cup TellOf(c) PROVE "id" \in DOMAIN m /\ m.id = c
    BY DEF AskOf, TellOf, Requests, Request, UCheckAnswer, Answers, Answer, Order
  <2> QED BY <2>1, <2>2 DEF About
<1>5. AskedAt(g, c)'
  BY <1>1, <1>4 DEF AskedAt, Once, In
<1>6. \A k \in CdKeys : c \notin Claims(g, k)'
  <2>1. Grant(c) \in TellOf(c)
    BY DEF Grant, DoneOk, TellOf, Answers, Answer
  <2> QED BY <1>1, <1>3, <1>4, <2>1 DEF Claims, SessionsOf, Granted, Online
<1> QED BY <1>1, <1>3, <1>5, <1>6, ClientStep

\* lssproto_ClientLogin_recv: the account changes while nothing is asked.
LEMMA ClientLoginStep ==
    ASSUME IInv, NEW g \in Servers, NEW c \in Conns, NEW k \in CdKeys, ClientLogin(g, c, k)
    PROVE  IInv'
<1>1. g \in up /\ UNCHANGED <<up, gs, lock, store, toAC, toGS, forced>> /\ conn[g][c].state = "NOTLOGIN"
  BY DEF ClientLogin, Room
<1>2. AskedAt(g, c)
  BY <1>1, ConnFacts DEF InUse
<1>3. [conn[g][c] EXCEPT !.key = k] \in Conn
  BY ConnFacts DEF Conn
<1>4. /\ conn' \in [Servers -> [Conns -> Conn]]
      /\ conn'[g][c] = [conn[g][c] EXCEPT !.key = k]
      /\ \A h \in Servers, d \in Conns : h # g \/ d # c => conn'[h][d] = conn[h][d]
  BY <1>3, ConnFacts DEF ClientLogin
<1>5. conn'[g][c].state = "NOTLOGIN"
  BY <1>1, <1>4, ConnFacts DEF Conn
<1>6. In(toAC[g]) \cap AskOf(c) = {} /\ In(toGS[g]) \cap TellOf(c) = {}
  BY <1>1, <1>2, NothingAsked
<1>7. AskedAt(g, c)'
  BY <1>1, <1>2, <1>6 DEF AskedAt
<1>8. \A j \in CdKeys : c \notin Claims(g, j)'
  <2>1. Grant(c) \in TellOf(c)
    BY DEF Grant, DoneOk, TellOf, Answers, Answer
  <2> QED BY <1>1, <1>5, <1>6, <2>1 DEF Claims, SessionsOf, Granted, Online
<1>9. /\ conn' \in [Servers -> [Conns -> Conn]]
      /\ \A h \in Servers, d \in Conns : h # g \/ d # c => conn'[h][d] = conn[h][d]
  BY <1>4
<1> QED BY <1>1, <1>5, <1>7, <1>8, <1>9, ClientStep

\* A client that asks waits for the answer, or for nothing that names it.
LEMMA AskStep ==
    ASSUME IInv, NEW g \in Servers, NEW c \in Conns, NEW t \in {"List", "Load", "Save", "Delete"},
           NEW s \in States \ {"FREE", "NOTLOGIN", "LOGIN"},
           t \in {"List", "Load"} => s = Waits(t), t \in {"Save", "Delete"} => s \notin {"WHILELOGIN", "WHILEDOWNLOADCHARLIST"},
           Room(g), conn[g][c].state = "NOTLOGIN", conn[g][c].key # "none",
           conn' \in [Servers -> [Conns -> Conn]],
           conn'[g][c].state = s, conn'[g][c].key = conn[g][c].key,
           \A h \in Servers \ {g}, d \in Conns : conn'[h][d] = conn[h][d],
           \A d \in Conns \ {c} : /\ conn'[g][d].state = conn[g][d].state
                                  /\ conn'[g][d].key = conn[g][d].key
                                  /\ conn[g][d].close => conn'[g][d].close,
           SendAC(g, Req(t, conn[g][c].key, c)),
           UNCHANGED <<up, gs, lock, store, toGS, forced>>
    PROVE  IInv'
<1> DEFINE k == conn[g][c].key
           r == Req(t, k, c)
<1>1. g \in up /\ k \in CdKeys /\ AskedAt(g, c)
  BY ConnFacts DEF Room, InUse
<1>2. In(toAC[g]) \cap AskOf(c) = {} /\ In(toGS[g]) \cap TellOf(c) = {}
  BY <1>1, NothingAsked
<1>3. r \in Requests /\ r.type = t /\ r.key = k /\ (r \in AskOf(c) => t \in {"List", "Load"})
  BY <1>1, RequestKind
<1>4. /\ In(toAC'[g]) = In(toAC[g]) \cup {r}
      /\ \A M : Once(toAC[g], M) /\ (r \notin M \/ In(toAC[g]) \cap M = {}) => Once(toAC'[g], M)
  <2>1. SendAC(g, r)
    OBVIOUS
  <2> HIDE DEF r
  <2> QED BY <1>3, <2>1, ConnFacts, Written
<1>5. AskedAt(g, c)'
  <2> HIDE DEF r
  <2>1. Once(toAC'[g], AskOf(c)) /\ Once(toGS'[g], TellOf(c))
    BY <1>1, <1>2, <1>4 DEF AskedAt
  <2>2. In(toGS'[g]) \cap TellOf(c) = {}
    BY <1>2
  <2>3. ASSUME NEW m \in In(toAC'[g]) \cap AskOf(c)
        PROVE  conn'[g][c].state = Waits(m.type) /\ conn'[g][c].key = m.key
    BY <1>2, <1>3, <1>4, <2>3
  <2> QED BY <2>1, <2>2, <2>3 DEF AskedAt
<1>6. \A j \in CdKeys : c \notin Claims(g, j)'
  <2>1. Grant(c) \in TellOf(c)
    BY DEF Grant, DoneOk, TellOf, Answers, Answer
  <2> QED BY <1>1, <1>2, <2>1 DEF Claims, SessionsOf, Granted, Online
<1>7. \E j \in CdKeys, u \in {"List", "Load", "Save", "SaveUnlock", "Delete", "Unlock"} :
        /\ SendAC(g, Req(u, j, c))
        /\ u = "SaveUnlock" => c \in Claims(g, j) /\ c \notin Claims(g, j)'
  BY <1>1
<1> HIDE DEF k, r
<1>8. conn'[g][c].key \in CdKeys
  BY <1>1 DEF k
<1> QED BY <1>1, <1>5, <1>6, <1>7, <1>8, ClientStep

\* lssproto_CharLogin_recv, lssproto_CharDelete_recv, lssproto_CreateNewChar_recv
LEMMA AskSteps ==
    ASSUME IInv, NEW g \in Servers, NEW c \in Conns,
           CharLogin(g, c) \/ CharDelete(g, c) \/ CreateNewChar(g, c)
    PROVE  IInv'
<1>1. PICK t \in {"Load", "Save", "Delete"}, s \in {"WHILELOGIN", "WHILECHARDELETE", "WHILECREATE"} :
         /\ Ask(g, c, t, s)
         /\ t = "Load" => s = Waits(t)
         /\ t \in {"Save", "Delete"} => s \notin {"WHILELOGIN", "WHILEDOWNLOADCHARLIST"}
  <2>1. CASE CharLogin(g, c)
    BY <2>1 DEF CharLogin, Waits
  <2>2. CASE CharDelete(g, c)
    BY <2>2 DEF CharDelete
  <2>3. CASE CreateNewChar(g, c)
    BY <2>3 DEF CreateNewChar
  <2> QED BY <2>1, <2>2, <2>3
<1>2. s \in States \ {"FREE", "NOTLOGIN", "LOGIN"}
  BY DEF States
<1>3. /\ conn' \in [Servers -> [Conns -> Conn]]
      /\ conn'[g][c].state = s
      /\ \A h \in Servers, d \in Conns : h # g \/ d # c => conn'[h][d] = conn[h][d]
      /\ \A h \in Servers, d \in Conns : /\ conn'[h][d].key = conn[h][d].key
                                         /\ conn'[h][d].close = conn[h][d].close
  <2>1. SetState(g, c, s) /\ s \in States /\ conn \in [Servers -> [Conns -> Conn]]
    BY <1>1, <1>2, ConnFacts DEF Ask
  <2>2. /\ conn' \in [Servers -> [Conns -> Conn]]
        /\ conn'[g][c].state = s
        /\ \A h \in Servers, d \in Conns : /\ conn'[h][d].key = conn[h][d].key
                                           /\ conn'[h][d].close = conn[h][d].close
    BY <2>1, StateSet
  <2>3. \A h \in Servers, d \in Conns : h # g \/ d # c => conn'[h][d] = conn[h][d]
    BY <2>1 DEF SetState
  <2> QED BY <2>2, <2>3
<1>4. \A d \in Conns \ {c} : /\ conn'[g][d].state = conn[g][d].state
                             /\ conn'[g][d].key = conn[g][d].key
                             /\ conn[g][d].close => conn'[g][d].close
  BY <1>3
<1>5. conn'[g][c].key = conn[g][c].key /\ \A h \in Servers \ {g}, d \in Conns : conn'[h][d] = conn[h][d]
  BY <1>3
<1>6. /\ Room(g) /\ conn[g][c].state = "NOTLOGIN" /\ conn[g][c].key # "none"
      /\ SendAC(g, Req(t, conn[g][c].key, c)) /\ UNCHANGED <<up, gs, lock, store, toGS, forced>>
  BY <1>1 DEF Ask
<1> QED BY <1>1, <1>2, <1>3, <1>4, <1>5, <1>6, AskStep

\* lssproto_CharList_recv: the sessions of the account are asked to close.
LEMMA CharListStep ==
    ASSUME IInv, NEW g \in Servers, NEW c \in Conns, CharList(g, c)
    PROVE  IInv'
<1> DEFINE k == conn[g][c].key
           C == setCloseRequest(g, SessionsOf(g, k))
<1>1. conn' = [conn EXCEPT ![g] = [C EXCEPT ![c].state = "WHILEDOWNLOADCHARLIST"]]
  BY DEF CharList
<1>2. /\ C \in [Conns -> Conn]
      /\ \A d \in Conns : /\ C[d].state = conn[g][d].state /\ C[d].key = conn[g][d].key
                          /\ conn[g][d].close => C[d].close
  BY ConnFacts, CloseRequested
<1> HIDE DEF C
<1>3. conn \in [Servers -> [Conns -> Conn]]
  BY ConnFacts
<1>4. "WHILEDOWNLOADCHARLIST" \in States \ {"FREE", "NOTLOGIN", "LOGIN"} /\ Waits("List") = "WHILEDOWNLOADCHARLIST"
  BY DEF States, Waits
<1>5. [C[c] EXCEPT !.state = "WHILEDOWNLOADCHARLIST"] \in Conn
  BY <1>2, <1>4 DEF Conn
<1>6. /\ conn' \in [Servers -> [Conns -> Conn]]
      /\ conn'[g][c] = [C[c] EXCEPT !.state = "WHILEDOWNLOADCHARLIST"]
      /\ \A d \in Conns \ {c} : conn'[g][d] = C[d]
      /\ \A h \in Servers \ {g}, d \in Conns : conn'[h][d] = conn[h][d]
  BY <1>1, <1>2, <1>3, <1>5
<1>7. conn'[g][c].state = "WHILEDOWNLOADCHARLIST" /\ conn'[g][c].key = conn[g][c].key
  BY <1>2, <1>6 DEF Conn
<1>8. /\ \A d \in Conns \ {c} : /\ conn'[g][d].state = conn[g][d].state
                                /\ conn'[g][d].key = conn[g][d].key
                                /\ conn[g][d].close => conn'[g][d].close
      /\ conn' \in [Servers -> [Conns -> Conn]]
      /\ \A h \in Servers \ {g}, d \in Conns : conn'[h][d] = conn[h][d]
  BY <1>2, <1>6
<1>9. /\ Room(g) /\ conn[g][c].state = "NOTLOGIN" /\ conn[g][c].key # "none"
      /\ SendAC(g, Req("List", conn[g][c].key, c)) /\ UNCHANGED <<up, gs, lock, store, toGS, forced>>
  BY DEF CharList
<1> QED BY <1>4, <1>7, <1>8, <1>9, AskStep

\* CHAR_logout, and CONNECT_endOne of a session: the save takes the place of the session.
LEMMA LogoutStep ==
    ASSUME IInv, NEW g \in up, NEW c \in Conns, Online(g, c),
           NEW r \in Conn, r.state \in {"FREE", "WHILELOGOUTSAVE"},
           r.state # "FREE" => r.key = conn[g][c].key /\ r.close = conn[g][c].close,
           conn' = [conn EXCEPT ![g][c] = r],
           SendAC(g, Req("SaveUnlock", conn[g][c].key, c)),
           UNCHANGED <<up, gs, lock, store, toGS, forced>>
    PROVE  IInv'
<1>1. g \in Servers /\ conn[g][c].key \in CdKeys /\ AskedAt(g, c)
  BY ConnFacts DEF IInv, TypeInv, Online, InUse
<1>2. In(toAC[g]) \cap AskOf(c) = {} /\ In(toGS[g]) \cap TellOf(c) = {}
  BY <1>1, NothingAsked DEF Online
<1>3. /\ conn' \in [Servers -> [Conns -> Conn]]
      /\ conn'[g][c] = r
      /\ \A h \in Servers, d \in Conns : h # g \/ d # c => conn'[h][d] = conn[h][d]
  BY <1>1, ConnFacts
<1> DEFINE k == conn[g][c].key
           s == Req("SaveUnlock", k, c)
<1>4. s \in Requests /\ s \notin AskOf(c)
  BY <1>1, RequestKind
<1>5. /\ In(toAC'[g]) = In(toAC[g]) \cup {s}
      /\ \A M : Once(toAC[g], M) /\ (s \notin M \/ In(toAC[g]) \cap M = {}) => Once(toAC'[g], M)
  <2>1. SendAC(g, s)
    OBVIOUS
  <2> HIDE DEF s
  <2> QED BY <1>1, <1>4, <2>1, ConnFacts, Written
<1>6. AskedAt(g, c)'
  <2> HIDE DEF s
  <2> QED BY <1>1, <1>2, <1>4, <1>5 DEF AskedAt
<1>7. \A j \in CdKeys : c \notin Claims(g, j)'
  <2>1. Grant(c) \in TellOf(c)
    BY DEF Grant, DoneOk, TellOf, Answers, Answer
  <2> QED BY <1>1, <1>2, <1>3, <2>1 DEF Claims, SessionsOf, Granted, Online
<1>8. c \in Claims(g, k)
  BY <1>1 DEF Claims, SessionsOf
<1>9. \E j \in CdKeys, u \in {"List", "Load", "Save", "SaveUnlock", "Delete", "Unlock"} :
        /\ SendAC(g, Req(u, j, c))
        /\ u = "SaveUnlock" => c \in Claims(g, j) /\ c \notin Claims(g, j)'
  BY <1>1, <1>7, <1>8
<1> HIDE DEF k, s
<1>10. conn'[g][c].state \notin {"FREE", "NOTLOGIN"} => conn'[g][c].key \in CdKeys
  BY <1>1, <1>3
<1> QED BY <1>1, <1>3, <1>6, <1>7, <1>9, <1>10, ClientStep

\* lssproto_CharLogout_recv
LEMMA CharLogoutStep ==
    ASSUME IInv, NEW g \in Servers, NEW c \in Conns, CharLogout(g, c)
    PROVE  IInv'
<1> DEFINE r == [conn[g][c] EXCEPT !.state = "WHILELOGOUTSAVE"]
<1>1. conn[g][c] \in Conn
  BY ConnFacts
<1>2. /\ r \in Conn /\ r.state = "WHILELOGOUTSAVE"
      /\ r.key = conn[g][c].key /\ r.close = conn[g][c].close
  BY <1>1 DEF Conn, States
<1>3. conn' = [conn EXCEPT ![g][c] = r]
  BY ConnFacts DEF CharLogout, SetState
<1>4. /\ g \in up /\ Online(g, c)
      /\ SendAC(g, Req("SaveUnlock", conn[g][c].key, c)) /\ UNCHANGED <<up, gs, lock, store, toGS, forced>>
  BY DEF CharLogout, Room
<1> HIDE DEF r
<1> QED BY <1>2, <1>3, <1>4, LogoutStep

\* chardatasavecheck: nothing waits for the answer to a save.
LEMMA PeriodicSaveStep ==
    ASSUME IInv, NEW g \in Servers, NEW c \in Conns, PeriodicSave(g, c)
    PROVE  IInv'
<1> DEFINE k == conn[g][c].key
           s == Req("Save", k, c)
<1>1. /\ g \in up /\ Online(g, c) /\ SendAC(g, s)
      /\ UNCHANGED <<conn, up, gs, lock, store, toGS, forced>>
  BY DEF PeriodicSave, Room
<1>2. k \in CdKeys /\ AskedAt(g, c) /\ conn \in [Servers -> [Conns -> Conn]]
  BY <1>1, ConnFacts DEF Online, InUse
<1>3. s \in Requests /\ s \notin AskOf(c)
  BY <1>2, RequestKind
<1>4. \E j \in CdKeys, u \in {"List", "Load", "Save", "SaveUnlock", "Delete", "Unlock"} :
        /\ SendAC(g, Req(u, j, c))
        /\ u = "SaveUnlock" => c \in Claims(g, j) /\ c \notin Claims(g, j)'
  BY <1>1, <1>2
<1>5. AskedAt(g, c)'
  <2>1. SendAC(g, s)
    BY <1>1
  <2> HIDE DEF s
  <2>2. /\ In(toAC'[g]) = In(toAC[g]) \cup {s}
        /\ \A M : Once(toAC[g], M) /\ (s \notin M \/ In(toAC[g]) \cap M = {}) => Once(toAC'[g], M)
    BY <1>3, <2>1, ConnFacts, Written
  <2> QED BY <1>1, <1>2, <1>3, <2>2, AskedKept
<1>6. \A j \in CdKeys : c \in Claims(g, j)' => c \in Claims(g, j)
  BY <1>1 DEF Claims, SessionsOf, Granted, Online, InUse
<1> HIDE DEF k, s
<1>7. conn'[g][c].state \notin {"FREE", "NOTLOGIN"} => conn'[g][c].key \in CdKeys
  BY <1>1, <1>2 DEF k
<1> QED BY <1>1, <1>2, <1>4, <1>5, <1>6, <1>7, ClientStep

\* CONNECT_endOne
LEMMA EndOneStep ==
    ASSUME IInv, NEW g \in up, NEW c \in Conns, EndOne(g, c)
    PROVE  IInv'
<1>1. g \in Servers /\ FreeConn \in Conn /\ FreeConn.state = "FREE"
  BY DEF IInv, TypeInv, FreeConn, Conn, States
<1>2. conn' = [conn EXCEPT ![g][c] = FreeConn] /\ UNCHANGED <<up, gs, lock, store, toGS, forced>>
  BY DEF EndOne
<1>3. CASE Online(g, c) /\ SendAC(g, Req("SaveUnlock", conn[g][c].key, c))
  BY <1>1, <1>2, <1>3, LogoutStep
<1>4. CASE ~ Online(g, c) /\ UNCHANGED toAC
  <2>1. /\ conn' \in [Servers -> [Conns -> Conn]]
        /\ conn'[g][c].state = "FREE"
        /\ \A h \in Servers, d \in Conns : h # g \/ d # c => conn'[h][d] = conn[h][d]
    BY <1>1, <1>2, ConnFacts
  <2>2. ~ InUse(g, c)' /\ \A k \in CdKeys : c \notin Claims(g, k)'
    BY <2>1 DEF InUse, Claims, SessionsOf, Granted, Online
  <2> QED BY <1>2, <1>4, <2>1, <2>2, ClientStep
<1> QED BY <1>3, <1>4 DEF EndOne

\* Whatever a client does, and whichever connection is closed
LEMMA ClientSteps ==
    ASSUME IInv, NEW g \in Servers, NEW c \in Conns, Client(g, c) \/ CloseTurn(g, c)
    PROVE  IInv'
<1>1. CASE Accept(g, c)
  BY <1>1, AcceptStep
<1>2. CASE \E k \in CdKeys : ClientLogin(g, c, k)
  BY <1>2, ClientLoginStep
<1>3. CASE CharList(g, c)
  BY <1>3, CharListStep
<1>4. CASE CharLogin(g, c) \/ CharDelete(g, c) \/ CreateNewChar(g, c)
  BY <1>4, AskSteps
<1>5. CASE CharLogout(g, c)
  BY <1>5, CharLogoutStep
<1>6. CASE PeriodicSave(g, c)
  BY <1>6, PeriodicSaveStep
<1>7. CASE Disconnect(g, c) \/ CloseTurn(g, c)
  BY <1>7, EndOneStep DEF Disconnect, CloseTurn, Room
<1> QED BY <1>1, <1>2, <1>3, <1>4, <1>5, <1>6, <1>7 DEF Client

----------------------------------------------------------------------------
(* Answers and orders that a game server takes from its stream. *)

\* The stream of g after its first message
Taking(g, m) ==
    /\ m \in Answers
    /\ toGS' \in [Servers -> Seq(Answers)]
    /\ \A h \in Servers \ {g} : toGS'[h] = toGS[h]
    /\ In(toGS[g]) = {m} \cup In(toGS'[g])
    /\ \A M : Once(toGS[g], M) => Once(toGS'[g], M) /\ (m \in M => In(toGS'[g]) \cap M = {})
    /\ UNCHANGED <<up, gs, lock, store, forced>>

\* HandleGS takes the first message.
LEMMA TakenGS ==
    ASSUME IInv, NEW g \in Servers, HandleGS(g)
    PROVE  Taking(g, Head(toGS[g])) /\ g \in up
<1>1. toGS \in [Servers -> Seq(Answers)] /\ toGS[g] # <<>> /\ toGS' = [toGS EXCEPT ![g] = Tail(@)]
  BY DEF HandleGS, TakeGS, IInv, TypeInv
<1>2. toGS[g] \in Seq(Answers) /\ toGS'[g] = Tail(toGS[g]) /\ \A h \in Servers \ {g} : toGS'[h] = toGS[h]
  BY <1>1
<1>3. /\ Head(toGS[g]) \in Answers /\ Tail(toGS[g]) \in Seq(Answers)
      /\ In(toGS[g]) = {Head(toGS[g])} \cup In(Tail(toGS[g]))
      /\ \A M : Once(toGS[g], M) =>
           Once(Tail(toGS[g]), M) /\ (Head(toGS[g]) \in M => In(Tail(toGS[g])) \cap M = {})
  BY <1>1, <1>2, InTail
<1>4. toGS' \in [Servers -> Seq(Answers)]
  BY <1>1, <1>3
<1> QED BY <1>2, <1>3, <1>4 DEF HandleGS, Taking

\* What an answer does to the connections of g: none is moved but c, and only
\* a grant brings it online; what g writes is neither awaited nor a save.
LEMMA AnswerStep ==
    ASSUME IInv, NEW g \in up, NEW m, Taking(g, m), NEW c,
           conn' \in [Servers -> [Conns -> Conn]],
           \A h \in Servers \ {g}, d \in Conns : conn'[h][d] = conn[h][d],
           \A d \in Conns : /\ conn'[g][d].key = conn[g][d].key
                            /\ conn[g][d].close => conn'[g][d].close
                            /\ d # c => conn'[g][d].state = conn[g][d].state,
           c \in Conns => \/ conn'[g][c].state = conn[g][c].state
                          \/ /\ InUse(g, c)
                             /\ In(toAC[g]) \cap AskOf(c) = {} /\ In(toGS'[g]) \cap TellOf(c) = {}
                             /\ \/ conn'[g][c].state = "NOTLOGIN"
                                \/ /\ conn'[g][c].state \in {"LOGIN", "WHILECANNOTLOGIN"}
                                   /\ conn[g][c].key \in CdKeys /\ m = Grant(c),
           \/ UNCHANGED toAC
           \/ \E r \in Requests : SendAC(g, r) /\ r.type \in {"Unlock", "UCheck"},
           \A k \in CdKeys, d \in Conns :
              d \in Claims(g, k)' /\ conn[g][d].key = k /\ m = Kick(k) /\ InUse(g, d) => conn'[g][d].close
    PROVE  IInv'
<1>1. /\ g \in Servers
      /\ conn \in [Servers -> [Conns -> Conn]]
      /\ toAC \in [Servers -> Seq(Requests)]
      /\ toGS \in [Servers -> Seq(Answers)]
      /\ KeyKnown
      /\ AskedOnce
  BY DEF IInv, TypeInv
<1>2. /\ toAC' \in [Servers -> Seq(Requests)]
      /\ \A h \in Servers \ {g} : toAC'[h] = toAC[h]
      /\ \A d \in Conns : /\ Once(toAC[g], AskOf(d)) => Once(toAC'[g], AskOf(d))
                          /\ In(toAC'[g]) \cap AskOf(d) \subseteq In(toAC[g]) \cap AskOf(d)
      /\ \A k \in CdKeys : SavesFor(g, k)' => SavesFor(g, k)
  <2>1. CASE UNCHANGED toAC
    BY <1>1, <2>1 DEF SavesFor
  <2>2. CASE \E r \in Requests : SendAC(g, r) /\ r.type \in {"Unlock", "UCheck"}
    <3> PICK r \in Requests : SendAC(g, r) /\ r.type \in {"Unlock", "UCheck"}
      BY <2>2
    <3>1. \A d \in Conns : r \notin AskOf(d)
      BY DEF AskOf
    <3>2. /\ toAC' \in [Servers -> Seq(Requests)]
          /\ \A h \in Servers \ {g} : toAC'[h] = toAC[h]
          /\ In(toAC'[g]) = In(toAC[g]) \cup {r}
          /\ \A M : Once(toAC[g], M) /\ (r \notin M \/ In(toAC[g]) \cap M = {}) => Once(toAC'[g], M)
      BY <1>1, Written
    <3>3. ASSUME NEW k \in CdKeys, SavesFor(g, k)' PROVE SavesFor(g, k)
      BY <3>2, <3>3 DEF SavesFor
    <3> QED BY <3>1, <3>2, <3>3
  <2> QED BY <2>1, <2>2
<1>3. /\ toGS' \in [Servers -> Seq(Answers)]
      /\ \A h \in Servers \ {g} : toGS'[h] = toGS[h]
      /\ In(toGS[g]) = {m} \cup In(toGS'[g])
      /\ \A M : Once(toGS[g], M) => Once(toGS'[g], M)
      /\ UNCHANGED <<up, gs, lock, store, forced>>
  BY DEF Taking
<1>4. ASSUME NEW d \in Conns, InUse(g, d)' PROVE AskedAt(g, d)'
  <2>1. CASE conn'[g][d].state = conn[g][d].state
    <3>1. AskedAt(g, d)
      BY <1>1, <1>4, <2>1 DEF AskedOnce, InUse
    <3> QED BY <1>1, <1>2, <1>3, <2>1, <3>1, AskedKept
  <2>2. CASE conn'[g][d].state # conn[g][d].state
    <3>1. /\ InUse(g, d)
          /\ In(toAC[g]) \cap AskOf(d) = {} /\ In(toGS'[g]) \cap TellOf(d) = {}
      BY <2>2
    <3>2. AskedAt(g, d)
      BY <1>1, <3>1 DEF AskedOnce
    <3>3. In(toAC'[g]) \cap AskOf(d) = {}
      BY <1>2, <3>1
    <3> QED BY <1>2, <1>3, <3>1, <3>2, <3>3 DEF AskedAt
  <2> QED BY <2>1, <2>2
<1>5. \A d \in Conns : conn'[g][d].state \notin {"FREE", "NOTLOGIN"} => conn'[g][d].key \in CdKeys
  BY <1>1 DEF KeyKnown
<1>6. ASSUME NEW k \in CdKeys, NEW d \in Conns, d \in Claims(g, k)'
      PROVE  d \in Claims(g, k) /\ (Doomed(g, d) => Doomed(g, d)')
  <2>1. conn[g][d].key = k /\ InUse(g, d) /\ (Online(g, d) \/ Grant(d) \in In(toGS[g]))
    <3>1. CASE conn'[g][d].state = conn[g][d].state
      BY <1>1, <1>3, <1>6, <3>1 DEF Claims, SessionsOf, Granted, Online, InUse
    <3>2. CASE conn'[g][d].state # conn[g][d].state
      <4>1. d = c /\ InUse(g, d) /\ In(toGS'[g]) \cap TellOf(d) = {}
        BY <3>2
      <4>2. Grant(d) \in TellOf(d)
        BY DEF Grant, DoneOk, TellOf, Answers, Answer
      <4>3. Grant(d) \notin In(toGS'[g])
        BY <4>1, <4>2
      <4>4. conn'[g][d].key = k /\ conn'[g][d].state = "LOGIN"
        BY <1>1, <1>6, <4>3 DEF Claims, SessionsOf, Granted, Online
      <4> QED BY <1>1, <1>3, <3>2, <4>1, <4>4
    <3> QED BY <3>1, <3>2
  <2>2. d \in Claims(g, k)
    BY <2>1 DEF Claims, SessionsOf, Granted
  <2>3. Doomed(g, d) => Doomed(g, d)'
    BY <1>1, <1>3, <1>6, <2>1 DEF Doomed
  <2> QED BY <2>2, <2>3
<1> QED BY <1>1, <1>2, <1>3, <1>4, <1>5, <1>6, GameServerStep

\* The answers that move a connection on whatever its state is, and those that
\* look at the state first
LEMMA AnswerSteps ==
    ASSUME IInv, NEW g \in up, NEW m, Taking(g, m),
           \/ ACCharList_recv(g, m) \/ ACCharLoad_recv(g, m) \/ ACCharSave_recv(g, m)
           \/ ACCharDelete_recv(g, m) \/ ACLock_recv(g, m)
    PROVE  IInv'
<1>1. g \in Servers /\ m \in Answers /\ conn \in [Servers -> [Conns -> Conn]]
  BY DEF IInv, TypeInv, Taking
<1>2. m.type \in {"ListDone", "SaveDone", "DeleteDone", "LoadDone", "UnlockDone"}
  BY DEF ACCharList_recv, ACCharLoad_recv, ACCharSave_recv, ACCharDelete_recv, ACLock_recv
<1>3. m.id \in Conns /\ \A k \in CdKeys : m # Kick(k)
  BY <1>1, <1>2 DEF Answers, Answer, Order, Kick
<1> DEFINE c == m.id
<1>4. /\ conn[g][c].state \in States /\ conn[g][c].key \in CdKeys \cup {"none"}
      /\ InUse(g, c) => AskedAt(g, c)
      /\ conn[g][c].state \notin {"FREE", "NOTLOGIN"} => conn[g][c].key \in CdKeys
  BY <1>1, <1>3, ConnFacts
<1>5. ASSUME InUse(g, c), m \in TellOf(c)
      PROVE  /\ In(toAC[g]) \cap AskOf(c) = {} /\ In(toGS'[g]) \cap TellOf(c) = {}
             /\ conn[g][c].state = Waits(m.type)
  BY <1>4, <1>5 DEF AskedAt, Taking
<1>6. ASSUME InUse(g, c), conn[g][c].state \notin {"WHILEDOWNLOADCHARLIST", "WHILELOGIN"}
      PROVE  In(toAC[g]) \cap AskOf(c) = {} /\ In(toGS'[g]) \cap TellOf(c) = {}
  BY <1>1, <1>3, <1>4, <1>6, NothingAsked DEF Taking
<1>7. CASE UNCHANGED conn /\ UNCHANGED toAC
  BY <1>1, <1>3, <1>7, AnswerStep
<1>8. ASSUME NEW s \in {"NOTLOGIN", "LOGIN", "WHILECANNOTLOGIN"}, SetState(g, c, s), InUse(g, c),
             In(toAC[g]) \cap AskOf(c) = {}, In(toGS'[g]) \cap TellOf(c) = {},
             s # "NOTLOGIN" => m = Grant(c) /\ conn[g][c].key \in CdKeys,
             UNCHANGED toAC \/ \E r \in Requests : SendAC(g, r) /\ r.type \in {"Unlock", "UCheck"}
      PROVE  IInv'
  <2>1. s \in States
    BY DEF States
  <2>2. /\ conn' \in [Servers -> [Conns -> Conn]]
        /\ conn'[g][c].state = s
        /\ \A h \in Servers, d \in Conns : h # g \/ d # c => conn'[h][d].state = conn[h][d].state
        /\ \A h \in Servers, d \in Conns : /\ conn'[h][d].key = conn[h][d].key
                                           /\ conn'[h][d].close = conn[h][d].close
    BY <1>1, <1>3, <1>8, <2>1, StateSet
  <2>3. \A h \in Servers \ {g}, d \in Conns : conn'[h][d] = conn[h][d]
    BY <1>1, <1>8 DEF SetState
  <2>4. \A d \in Conns : /\ conn'[g][d].key = conn[g][d].key
                         /\ conn[g][d].close => conn'[g][d].close
                         /\ d # c => conn'[g][d].state = conn[g][d].state
    BY <1>1, <2>2
  <2>5. c \in Conns => \/ conn'[g][c].state = conn[g][c].state
                       \/ /\ InUse(g, c)
                          /\ In(toAC[g]) \cap AskOf(c) = {} /\ In(toGS'[g]) \cap TellOf(c) = {}
                          /\ \/ conn'[g][c].state = "NOTLOGIN"
                             \/ /\ conn'[g][c].state \in {"LOGIN", "WHILECANNOTLOGIN"}
                                /\ conn[g][c].key \in CdKeys /\ m = Grant(c)
    BY <1>8, <2>2
  <2> HIDE DEF c
  <2> QED BY <1>3, <1>8, <2>2, <2>3, <2>4, <2>5, AnswerStep
<1>9. CASE ACCharList_recv(g, m)
  <2>1. m \in TellOf(c)
    BY <1>1, <1>9 DEF ACCharList_recv, TellOf
  <2>2. CASE Alive(g, m)
    BY <1>5, <1>8, <1>9, <2>1, <2>2 DEF ACCharList_recv, Alive
  <2>3. CASE ~ Alive(g, m)
    BY <1>7, <1>9, <2>3 DEF ACCharList_recv
  <2> QED BY <2>2, <2>3
<1>10. CASE ACCharLoad_recv(g, m)
  <2>1. m \in TellOf(c) /\ m.type = "LoadDone"
    BY <1>1, <1>10 DEF ACCharLoad_recv, TellOf
  <2>2. CASE ~ Alive(g, m) /\ UNCHANGED <<conn, toAC>>
    BY <1>7, <2>2
  <2>3. CASE Alive(g, m) /\ SetState(g, m.id, "NOTLOGIN") /\ UNCHANGED toAC
    BY <1>5, <1>8, <2>1, <2>3 DEF Alive
  <2>4. ASSUME Alive(g, m), m.ok PROVE m = Grant(c) /\ conn[g][c].key \in CdKeys
    <3>1. m = Grant(c)
      BY <1>1, <2>1, <2>4 DEF Answers, Answer, Order, Grant, DoneOk
    <3>2. conn[g][c].state = "WHILELOGIN"
      BY <1>5, <2>1, <2>4 DEF Alive, Waits
    <3> QED BY <1>4, <3>1, <3>2
  <2>5. CASE Alive(g, m) /\ m.ok /\ SetState(g, m.id, "LOGIN") /\ UNCHANGED toAC
    BY <1>5, <1>8, <2>1, <2>4, <2>5 DEF Alive
  <2>6. CASE /\ Alive(g, m) /\ m.ok
             /\ SetState(g, m.id, "WHILECANNOTLOGIN")
             /\ SendAC(g, Req("Unlock", conn[g][m.id].key, m.id))
    <3>1. /\ Req("Unlock", conn[g][m.id].key, m.id) \in Requests
          /\ Req("Unlock", conn[g][m.id].key, m.id).type = "Unlock"
      BY <1>3, <2>4, <2>6, RequestKind
    <3> QED BY <1>5, <1>8, <2>1, <2>4, <2>6, <3>1 DEF Alive
  <2> QED BY <1>10, <2>2, <2>3, <2>5, <2>6 DEF ACCharLoad_recv
<1>11. CASE ACCharSave_recv(g, m)
  <2>1. CASE conn[g][c].state \in {"WHILECREATE", "WHILELOGOUTSAVE"}
    BY <1>6, <1>8, <1>11, <2>1 DEF ACCharSave_recv, InUse
  <2>2. CASE conn[g][c].state \notin {"WHILECREATE", "WHILELOGOUTSAVE"}
    BY <1>7, <1>11, <2>2 DEF ACCharSave_recv
  <2> QED BY <2>1, <2>2
<1>12. CASE ACCharDelete_recv(g, m)
  <2>1. CASE conn[g][c].state = "WHILECHARDELETE"
    BY <1>6, <1>8, <1>12, <2>1 DEF ACCharDelete_recv, InUse
  <2>2. CASE conn[g][c].state # "WHILECHARDELETE"
    BY <1>7, <1>12, <2>2 DEF ACCharDelete_recv
  <2> QED BY <2>1, <2>2
<1>13. CASE ACLock_recv(g, m)
  <2>1. CASE conn[g][m.id].state = "WHILECANNOTLOGIN" /\ SetState(g, m.id, "NOTLOGIN") /\ UNCHANGED toAC
    BY <1>6, <1>8, <2>1 DEF InUse
  <2>2. CASE /\ conn[g][m.id].state = "WHILECANNOTLOGIN"
             /\ SendAC(g, Req("Unlock", conn[g][m.id].key, m.id)) /\ UNCHANGED conn
    <3>1. /\ Req("Unlock", conn[g][m.id].key, m.id) \in Requests
          /\ Req("Unlock", conn[g][m.id].key, m.id).type = "Unlock"
      BY <1>3, <1>4, <2>2, RequestKind
    <3>2. \E r \in Requests : SendAC(g, r) /\ r.type \in {"Unlock", "UCheck"}
      BY <2>2, <3>1
    <3> QED BY <1>1, <1>3, <2>2, <3>2, AnswerStep
  <2>3. CASE UNCHANGED <<conn, toAC>>
    BY <1>7, <2>3
  <2> QED BY <1>13, <2>1, <2>2, <2>3 DEF ACLock_recv
<1> QED BY <1>9, <1>10, <1>11, <1>12, <1>13

\* Orders: nothing is moved, and a kick marks every claim of its account.
LEMMA OrderSteps ==
    ASSUME IInv, NEW g \in up, NEW m, Taking(g, m), ACUCheck_recv(g, m) \/ ACKick_recv(g, m)
    PROVE  IInv'
<1>1. g \in Servers /\ m \in Answers /\ conn \in [Servers -> [Conns -> Conn]]
  BY DEF IInv, TypeInv, Taking
<1>2. m.key \in CdKeys
  BY <1>1 DEF ACUCheck_recv, ACKick_recv, Answers, Answer, Order
<1>3. CASE ACUCheck_recv(g, m)
  <2> DEFINE r == [type |-> "UCheck", key |-> m.key, online |-> getfdFromCdkeyWithLogin(g, m.key) # {}]
  <2>1. SendAC(g, r) /\ UNCHANGED conn
    BY <1>3 DEF ACUCheck_recv
  <2>2. r \in Requests /\ r.type = "UCheck"
    BY <1>2 DEF Requests, UCheckAnswer
  <2>3. \A k \in CdKeys : m # Kick(k)
    BY <1>3 DEF ACUCheck_recv, Kick
  <2> HIDE DEF r
  <2>4. \E q \in Requests : SendAC(g, q) /\ q.type \in {"Unlock", "UCheck"}
    BY <2>1, <2>2
  <2> QED BY <1>1, <2>1, <2>3, <2>4, AnswerStep
<1>4. CASE ACKick_recv(g, m)
  <2> DEFINE D == {c \in Conns : InUse(g, c) /\ conn[g][c].key = m.key}
             C == setCloseRequest(g, D)
  <2>1. conn' = [conn EXCEPT ![g] = C] /\ UNCHANGED toAC
    BY <1>4 DEF ACKick_recv
  <2>2. /\ C \in [Conns -> Conn]
        /\ \A d \in Conns : /\ C[d].state = conn[g][d].state /\ C[d].key = conn[g][d].key
                            /\ conn[g][d].close \/ d \in D => C[d].close
    BY <1>1, CloseRequested
  <2> HIDE DEF C
  <2>3. /\ conn' \in [Servers -> [Conns -> Conn]]
        /\ \A d \in Conns : conn'[g][d] = C[d]
        /\ \A h \in Servers \ {g}, d \in Conns : conn'[h][d] = conn[h][d]
    BY <1>1, <2>1, <2>2
  <2>4. \A d \in Conns : /\ conn'[g][d].state = conn[g][d].state /\ conn'[g][d].key = conn[g][d].key
                         /\ conn[g][d].close \/ d \in D => conn'[g][d].close
    BY <2>2, <2>3
  <2>5. \A k \in CdKeys : m = Kick(k) => k = m.key
    BY DEF Kick
  <2> QED BY <1>1, <2>1, <2>3, <2>4, <2>5, AnswerStep
<1> QED BY <1>3, <1>4

\* One answer or order at a time
LEMMA HandleGSStep ==
    ASSUME IInv, NEW g \in Servers, HandleGS(g)
    PROVE  IInv'
<1>1. Taking(g, Head(toGS[g])) /\ g \in up
  BY TakenGS
<1> QED BY <1>1, AnswerSteps, OrderSteps DEF HandleGS

----------------------------------------------------------------------------
(* Steps of the account server. *)

\* What one request read from g leaves, and what is sent
LEMMA TakenAC ==
    ASSUME IInv, NEW g \in Servers, HandleAC(g)
    PROVE  /\ g \in gs /\ UNCHANGED <<conn, up, gs>>
           /\ toAC' \in [Servers -> Seq(Requests)]
           /\ \A h \in Servers \ {g} : toAC'[h] = toAC[h]
           /\ Head(toAC[g]) \in Requests
           /\ In(toAC[g]) = {Head(toAC[g])} \cup In(toAC'[g])
           /\ \A M : Once(toAC[g], M) => Once(toAC'[g], M) /\ (Head(toAC[g]) \in M => In(toAC'[g]) \cap M = {})
           /\ store' \subseteq CdKeys
           /\ (\E out : Sends(g, Head(toAC[g]), out)) /\ Locks(g, Head(toAC[g]))
<1>1. toAC \in [Servers -> Seq(Requests)] /\ toAC[g] # <<>> /\ toAC' = [toAC EXCEPT ![g] = Tail(@)]
  BY DEF HandleAC, TakeAC, IInv, TypeInv
<1>2. toAC[g] \in Seq(Requests) /\ toAC'[g] = Tail(toAC[g]) /\ \A h \in Servers \ {g} : toAC'[h] = toAC[h]
  BY <1>1
<1>3. /\ Head(toAC[g]) \in Requests /\ Tail(toAC[g]) \in Seq(Requests)
      /\ In(toAC[g]) = {Head(toAC[g])} \cup In(Tail(toAC[g]))
      /\ \A M : Once(toAC[g], M) =>
           Once(Tail(toAC[g]), M) /\ (Head(toAC[g]) \in M => In(Tail(toAC[g])) \cap M = {})
  BY <1>1, <1>2, InTail
<1>4. toAC' \in [Servers -> Seq(Requests)]
  BY <1>1, <1>3
<1> DEFINE m == Head(toAC[g])
<1>5. \/ charLoadCallback(g, m) \/ charSave(g, m) \/ charListCallback(g, m)
      \/ charDeleteCallback(g, m) \/ Lock_recv(g, m) \/ UCheck_recv(g, m)
  BY DEF HandleAC
<1>6. (\E out : Sends(g, m, out)) /\ Locks(g, m)
  BY <1>3, <1>5, RequestHandled DEF IInv, TypeInv
<1>7. store' \subseteq CdKeys
  <2>1. store \subseteq CdKeys /\ m.key \in CdKeys
    BY <1>3 DEF IInv, TypeInv, Requests, Request, UCheckAnswer
  <2> QED BY <1>5, <2>1 DEF charLoadCallback, charSave, charListCallback, charDeleteCallback, Lock_recv, UCheck_recv
<1> QED BY <1>2, <1>3, <1>4, <1>6, <1>7 DEF HandleAC

\* A lock is taken away from whoever has it: if it was needed, that is known.
LEMMA UnlockedKeepsClaims ==
    ASSUME lock \in [CdKeys -> Servers \cup {"none"}], OneClaim, NEW k0 \in CdKeys, Unlocked(k0),
           \A h \in Servers, k \in CdKeys : /\ Claims(h, k)' \subseteq Claims(h, k)
                                            /\ SavesFor(h, k)' => SavesFor(h, k)
    PROVE  OneClaim'
<1>1. /\ \A k \in CdKeys \ {k0} : lock'[k] = lock[k]
      /\ forced \subseteq forced'
      /\ lock[k0] \in Servers /\ Needs(lock[k0], k0) => k0 \in forced'
  BY DEF Unlocked
<1> SUFFICES ASSUME NEW k \in CdKeys \ forced', NEW g \in Servers
             PROVE  /\ Claims(g, k)' # {} \/ SavesFor(g, k)' => lock'[k] = g
                    /\ SavesFor(g, k)' => Claims(g, k)' = {}
                    /\ \A c, d \in Claims(g, k)' : c = d
  BY DEF OneClaim
<1>2. k \notin forced
  BY <1>1
<1>3. CASE k # k0
  BY <1>1, <1>2, <1>3 DEF OneClaim
<1>4. CASE k = k0
  <2>1. ASSUME Claims(g, k)' # {} \/ SavesFor(g, k)' PROVE FALSE
    <3>1. Claims(g, k) # {} \/ SavesFor(g, k)
      BY <2>1
    <3>2. lock[k] = g
      BY <1>2, <3>1 DEF OneClaim
    <3>3. Needs(g, k)
      BY <2>1 DEF Needs, Claims, Granted, Grant, SavesFor
    <3> QED BY <1>1, <1>4, <3>2, <3>3
  <2> QED BY <2>1
<1> QED BY <1>3, <1>4

\* The account server grants a session only of an account that has no claim,
\* or whose lock was taken away, and tells the other servers to end theirs.
LEMMA HandleACStep ==
    ASSUME IInv, NEW g \in Servers, HandleAC(g)
    PROVE  IInv'
<1>1. PICK m \in Requests : m = Head(toAC[g])
  BY TakenAC
<1>2. /\ g \in gs /\ UNCHANGED <<conn, up, gs>>
      /\ toAC' \in [Servers -> Seq(Requests)]
      /\ \A h \in Servers \ {g} : toAC'[h] = toAC[h]
      /\ In(toAC[g]) = {m} \cup In(toAC'[g])
      /\ \A M : Once(toAC[g], M) => Once(toAC'[g], M) /\ (m \in M => In(toAC'[g]) \cap M = {})
      /\ store' \subseteq CdKeys
      /\ (\E out : Sends(g, m, out)) /\ Locks(g, m)
  BY <1>1, TakenAC
<1>3. PICK out : Sends(g, m, out)
  BY <1>2
<1>4. /\ toGS \in [Servers -> Seq(Answers)]
      /\ conn \in [Servers -> [Conns -> Conn]]
      /\ lock \in [CdKeys -> Servers \cup {"none"}]
      /\ up \subseteq gs /\ m.key \in CdKeys
  BY DEF IInv, TypeInv, Connected, Requests, Request, UCheckAnswer
<1>5. /\ toGS' \in [Servers -> Seq(Answers)]
      /\ \A h \in Servers : h \notin up => toGS'[h] = toGS[h]
      /\ \A h \in Servers : h \in up => In(toGS'[h]) = In(toGS[h]) \cup In(out[h])
      /\ \A h \in Servers : \A M : /\ Once(toGS[h], M) /\ Once(out[h], M)
                                   /\ In(toGS[h]) \cap M = {} \/ In(out[h]) \cap M = {}
                                   => Once(toGS'[h], M)
  BY <1>3, <1>4, Sent DEF Sends
<1>6. \A h \in Servers : In(toGS[h]) \subseteq In(toGS'[h]) /\ In(toGS'[h]) \subseteq In(toGS[h]) \cup In(out[h])
  BY <1>5
<1>7. /\ lock' \in [CdKeys -> Servers \cup {"none"}] /\ forced' \subseteq CdKeys
      /\ \A k \in CdKeys \ forced' : k \notin forced
  <2>1. forced \subseteq CdKeys
    BY DEF IInv, TypeInv
  <2>2. CASE UNCHANGED <<lock, forced>>
    BY <1>4, <2>1, <2>2
  <2>3. ASSUME NEW k \in CdKeys, Unlocked(k)
        PROVE  /\ lock' \in [CdKeys -> Servers \cup {"none"}] /\ forced' \subseteq CdKeys
               /\ \A j \in CdKeys \ forced' : j \notin forced
    BY <1>4, <2>1, <2>3 DEF Unlocked
  <2>4. CASE charLoad_done(g, m)
    <3>1. lock' = [lock EXCEPT ![m.key] = g] /\ forced' = forced
      BY <2>4 DEF charLoad_done
    <3>2. QED
      BY <1>4, <2>1, <3>1
  <2>5. QED
    BY <1>2, <2>2, <2>3, <2>4 DEF Locks
<1>8. TypeInv'
  BY <1>2, <1>5, <1>7 DEF IInv, TypeInv, KeyKnown
<1>9. Connected'
  <2>1. ASSUME NEW h \in Servers \ up PROVE toGS'[h] = <<>> /\ \A c \in Conns : conn'[h][c].state = "FREE"
    BY <1>2, <1>5, <2>1 DEF IInv, Connected
  <2>2. ASSUME NEW h \in Servers \ gs PROVE toAC'[h] = <<>>
    BY <1>2, <2>2 DEF IInv, Connected
  <2> QED BY <1>2, <1>4, <2>1, <2>2 DEF Connected
<1>10. ASSUME NEW h \in Servers, NEW c \in Conns, InUse(h, c)
       PROVE  AskedAt(h, c) /\ h \in up /\ AskedAt(h, c)'
  <2>1. AskedAt(h, c) /\ h \in up
    BY <1>10 DEF IInv, AskedOnce, Connected, InUse
  <2>2. /\ Once(out[h], TellOf(c))
        /\ \A a \in In(out[h]) \cap TellOf(c) : h = g /\ m \in AskOf(c) /\ Waits(a.type) = Waits(m.type)
    BY <1>3 DEF Sends
  <2>3. /\ Once(toAC'[h], AskOf(c)) /\ In(toAC'[h]) \subseteq In(toAC[h])
        /\ h = g /\ m \in AskOf(c) => In(toAC'[h]) \cap AskOf(c) = {} /\ m \in In(toAC[h])
    BY <1>2, <2>1 DEF AskedAt
  <2>4. CASE In(out[h]) \cap TellOf(c) = {}
    <3>1. Once(toGS'[h], TellOf(c)) /\ In(toGS'[h]) \cap TellOf(c) = In(toGS[h]) \cap TellOf(c)
      BY <1>5, <1>6, <2>1, <2>2, <2>4 DEF AskedAt
    <3> QED BY <1>2, <2>1, <2>3, <3>1, AskedKept
  <2>5. CASE In(out[h]) \cap TellOf(c) # {}
    <3>1. h = g /\ m \in AskOf(c) /\ \A a \in In(out[h]) \cap TellOf(c) : Waits(a.type) = Waits(m.type)
      BY <2>2, <2>5
    <3>2. /\ conn[h][c].state = Waits(m.type) /\ In(toGS[h]) \cap TellOf(c) = {}
          /\ In(toAC'[h]) \cap AskOf(c) = {}
      BY <2>1, <2>3, <3>1 DEF AskedAt
    <3>3. Once(toGS'[h], TellOf(c))
      BY <1>5, <2>1, <2>2, <3>2 DEF AskedAt
    <3>4. \A a \in In(toGS'[h]) \cap TellOf(c) : conn'[h][c].state = Waits(a.type)
      BY <1>2, <1>6, <3>1, <3>2
    <3> QED BY <2>1, <2>3, <3>2, <3>3, <3>4 DEF AskedAt
  <2> QED BY <2>1, <2>4, <2>5
<1>11. AskedOnce'
  BY <1>2, <1>10 DEF AskedOnce, InUse
<1>12. ASSUME NEW h \in Servers, NEW k \in CdKeys, SavesFor(h, k)' PROVE SavesFor(h, k)
  BY <1>2, <1>12 DEF SavesFor
<1>13. ASSUME NEW h \in Servers, NEW k \in CdKeys, NEW c \in Claims(h, k)', c \notin Claims(h, k)
       PROVE  h = g /\ c = m.id /\ k = m.key /\ charLoad_done(g, m)
  <2>1. c \in Conns /\ InUse(h, c) /\ conn[h][c].key = k /\ Grant(c) \in In(out[h])
    <3>1. /\ c \in Conns /\ InUse(h, c) /\ conn[h][c].key = k
          /\ Online(h, c) \/ Grant(c) \in In(toGS'[h])
      BY <1>2, <1>13 DEF Claims, SessionsOf, Granted, Online, InUse
    <3>2. ~ Online(h, c) /\ Grant(c) \notin In(toGS[h])
      BY <1>13, <3>1 DEF Claims, SessionsOf, Granted
    <3> QED BY <1>6, <3>1, <3>2
  <2>2. Grant(c) \in TellOf(c)
    BY <2>1 DEF Grant, DoneOk, TellOf, Answers, Answer
  <2>3. h = g /\ m \in AskOf(c) /\ charLoad_done(g, m)
    BY <1>3, <2>1, <2>2 DEF Sends
  <2>4. conn[h][c].key = m.key
    BY <1>2, <1>10, <2>1, <2>3 DEF AskedAt
  <2> QED BY <2>1, <2>3, <2>4 DEF AskOf
<1>14. OneClaim'
  <2>1. CASE charLoad_done(g, m)
    <3>1. lock[m.key] = "none" /\ lock' = [lock EXCEPT ![m.key] = g] /\ UNCHANGED forced
      BY <2>1 DEF charLoad_done, isLocked
    <3> SUFFICES ASSUME NEW k \in CdKeys \ forced, NEW h \in Servers
                 PROVE  /\ Claims(h, k)' # {} \/ SavesFor(h, k)' => lock'[k] = h
                        /\ SavesFor(h, k)' => Claims(h, k)' = {}
                        /\ \A c, d \in Claims(h, k)' : c = d
      BY <3>1 DEF OneClaim
    <3>2. CASE k = m.key
      <4>1. Claims(h, k) = {} /\ ~ SavesFor(h, k)
        BY <3>1, <3>2 DEF IInv, OneClaim
      <4> QED BY <1>4, <1>12, <1>13, <3>1, <3>2, <4>1
    <3>3. CASE k # m.key
      <4>1. Claims(h, k)' \subseteq Claims(h, k) /\ lock'[k] = lock[k]
        BY <1>4, <1>13, <3>1, <3>3
      <4> QED BY <1>12, <4>1 DEF IInv, OneClaim
    <3> QED BY <3>2, <3>3
  <2>2. CASE ~ charLoad_done(g, m)
    <3>1. \A h \in Servers, k \in CdKeys : Claims(h, k)' \subseteq Claims(h, k) /\ (SavesFor(h, k)' => SavesFor(h, k))
      BY <1>12, <1>13, <2>2
    <3>2. CASE UNCHANGED <<lock, forced>>
      BY <3>1, <3>2 DEF IInv, OneClaim
    <3>3. CASE \E k \in CdKeys : Unlocked(k)
      BY <1>4, <3>1, <3>3, UnlockedKeepsClaims DEF IInv
    <3> QED BY <1>2, <2>2, <3>2, <3>3 DEF Locks
  <2> QED BY <2>1, <2>2
<1>15. ClaimsApart'
  <2>1. ASSUME NEW h \in Servers, NEW c \in Conns, Doomed(h, c) PROVE Doomed(h, c)'
    BY <1>2, <1>6, <2>1 DEF Doomed
  <2>2. ASSUME charLoad_done(g, m), NEW h \in Servers \ {g}, NEW c \in Claims(h, m.key)'
        PROVE  Doomed(h, c)'
    <3>1. c \in Conns /\ InUse(h, c) /\ conn[h][c].key = m.key
      BY <1>2, <2>2 DEF Claims, SessionsOf, Granted, Online, InUse
    <3>2. h \in up /\ h \in gs
      BY <1>4, <1>10, <3>1
    <3>3. toGS'[h] = toGS[h] \o (Reply(g, DoneOk("LoadDone", m.id, TRUE)) ++ KickBut(g, m.key))[h]
      BY <2>2, <3>2 DEF charLoad_done, SendGS
    <3>4. (Reply(g, DoneOk("LoadDone", m.id, TRUE)) ++ KickBut(g, m.key))[h] = <<>> \o <<Kick(m.key)>>
      BY <2>2, <3>2 DEF ++, Reply, KickBut
    <3>5. Kick(m.key) \in Answers
      BY <1>4, OrderKind
    <3>6. Kick(m.key) \in In(toGS'[h])
      <4>1. <<Kick(m.key)>> \in Seq(Answers) /\ In(<<Kick(m.key)>>) = {Kick(m.key)} /\ <<>> \in Seq(Answers)
        BY <3>5, InOne, InEmpty
      <4>2. /\ (<<>> \o <<Kick(m.key)>>) \in Seq(Answers)
            /\ Kick(m.key) \in In(<<>> \o <<Kick(m.key)>>)
        BY <4>1, InConcat
      <4>3. toGS[h] \in Seq(Answers)
        BY <1>4
      <4> DEFINE r == <<>> \o <<Kick(m.key)>>
      <4>4. toGS'[h] = toGS[h] \o r /\ r \in Seq(Answers) /\ Kick(m.key) \in In(r)
        BY <3>3, <3>4, <4>2
      <4> HIDE DEF r
      <4> QED BY <4>3, <4>4, InConcat
    <3> QED BY <1>2, <3>1, <3>6 DEF Doomed
  <2> SUFFICES ASSUME NEW k \in CdKeys, NEW h \in Servers, NEW i \in Servers, h # i,
                      NEW c \in Claims(h, k)', NEW d \in Claims(i, k)'
               PROVE  Doomed(h, c)' \/ Doomed(i, d)'
    BY DEF ClaimsApart
  <2>3. c \in Conns /\ d \in Conns
    BY DEF Claims, SessionsOf, Granted
  <2>4. CASE c \in Claims(h, k) /\ d \in Claims(i, k)
    BY <2>1, <2>3, <2>4 DEF IInv, ClaimsApart
  <2>5. CASE c \notin Claims(h, k)
    BY <1>13, <2>2, <2>5
  <2>6. CASE d \notin Claims(i, k)
    BY <1>13, <2>2, <2>6
  <2> QED BY <2>4, <2>5, <2>6
<1> QED BY <1>8, <1>9, <1>11, <1>14, <1>15 DEF IInv

----------------------------------------------------------------------------
(* Crashes and restarts. *)

\* A game server dies with its connections; of what it wrote some is read.
LEMMA CrashStep ==
    ASSUME IInv, NEW g \in Servers, Crash(g)
    PROVE  IInv'
<1>1. PICK n \in 0 .. Len(toAC[g]) : toAC' = [toAC EXCEPT ![g] = SubSeq(@, 1, n)]
  BY DEF Crash
<1>2. /\ conn \in [Servers -> [Conns -> Conn]]
      /\ toAC \in [Servers -> Seq(Requests)] /\ toAC[g] \in Seq(Requests)
      /\ toGS \in [Servers -> Seq(Answers)]
      /\ g \in up /\ up' = up \ {g} /\ UNCHANGED <<gs, lock, store, forced>>
      /\ conn' = [conn EXCEPT ![g] = [c \in Conns |-> FreeConn]]
      /\ toGS' = [toGS EXCEPT ![g] = <<>>]
      /\ FreeConn \in Conn /\ FreeConn.state = "FREE"
  BY DEF Crash, IInv, TypeInv, FreeConn, Conn, States
<1>3. /\ toAC'[g] = SubSeq(toAC[g], 1, n)
      /\ SubSeq(toAC[g], 1, n) \in Seq(Requests) /\ In(SubSeq(toAC[g], 1, n)) \subseteq In(toAC[g])
  BY <1>1, <1>2, InPrefix
<1>4. /\ toAC' \in [Servers -> Seq(Requests)] /\ In(toAC'[g]) \subseteq In(toAC[g])
      /\ \A h \in Servers \ {g} : toAC'[h] = toAC[h]
  BY <1>1, <1>2, <1>3
<1>5. /\ toGS' \in [Servers -> Seq(Answers)] /\ toGS'[g] = <<>>
      /\ \A h \in Servers \ {g} : toGS'[h] = toGS[h]
  BY <1>2, InEmpty
<1>6. /\ conn' \in [Servers -> [Conns -> Conn]]
      /\ \A c \in Conns : conn'[g][c].state = "FREE"
      /\ \A h \in Servers \ {g} : conn'[h] = conn[h]
  BY <1>2
<1>7. TypeInv'
  BY <1>2, <1>4, <1>5, <1>6 DEF IInv, TypeInv, KeyKnown
<1>8. Connected'
  <2>1. ASSUME NEW h \in Servers \ up' PROVE toGS'[h] = <<>> /\ \A c \in Conns : conn'[h][c].state = "FREE"
    <3>1. CASE h = g
      BY <1>5, <1>6, <3>1
    <3>2. CASE h # g
      BY <1>2, <1>5, <1>6, <2>1, <3>2 DEF IInv, Connected
    <3> QED BY <3>1, <3>2
  <2>2. ASSUME NEW h \in Servers \ gs PROVE toAC'[h] = <<>>
    BY <1>2, <1>4, <2>2 DEF IInv, Connected
  <2> QED BY <1>2, <2>1, <2>2 DEF IInv, Connected
<1>9. AskedOnce'
  <2> SUFFICES ASSUME NEW h \in Servers, NEW c \in Conns, InUse(h, c)'
               PROVE  AskedAt(h, c)'
    BY DEF AskedOnce
  <2>1. h # g /\ conn'[h] = conn[h] /\ toAC'[h] = toAC[h] /\ toGS'[h] = toGS[h]
    BY <1>4, <1>5, <1>6 DEF InUse
  <2>2. AskedAt(h, c)
    BY <2>1 DEF IInv, AskedOnce, InUse
  <2> QED BY <2>1, <2>2, AskedKept
<1>10. OneClaim' /\ ClaimsApart'
  <2>1. ASSUME NEW h \in Servers, NEW k \in CdKeys
        PROVE  /\ Claims(h, k)' \subseteq Claims(h, k)
               /\ SavesFor(h, k)' => SavesFor(h, k) \/ \E c \in Claims(h, k) : c \notin Claims(h, k)'
               /\ \A c \in Claims(h, k)' : Doomed(h, c) => Doomed(h, c)'
    <3>1. CASE h = g
      <4>1. Claims(h, k)' = {}
        BY <1>6, <3>1 DEF Claims, SessionsOf, Granted, Online, InUse
      <4>2. SavesFor(h, k)' => SavesFor(h, k)
        BY <1>4, <3>1 DEF SavesFor
      <4> QED BY <4>1, <4>2
    <3>2. CASE h # g
      <4>1. Claims(h, k)' = Claims(h, k)
        BY <1>5, <1>6, <3>2 DEF Claims, SessionsOf, Granted, Online, InUse
      <4>2. SavesFor(h, k)' = SavesFor(h, k)
        BY <1>4, <3>2 DEF SavesFor
      <4>3. \A c \in Conns : Doomed(h, c)' = Doomed(h, c)
        BY <1>5, <1>6, <3>2 DEF Doomed
      <4> QED BY <4>1, <4>2, <4>3 DEF Claims, SessionsOf, Granted
    <3> QED BY <3>1, <3>2
  <2> QED BY <1>2, <2>1, ClaimsKept DEF IInv
<1> QED BY <1>7, <1>8, <1>9, <1>10 DEF IInv

\* A state without connections and streams satisfies all but the types.
LEMMA NobodyThere ==
    ASSUME \A g \in Servers, c \in Conns : conn[g][c].state = "FREE",
           \A g \in Servers : toAC[g] = <<>> /\ toGS[g] = <<>>,
           up \subseteq gs
    PROVE  Connected /\ AskedOnce /\ OneClaim /\ ClaimsApart /\ KeyKnown
<1>1. \A g \in Servers, k \in CdKeys : Claims(g, k) = {} /\ ~ SavesFor(g, k)
  BY InEmpty DEF Claims, SessionsOf, Granted, Online, InUse, SavesFor
<1>2. Connected
  BY DEF Connected
<1>3. AskedOnce /\ KeyKnown
  BY DEF AskedOnce, InUse, KeyKnown
<1>4. OneClaim /\ ClaimsApart
  BY <1>1 DEF OneClaim, ClaimsApart
<1> QED BY <1>2, <1>3, <1>4

\* The account server dies, and every game server with it.
LEMMA CrashACStep ==
    ASSUME IInv, CrashAC
    PROVE  IInv'
<1>1. /\ up' = {} /\ gs' = {} /\ UNCHANGED <<store, forced>>
      /\ conn' = [g \in Servers |-> [c \in Conns |-> FreeConn]]
      /\ lock' = [k \in CdKeys |-> "none"]
      /\ toAC' = [g \in Servers |-> <<>>]
      /\ toGS' = [g \in Servers |-> <<>>]
  BY DEF CrashAC
<1>2. FreeConn \in Conn /\ FreeConn.state = "FREE"
  BY DEF FreeConn, Conn, States
<1>3. /\ \A g \in Servers, c \in Conns : conn'[g][c].state = "FREE"
      /\ \A g \in Servers : toAC'[g] = <<>> /\ toGS'[g] = <<>>
      /\ up' \subseteq gs'
  BY <1>1, <1>2
<1>4. (Connected /\ AskedOnce /\ OneClaim /\ ClaimsApart /\ KeyKnown)'
  <2>1. \A g \in Servers, k \in CdKeys : Claims(g, k)' = {} /\ ~ SavesFor(g, k)'
    BY <1>3, InEmpty DEF Claims, SessionsOf, Granted, Online, InUse, SavesFor
  <2>2. Connected'
    BY <1>3 DEF Connected
  <2>3. AskedOnce' /\ KeyKnown'
    BY <1>3 DEF AskedOnce, InUse, KeyKnown
  <2>4. OneClaim' /\ ClaimsApart'
    BY <2>1 DEF OneClaim, ClaimsApart
  <2> QED BY <2>2, <2>3, <2>4
<1>5. TypeInv'
  <2>1. conn' \in [Servers -> [Conns -> Conn]]
    BY <1>1, <1>2
  <2>2. toAC' \in [Servers -> Seq(Requests)] /\ toGS' \in [Servers -> Seq(Answers)]
    BY <1>1, InEmpty
  <2> QED BY <1>1, <1>4, <2>1, <2>2 DEF IInv, TypeInv
<1> QED BY <1>4, <1>5 DEF IInv

\* login_game_server: the locks that are removed have no claim.
LEMMA LoginServerStep ==
    ASSUME IInv, NEW g \in Servers, login_game_server(g)
    PROVE  IInv'
<1>1. /\ g \notin up /\ g \notin gs /\ up' = up \cup {g} /\ gs' = gs \cup {g}
      /\ lock' = [k \in CdKeys |-> IF lock[k] = g THEN "none" ELSE lock[k]]
      /\ UNCHANGED <<conn, store, toAC, toGS, forced>>
  BY DEF login_game_server
<1>2. TypeInv'
  BY <1>1 DEF IInv, TypeInv, KeyKnown
<1>3. Connected'
  BY <1>1 DEF IInv, Connected
<1>4. AskedOnce'
  BY <1>1 DEF IInv, AskedOnce, AskedAt, InUse
<1>5. \A h \in Servers, k \in CdKeys : Claims(h, k)' = Claims(h, k) /\ SavesFor(h, k)' = SavesFor(h, k)
  BY <1>1 DEF Claims, SessionsOf, Granted, Online, InUse, SavesFor
<1>6. \A k \in CdKeys : Claims(g, k) = {} /\ ~ SavesFor(g, k)
  <2>1. toAC[g] = <<>> /\ \A c \in Conns : conn[g][c].state = "FREE"
    BY <1>1 DEF IInv, Connected
  <2> QED BY <2>1, InEmpty DEF Claims, SessionsOf, Granted, Online, InUse, SavesFor
<1>7. OneClaim'
  <2> SUFFICES ASSUME NEW k \in CdKeys \ forced, NEW h \in Servers
               PROVE  /\ Claims(h, k)' # {} \/ SavesFor(h, k)' => lock'[k] = h
                      /\ SavesFor(h, k)' => Claims(h, k)' = {}
                      /\ \A c, d \in Claims(h, k)' : c = d
    BY <1>1 DEF OneClaim
  <2>1. CASE h = g
    BY <1>5, <1>6, <2>1
  <2>2. CASE h # g
    <3>1. lock[k] = h => lock'[k] = h
      BY <1>1, <2>2
    <3> QED BY <1>5, <3>1 DEF IInv, OneClaim
  <2> QED BY <2>1, <2>2
<1>8. ClaimsApart'
  <2>1. \A h \in Servers, c \in Conns : Doomed(h, c)' = Doomed(h, c)
    BY <1>1 DEF Doomed
  <2>2. \A h \in Servers, k \in CdKeys : Claims(h, k) \subseteq Conns
    BY DEF Claims, SessionsOf, Granted
  <2> QED BY <1>5, <2>1, <2>2 DEF IInv, ClaimsApart
<1> QED BY <1>2, <1>3, <1>4, <1>7, <1>8 DEF IInv

\* logout_game_server: nothing is left of the server but its locks.
LEMMA LogoutServerStep ==
    ASSUME IInv, NEW g \in Servers, logout_game_server(g)
    PROVE  IInv'
<1>1. /\ g \notin up /\ toAC[g] = <<>> /\ gs' = gs \ {g}
      /\ UNCHANGED <<conn, up, lock, store, toAC, toGS, forced>>
  BY DEF logout_game_server
<1>2. TypeInv' /\ Connected'
  BY <1>1 DEF IInv, TypeInv, KeyKnown, Connected
<1>3. AskedOnce'
  BY <1>1 DEF IInv, AskedOnce, AskedAt, InUse
<1>4. OneClaim' /\ ClaimsApart'
  <2>1. \A h \in Servers, k \in CdKeys :
          /\ Claims(h, k)' = Claims(h, k) /\ SavesFor(h, k)' = SavesFor(h, k)
          /\ \A c : Doomed(h, c)' = Doomed(h, c)
    BY <1>1 DEF Claims, SessionsOf, Granted, Online, InUse, SavesFor, Doomed
  <2> QED BY <1>1, <2>1, ClaimsKept DEF IInv
<1> QED BY <1>2, <1>3, <1>4 DEF IInv

----------------------------------------------------------------------------
(* The theorems. *)

\* The servers start connected, without clients.
LEMMA InitIInv == Init => IInv
<1> SUFFICES ASSUME Init PROVE IInv
  OBVIOUS
<1>1. FreeConn \in Conn /\ FreeConn.state = "FREE"
  BY DEF FreeConn, Conn, States
<1>2. /\ \A g \in Servers, c \in Conns : conn[g][c].state = "FREE"
      /\ \A g \in Servers : toAC[g] = <<>> /\ toGS[g] = <<>>
      /\ up \subseteq gs
  BY <1>1 DEF Init
<1>3. Connected /\ AskedOnce /\ OneClaim /\ ClaimsApart /\ KeyKnown
  BY <1>2, NobodyThere
<1>4. TypeInv
  <2>1. conn \in [Servers -> [Conns -> Conn]]
    BY <1>1 DEF Init
  <2>2. toAC \in [Servers -> Seq(Requests)] /\ toGS \in [Servers -> Seq(Answers)]
    BY InEmpty DEF Init
  <2> QED BY <1>3, <2>1, <2>2 DEF Init, TypeInv
<1> QED BY <1>3, <1>4 DEF IInv

\* Every step keeps the invariant.
LEMMA NextIInv == IInv /\ [Next]_vars => IInv'
<1> SUFFICES ASSUME IInv, [Next]_vars PROVE IInv'
  OBVIOUS
<1>1. CASE \E g \in Servers, c \in Conns : Client(g, c) \/ CloseTurn(g, c)
  BY <1>1, ClientSteps
<1>2. CASE \E g \in Servers : HandleGS(g)
  BY <1>2, HandleGSStep
<1>3. CASE \E g \in Servers : HandleAC(g)
  BY <1>3, HandleACStep
<1>4. CASE \E g \in Servers : Crash(g)
  BY <1>4, CrashStep
<1>5. CASE \E g \in Servers : logout_game_server(g)
  BY <1>5, LogoutServerStep
<1>6. CASE \E g \in Servers : login_game_server(g)
  BY <1>6, LoginServerStep
<1>7. CASE CrashAC
  BY <1>7, CrashACStep
<1>8. CASE UNCHANGED vars
  <2>1. UNCHANGED <<conn, up, gs, lock, store, toAC, toGS, forced>>
    BY <1>8 DEF vars
  <2>2. TypeInv' /\ Connected'
    BY <2>1 DEF IInv, TypeInv, KeyKnown, Connected
  <2>3. AskedOnce'
    BY <2>1 DEF IInv, AskedOnce, AskedAt, InUse
  <2>4. \A h \in Servers, k \in CdKeys :
          /\ Claims(h, k)' = Claims(h, k) /\ SavesFor(h, k)' = SavesFor(h, k)
          /\ \A c : Doomed(h, c)' = Doomed(h, c)
    BY <2>1 DEF Claims, SessionsOf, Granted, Online, InUse, SavesFor, Doomed
  <2> QED BY <2>1, <2>2, <2>3, <2>4, ClaimsKept DEF IInv
<1> QED BY <1>1, <1>2, <1>3, <1>4, <1>5, <1>6, <1>7, <1>8 DEF Next

\* The inductive invariant: connections, streams and the lock table agree in
\* every reachable state.
THEOREM Invariance == Spec => []IInv
<1> QED BY InitIInv, NextIInv, PTL DEF Spec

\* Every stream carries messages of its kind, about existing accounts and connections.
THEOREM TypeCorrect == Spec => []TypeOK
<1>1. IInv => TypeOK
  <2> SUFFICES ASSUME IInv PROVE TypeOK
    OBVIOUS
  <2>1. ASSUME NEW S, NEW q \in Seq(S) PROVE In(q) \subseteq S
    BY ElementOfSeq, LenProperties DEF In
  <2>2. \A g \in Servers : toAC[g] \in Seq(Requests) /\ toGS[g] \in Seq(Answers)
    BY DEF IInv, TypeInv
  <2>3. \A g \in Servers : In(toAC[g]) \subseteq Request \cup UCheckAnswer /\ In(toGS[g]) \subseteq Answer \cup Order
    BY <2>1, <2>2 DEF Requests, Answers
  <2> QED BY <2>3 DEF IInv, TypeInv, TypeOK
<1> QED BY <1>1, Invariance, PTL

\* The answers to a list and to a load, whose handlers do not look at the state
\* of the connection, find it in the state that waits for them.
THEOREM AnswersFindTheirState == Spec => []ReplyFindsItsState
<1>1. IInv => ReplyFindsItsState
  <2> SUFFICES ASSUME IInv, NEW g \in Servers, NEW c \in Conns, InUse(g, c)
               PROVE  /\ Outstanding(g, c, "List", "ListDone") # {} => conn[g][c].state = "WHILEDOWNLOADCHARLIST"
                      /\ Outstanding(g, c, "Load", "LoadDone") # {} => conn[g][c].state = "WHILELOGIN"
    BY DEF ReplyFindsItsState
  <2>1. AskedAt(g, c)
    BY DEF IInv, AskedOnce
  <2>2. ASSUME NEW S, NEW q \in Seq(S) PROVE In(q) \subseteq S
    BY ElementOfSeq, LenProperties DEF In
  <2>3. In(toAC[g]) \subseteq Requests /\ In(toGS[g]) \subseteq Answers
    BY <2>2 DEF IInv, TypeInv
  <2>4. \A m \in About(toAC[g], c) : m.type \in {"List", "Load"} => conn[g][c].state = Waits(m.type)
    BY <2>1, <2>3 DEF About, AskedAt, AskOf
  <2>5. \A m \in About(toGS[g], c) : m.type \in {"ListDone", "LoadDone"} => conn[g][c].state = Waits(m.type)
    BY <2>1, <2>3 DEF About, AskedAt, TellOf
  <2> QED BY <2>4, <2>5 DEF Outstanding, Waits
<1> QED BY <1>1, Invariance, PTL

\* Whatever is done to locks, of two sessions of one account on two servers
\* one is about to be closed.
THEOREM SessionsKickedApart == Spec => []KickedApart
<1>1. IInv => KickedApart
  BY DEF IInv, ClaimsApart, KickedApart, Claims
<1> QED BY <1>1, Invariance, PTL

\* An account whose lock was never taken from a server that needed it is online
\* once, with its lock held by that server and no save of another on its way.
THEOREM OnlineWithTheLock == Spec => []LockedWhileOnline
<1>1. IInv => LockedWhileOnline
  <2> SUFFICES ASSUME IInv, NEW k \in CdKeys \ forced, NEW g \in Servers, SessionsOf(g, k) # {}
               PROVE  /\ lock[k] = g
                      /\ Cardinality(SessionsOf(g, k)) = 1
                      /\ \A h \in Servers \ {g} : \A m \in In(toAC[h]) : ~ (m.type = "SaveUnlock" /\ m.key = k)
    BY DEF LockedWhileOnline
  <2>1. SessionsOf(g, k) \subseteq Claims(g, k)
    BY DEF Claims
  <2>2. lock[k] = g /\ \A c, d \in Claims(g, k) : c = d
    BY <2>1 DEF IInv, OneClaim
  <2>3. Cardinality(SessionsOf(g, k)) = 1
    <3>1. PICK c : SessionsOf(g, k) = {c}
      BY <2>1, <2>2
    <3> QED BY <3>1, FS_Singleton
  <2>4. \A h \in Servers \ {g} : ~ SavesFor(h, k)
    BY <2>2 DEF IInv, OneClaim
  <2> QED BY <2>2, <2>3, <2>4 DEF SavesFor
<1> QED BY <1>1, Invariance, PTL

----------------------------------------------------------------------------
(* The end of a game server. *)

HIDE NamesAssumption

CloseStates == {"FREE", "NOTLOGIN", "LOGIN", "WHILELOGOUTSAVE", "CLOSING"}

Content(q) == {q[i] : i \in DOMAIN q}

\* c has a save on its way.
OnItsWay(c) == \E s \in Content(unsent) \cup Content(sent) : s.of = c

CloseTypeInv ==
    /\ link \in [Clients -> CloseStates]
    /\ unsent \in Seq(Saves) /\ sent \in Seq(Saves)
    /\ accept \in {-1, 0, 1} /\ num \in -1 .. Cardinality(Clients)
    /\ armed \in BOOLEAN /\ limit \in Minutes /\ ago \in Nat /\ dsp \in Int
    /\ noted \in BOOLEAN /\ stoptime \in Minutes /\ said \in BOOLEAN /\ down \in BOOLEAN
    /\ commands \in 0 .. MaxCommands

\* From the command to close on nobody comes in, and whoever is left waits.
ClosedInv ==
    /\ IF num = -1 THEN Closing = {} ELSE num = Cardinality(Closing)
    /\ Closing # {} => accept = 0 /\ \A c \in Clients : link[c] \in {"FREE", "CLOSING"}
    /\ accept = -1 => \A c \in Clients : link[c] = "FREE"
    /\ \A c \in Closing : OnItsWay(c)

CloseIInv == CloseTypeInv /\ (~ down => ClosedInv)
----------------------------------------------------------------------------
(* Saves under way. *)

\* A stream behind another holds what both held.
LEMMA ContentConcat ==
    ASSUME NEW S, NEW q \in Seq(S), NEW r \in Seq(S)
    PROVE  q \o r \in Seq(S) /\ Content(q) \subseteq Content(q \o r) /\ Content(r) \subseteq Content(q \o r)
<1>1. /\ q \o r \in Seq(S) /\ Len(q \o r) = Len(q) + Len(r)
      /\ \A i \in 1 .. Len(q) + Len(r) : (q \o r)[i] = IF i <= Len(q) THEN q[i] ELSE r[i - Len(q)]
  BY ConcatProperties
<1>2. /\ DOMAIN q = 1 .. Len(q) /\ DOMAIN r = 1 .. Len(r) /\ Len(q) \in Nat /\ Len(r) \in Nat
      /\ DOMAIN (q \o r) = 1 .. Len(q) + Len(r)
  BY <1>1, LenProperties
<1>3. ASSUME NEW i \in DOMAIN r PROVE i + Len(q) \in DOMAIN (q \o r) /\ (q \o r)[i + Len(q)] = r[i]
  BY <1>1, <1>2
<1>4. ASSUME NEW i \in DOMAIN q PROVE i \in DOMAIN (q \o r) /\ (q \o r)[i] = q[i]
  BY <1>1, <1>2
<1>5. QED
  BY <1>1, <1>3, <1>4 DEF Content

\* A save behind the others is under way, and they still are.
LEMMA ContentAppend ==
    ASSUME NEW S, NEW q \in Seq(S), NEW e \in S
    PROVE  Append(q, e) \in Seq(S) /\ Content(q) \cup {e} \subseteq Content(Append(q, e))
<1>1. /\ Append(q, e) \in Seq(S) /\ Len(Append(q, e)) = Len(q) + 1
      /\ \A i \in 1 .. Len(q) : Append(q, e)[i] = q[i]
      /\ Append(q, e)[Len(q) + 1] = e
  BY AppendProperties
<1>2. /\ DOMAIN q = 1 .. Len(q) /\ Len(q) \in Nat /\ DOMAIN Append(q, e) = 1 .. Len(q) + 1
  BY <1>1, LenProperties
<1>3. QED
  BY <1>1, <1>2 DEF Content

\* What is not the head stays.
LEMMA ContentTail ==
    ASSUME NEW S, NEW q \in Seq(S), q # <<>>
    PROVE  Tail(q) \in Seq(S) /\ Head(q) \in S /\ Content(q) \subseteq {Head(q)} \cup Content(Tail(q))
<1>1. /\ Tail(q) \in Seq(S) /\ Head(q) \in S /\ Head(q) = q[1] /\ Len(Tail(q)) = Len(q) - 1
      /\ \A i \in 1 .. Len(Tail(q)) : Tail(q)[i] = q[i + 1]
  BY HeadTailProperties
<1>2. /\ DOMAIN q = 1 .. Len(q) /\ Len(q) \in Nat /\ DOMAIN Tail(q) = 1 .. Len(q) - 1
  BY <1>1, LenProperties
<1>3. ASSUME NEW i \in DOMAIN q PROVE i = 1 \/ (i - 1 \in DOMAIN Tail(q) /\ Tail(q)[i - 1] = q[i])
  BY <1>1, <1>2
<1>4. ASSUME NEW i \in DOMAIN q PROVE q[i] \in {Head(q)} \cup Content(Tail(q))
  BY <1>1, <1>3 DEF Content
<1>5. QED
  BY <1>1, <1>4 DEF Content

\* Only the saves of c lose their connection.
LEMMA Forgotten ==
    ASSUME NEW q \in Seq(Saves), NEW c \in Clients
    PROVE  /\ Forget(q, c) \in Seq(Saves)
           /\ \A s \in Content(q) : s.of # c => s \in Content(Forget(q, c))
<1>1. DOMAIN q = 1 .. Len(q) /\ Len(q) \in Nat /\ \A i \in DOMAIN q : q[i] \in Saves
  BY LenProperties, ElementOfSeq
<1>2. ASSUME NEW i \in DOMAIN q PROVE [q[i] EXCEPT !.of = "gone"] \in Saves
  BY <1>1 DEF Saves
<1>3. Forget(q, c) \in [1 .. Len(q) -> Saves]
  BY <1>1, <1>2 DEF Forget
<1>4. Forget(q, c) \in Seq(Saves)
  BY <1>1, <1>3, SeqDef
<1>5. ASSUME NEW i \in DOMAIN q, q[i].of # c PROVE i \in DOMAIN Forget(q, c) /\ Forget(q, c)[i] = q[i]
  BY <1>5 DEF Forget
<1>6. QED
  BY <1>4, <1>5 DEF Content
----------------------------------------------------------------------------
(* The steps. *)

\* The server starts open.
LEMMA InitCloseIInv ==
    ASSUME ShutdownInit
    PROVE  CloseIInv
<1>1. Cardinality(Clients) \in Nat
  BY FS_CardinalityType, ShutdownAssumption DEF ShutdownAssumption
<1>2. <<>> \in Seq(Saves) /\ 0 \in Minutes /\ 0 \in 0 .. MaxCommands /\ -1 \in -1 .. Cardinality(Clients)
  BY <1>1, ShutdownAssumption DEF Minutes, ShutdownAssumption
<1>3. CloseTypeInv
  <2>1. link \in [Clients -> CloseStates] /\ unsent \in Seq(Saves) /\ sent \in Seq(Saves)
    BY <1>2 DEF ShutdownInit, CloseStates
  <2>2. accept \in {-1, 0, 1} /\ num \in -1 .. Cardinality(Clients) /\ commands \in 0 .. MaxCommands
    BY <1>2 DEF ShutdownInit
  <2>3. limit \in Minutes /\ ago \in Nat /\ dsp \in Int /\ stoptime \in Minutes
    BY <1>2 DEF ShutdownInit
  <2>4. armed \in BOOLEAN /\ noted \in BOOLEAN /\ said \in BOOLEAN /\ down \in BOOLEAN
    BY Zenon DEF ShutdownInit
  <2>5. QED
    BY <2>1, <2>2, <2>3, <2>4 DEF CloseTypeInv
<1>4. Closing = {}
  BY DEF Closing, ShutdownInit
<1>5. QED
  BY <1>3, <1>4 DEF ShutdownInit, CloseIInv, ClosedInv

\* As long as nobody waits, connections come and go.
LEMMA OpenStep ==
    ASSUME CloseIInv, ~ down, NEW c \in Clients, NEW from \in CloseStates \ {"CLOSING"}, NEW to \in CloseStates \ {"CLOSING"},
           link[c] = from, link' = [link EXCEPT ![c] = to],
           to # "FREE" => from # "FREE" \/ accept = 1,
           unsent' \in Seq(Saves), sent' \in Seq(Saves),
           \A d \in Closing \ {c} : OnItsWay(d) => OnItsWay(d)',
           UNCHANGED <<num, countVars, accept, noteVars, said, down, commands>>
    PROVE  CloseIInv'
<1>1. CloseTypeInv /\ ClosedInv
  BY DEF CloseIInv
<1>2. CloseTypeInv'
  BY <1>1 DEF CloseTypeInv, countVars, noteVars
<1>3. Closing' = Closing /\ c \notin Closing
  BY <1>1 DEF Closing, CloseTypeInv
<1>4. ASSUME Closing # {} PROVE link' = link
  <2>1. from = "FREE" /\ accept = 0
    BY <1>1, <1>4 DEF ClosedInv
  <2>2. to = "FREE"
    BY <2>1
  <2>3. QED
    BY <1>1, <2>1, <2>2 DEF CloseTypeInv
<1>5. ASSUME accept = -1 PROVE link' = link
  <2>1. from = "FREE"
    BY <1>1, <1>5 DEF ClosedInv
  <2>2. QED
    BY <1>1, <1>5, <2>1 DEF CloseTypeInv
<1>6. ClosedInv'
  BY <1>1, <1>3, <1>4, <1>5 DEF ClosedInv
<1>7. QED
  BY <1>2, <1>6 DEF CloseIInv

\* Everything that a step leaves alone about connections and saves
LEMMA SameClosing ==
    ASSUME CloseIInv, ~ down, CloseTypeInv', UNCHANGED closeVars, accept' # -1 \/ accept' = accept,
           Closing # {} => accept' = 0
    PROVE  CloseIInv'
<1>1. Closing' = Closing /\ \A c \in Clients : OnItsWay(c) <=> OnItsWay(c)'
  BY DEF Closing, closeVars, OnItsWay
<1>2. ClosedInv'
  <2>1. Closing \subseteq Clients
    BY DEF Closing
  <2>2. QED
    BY <1>1, <2>1 DEF CloseIInv, ClosedInv, closeVars
<1>3. QED
  BY <1>2 DEF CloseIInv

\* A new connection takes the place of one that is gone.
LEMMA AcceptClientStep ==
    ASSUME CloseIInv, ~ down, NEW c \in Clients, AcceptClient(c)
    PROVE  CloseIInv'
<1>1. /\ accept > 0 /\ link[c] = "FREE" /\ link' = [link EXCEPT ![c] = "NOTLOGIN"]
      /\ unsent' = Forget(unsent, c) /\ sent' = Forget(sent, c)
      /\ UNCHANGED <<num, countVars, accept, noteVars, said, down, commands>>
  BY DEF AcceptClient
<1>2. unsent \in Seq(Saves) /\ sent \in Seq(Saves) /\ accept = 1
  BY <1>1 DEF CloseIInv, CloseTypeInv
<1>3. unsent' \in Seq(Saves) /\ sent' \in Seq(Saves)
  BY <1>1, <1>2, Forgotten
<1>4. ASSUME NEW d \in Closing \ {c}, OnItsWay(d) PROVE OnItsWay(d)'
  <2>1. PICK s \in Content(unsent) \cup Content(sent) : s.of = d
    BY <1>4 DEF OnItsWay
  <2>2. s \in Content(Forget(unsent, c)) \cup Content(Forget(sent, c))
    BY <1>2, <1>4, <2>1, Forgotten
  <2>3. QED
    BY <1>1, <2>1, <2>2 DEF OnItsWay
<1>5. "FREE" \in CloseStates \ {"CLOSING"} /\ "NOTLOGIN" \in CloseStates \ {"CLOSING"}
  BY DEF CloseStates
<1>6. QED
  BY <1>1, <1>2, <1>3, <1>4, <1>5, OpenStep

\* Logging in, leaving and dropping do not concern those that wait.
LEMMA ComeAndGoStep ==
    ASSUME CloseIInv, ~ down, NEW c \in Clients,
           Login(c) \/ Drop(c) \/ \E to \in {"LOGIN", "WHILELOGOUTSAVE", "FREE"} : Leave(c, to)
    PROVE  CloseIInv'
<1>1. unsent \in Seq(Saves) /\ sent \in Seq(Saves) /\ link[c] \in CloseStates
  BY DEF CloseIInv, CloseTypeInv
<1>2. CloseStates \ {"CLOSING"} = {"FREE", "NOTLOGIN", "LOGIN", "WHILELOGOUTSAVE"}
  BY DEF CloseStates
<1>3. CASE Login(c)
  <2>1. /\ link[c] = "NOTLOGIN" /\ link' = [link EXCEPT ![c] = "LOGIN"]
        /\ UNCHANGED <<unsent, sent, num, countVars, accept, noteVars, said, down, commands>>
    BY <1>3 DEF Login
  <2>2. \A d \in Closing : OnItsWay(d) => OnItsWay(d)'
    BY <2>1 DEF OnItsWay
  <2>3. QED
    BY <1>1, <1>2, <2>1, <2>2, OpenStep
<1>4. CASE Drop(c)
  <2>1. /\ link[c] \in {"NOTLOGIN", "WHILELOGOUTSAVE"} /\ link' = [link EXCEPT ![c] = "FREE"]
        /\ UNCHANGED <<unsent, sent, num, countVars, accept, noteVars, said, down, commands>>
    BY <1>4 DEF Drop
  <2>2. \A d \in Closing : OnItsWay(d) => OnItsWay(d)'
    BY <2>1 DEF OnItsWay
  <2>3. PICK from \in {"NOTLOGIN", "WHILELOGOUTSAVE"} : link[c] = from
    BY <2>1
  <2>4. QED
    BY <1>1, <1>2, <2>1, <2>2, <2>3, OpenStep
<1>5. ASSUME NEW to \in {"LOGIN", "WHILELOGOUTSAVE", "FREE"}, Leave(c, to) PROVE CloseIInv'
  <2>1. /\ link[c] = "LOGIN" /\ link' = [link EXCEPT ![c] = to]
        /\ unsent' = Append(unsent, [of |-> c, last |-> (to # "LOGIN")])
        /\ UNCHANGED <<sent, num, countVars, accept, noteVars, said, down, commands>>
    BY <1>5 DEF Leave, Save
  <2>2. [of |-> c, last |-> (to # "LOGIN")] \in Saves
    BY DEF Saves
  <2>3. unsent' \in Seq(Saves) /\ Content(unsent) \subseteq Content(unsent')
    BY <1>1, <2>1, <2>2, ContentAppend
  <2>4. \A d \in Closing : OnItsWay(d) => OnItsWay(d)'
    BY <2>1, <2>3 DEF OnItsWay
  <2>5. QED
    BY <1>1, <1>2, <2>1, <2>3, <2>4, OpenStep
<1>6. QED
  BY <1>3, <1>4, <1>5

\* The command to close: those that are online wait, with a save each, and are
\* counted; a second command finds them waiting and ends the process.
LEMMA CloseStep ==
    ASSUME CloseIInv, ~ down, closeAllConnectionandSaveData,
           armed' \in BOOLEAN, limit' \in Minutes, ago' \in Nat, dsp' \in Int,
           UNCHANGED <<noteVars, said>>, commands' \in 0 .. MaxCommands
    PROVE  CloseIInv'
<1>1. /\ num' = Cardinality(LoggedIn)
      /\ link' = [c \in Clients |-> IF link[c] = "LOGIN" THEN "CLOSING" ELSE "FREE"]
      /\ accept' = IF LoggedIn = {} THEN -1 ELSE 0
      /\ down' = (Closing # {}) /\ UNCHANGED sent
  BY DEF closeAllConnectionandSaveData, CountClosing
<1>2. PICK order \in SetToSeqs(LoggedIn) :
         unsent' = unsent \o [i \in 1 .. Len(order) |-> [of |-> order[i], last |-> TRUE]]
  BY DEF closeAllConnectionandSaveData
<1>3. /\ IsFiniteSet(LoggedIn) /\ Cardinality(LoggedIn) \in Nat /\ Cardinality(Clients) \in Nat
      /\ Cardinality(LoggedIn) <= Cardinality(Clients)
  <2>1. LoggedIn \in SUBSET Clients /\ IsFiniteSet(Clients)
    BY ShutdownAssumption DEF LoggedIn, ShutdownAssumption
  <2>2. QED
    BY <2>1, FS_Subset, FS_CardinalityType
<1> DEFINE n == Cardinality(LoggedIn)
           saves == [i \in 1 .. Len(order) |-> [of |-> order[i], last |-> TRUE]]
<1>4. order \in [1 .. n -> LoggedIn] /\ \A i, j \in 1 .. n : i # j => order[i] # order[j]
  BY DEF SetToSeqs
<1>5. order \in Seq(LoggedIn) /\ Len(order) = n
  <2>1. order \in Seq(LoggedIn)
    BY <1>3, <1>4, SeqDef
  <2>2. QED
    BY <1>3, <1>4, <2>1, LenProperties
<1>6. \A c \in LoggedIn : \E i \in 1 .. n : order[i] = c
  <2>1. order \in Injection(1 .. n, LoggedIn)
    BY <1>4 DEF Injection, IsInjective
  <2>2. IsFiniteSet(1 .. n) /\ Cardinality(1 .. n) = n
    <3>1. n \in Nat
      BY <1>3
    <3> HIDE DEF n
    <3>2. 1 \in Int /\ n \in Int /\ (1 > n => n = 0) /\ n - 1 + 1 = n
      BY <3>1
    <3>3. IsFiniteSet(1 .. n) /\ Cardinality(1 .. n) = IF 1 > n THEN 0 ELSE n - 1 + 1
      BY <3>2, FS_Interval
    <3>4. QED
      BY <3>2, <3>3
  <2>3. order \in Surjection(1 .. n, LoggedIn)
    BY <1>3, <2>1, <2>2, FS_Injection
  <2>4. QED
    BY <2>3 DEF Surjection
<1>7. saves \in Seq(Saves)
  <2>1. \A i \in 1 .. n : [of |-> order[i], last |-> TRUE] \in Saves
    BY <1>4 DEF Saves, LoggedIn
  <2>2. saves \in [1 .. n -> Saves]
    BY <1>5, <2>1
  <2>3. QED
    BY <1>3, <2>2, SeqDef
<1>8. ASSUME NEW c \in LoggedIn PROVE \E s \in Content(saves) : s.of = c
  <2>1. PICK i \in 1 .. n : order[i] = c
    BY <1>6
  <2>2. i \in DOMAIN saves /\ saves[i].of = c
    BY <1>5, <2>1
  <2>3. QED
    BY <2>2 DEF Content
<1> HIDE DEF saves
<1>9. unsent' \in Seq(Saves) /\ Content(saves) \subseteq Content(unsent')
  <2>1. unsent' = unsent \o saves /\ unsent \in Seq(Saves)
    BY <1>2 DEF saves, CloseIInv, CloseTypeInv
  <2>2. QED
    BY <1>7, <2>1, ContentConcat
<1>10. Closing' = LoggedIn
  BY <1>1 DEF Closing, LoggedIn
<1>11. CloseTypeInv'
  <2>1. link' \in [Clients -> CloseStates]
    BY <1>1 DEF CloseStates
  <2>2. QED
    BY <1>1, <1>3, <1>9, <2>1 DEF CloseIInv, CloseTypeInv, noteVars
<1>12. ClosedInv'
  <2>1. \A c \in Clients : link'[c] \in {"FREE", "CLOSING"}
    BY <1>1
  <2>2. LoggedIn = {} => \A c \in Clients : link'[c] = "FREE"
    BY <1>1 DEF LoggedIn
  <2>3. \A c \in LoggedIn : OnItsWay(c)'
    BY <1>8, <1>9 DEF OnItsWay
  <2>4. num' # -1
    BY <1>1, <1>3
  <2>5. QED
    BY <1>1, <1>10, <2>1, <2>2, <2>3, <2>4 DEF ClosedInv
<1>13. QED
  BY <1>11, <1>12 DEF CloseIInv

\* The answer to a save frees the one that waits for it; the last one closes.
LEMMA LastAnswerStep ==
    ASSUME CloseIInv, ~ down, ACCharSave_recv_Close
    PROVE  CloseIInv'
<1>1. /\ sent # <<>> /\ sent' = Tail(sent)
      /\ UNCHANGED <<unsent, countVars, noteVars, commands>>
  BY DEF ACCharSave_recv_Close
<1>2. PICK c : c = Head(sent).of
  OBVIOUS
<1>3. \/ c \in Closing /\ LastSaved(c)
      \/ /\ c \notin Closing
         /\ link' = [d \in Clients |-> IF d = c /\ link[d] = "WHILELOGOUTSAVE" THEN "NOTLOGIN" ELSE link[d]]
         /\ UNCHANGED <<num, accept, said, down>>
  BY <1>2 DEF ACCharSave_recv_Close
<1>4. CloseTypeInv /\ ClosedInv
  BY DEF CloseIInv
<1>5. sent' \in Seq(Saves) /\ Content(sent) \subseteq {Head(sent)} \cup Content(sent')
  BY <1>1, <1>4, ContentTail DEF CloseTypeInv
<1>6. ASSUME NEW d, d # c, OnItsWay(d) PROVE OnItsWay(d)'
  BY <1>1, <1>2, <1>5, <1>6 DEF OnItsWay
<1>7. /\ IsFiniteSet(Closing) /\ Closing \subseteq Clients /\ Cardinality(Closing) \in Nat
      /\ Cardinality(Clients) \in Nat
  <2>1. Closing \in SUBSET Clients /\ IsFiniteSet(Clients)
    BY ShutdownAssumption DEF Closing, ShutdownAssumption
  <2>2. QED
    BY <2>1, FS_Subset, FS_CardinalityType
<1>8. CASE c \in Closing /\ LastSaved(c)
  <2>1. /\ link' = [link EXCEPT ![c] = "FREE"] /\ num' = num - 1
        /\ accept' = (IF num = 1 THEN -1 ELSE accept) /\ said' = (said \/ num = 1)
        /\ down' = (num = 1 /\ stoptime = 1)
    BY <1>8 DEF LastSaved
  <2>2. num = Cardinality(Closing) /\ accept = 0 /\ \A d \in Clients : link[d] \in {"FREE", "CLOSING"}
    BY <1>4, <1>8 DEF ClosedInv
  <2>3. Closing' = Closing \ {c}
    BY <1>4, <1>7, <1>8, <2>1 DEF Closing, CloseTypeInv
  <2>4. Cardinality(Closing') = num - 1 /\ num >= 1
    <3>1. Cardinality(Closing \ {c}) = Cardinality(Closing) - 1
      BY <1>7, <1>8, FS_RemoveElement
    <3>2. IsFiniteSet(Closing \ {c}) /\ Cardinality(Closing \ {c}) \in Nat
      BY <1>7, FS_RemoveElement, FS_CardinalityType
    <3>3. QED
      BY <1>7, <2>2, <2>3, <3>1, <3>2
  <2>5. CloseTypeInv'
    <3>1. link' \in [Clients -> CloseStates]
      BY <1>4, <2>1 DEF CloseTypeInv, CloseStates
    <3>2. num' \in -1 .. Cardinality(Clients)
      BY <1>4, <1>7, <2>1, <2>2, <2>4 DEF CloseTypeInv
    <3>3. QED
      BY <1>1, <1>4, <1>5, <2>1, <3>1, <3>2 DEF CloseTypeInv, countVars, noteVars
  <2>6. \A d \in Clients : link'[d] \in {"FREE", "CLOSING"}
    BY <1>4, <2>1, <2>2 DEF CloseTypeInv
  <2>7. ASSUME num = 1 PROVE \A d \in Clients : link'[d] = "FREE"
    <3>1. Closing' = {}
      <4>1. IsFiniteSet(Closing')
        BY <1>7, <2>3, FS_RemoveElement
      <4>2. QED
        BY <2>4, <2>7, <4>1, FS_EmptySet
    <3>2. QED
      BY <2>6, <3>1 DEF Closing
  <2>8. ASSUME num # 1 PROVE accept' = 0
    BY <2>1, <2>2, <2>8
  <2>9. Closing' # {} => num # 1
    BY <2>7 DEF Closing
  <2>10. \A d \in Closing' : OnItsWay(d)'
    BY <1>4, <1>6, <2>3 DEF ClosedInv
  <2>11. ClosedInv'
    <3>1. num' # -1 /\ num' = Cardinality(Closing')
      BY <1>7, <2>1, <2>2, <2>4
    <3>2. QED
      BY <2>1, <2>2, <2>6, <2>7, <2>8, <2>9, <2>10, <3>1 DEF ClosedInv
  <2>12. QED
    BY <2>5, <2>11 DEF CloseIInv
<1>9. CASE /\ c \notin Closing
           /\ link' = [d \in Clients |-> IF d = c /\ link[d] = "WHILELOGOUTSAVE" THEN "NOTLOGIN" ELSE link[d]]
           /\ UNCHANGED <<num, accept, said, down>>
  <2>1. link' \in [Clients -> CloseStates]
    BY <1>4, <1>9 DEF CloseTypeInv, CloseStates
  <2>2. CloseTypeInv'
    BY <1>1, <1>4, <1>5, <1>9, <2>1 DEF CloseTypeInv, countVars, noteVars
  <2>3. Closing' = Closing
    BY <1>9 DEF Closing
  <2>4. \A d \in Clients : link[d] # "WHILELOGOUTSAVE" => link'[d] = link[d]
    BY <1>9
  <2>5. \A d \in Closing : d # c
    BY <1>9
  <2>6. \A d \in Closing : OnItsWay(d)'
    BY <1>4, <1>6, <2>5 DEF ClosedInv
  <2>7. ClosedInv'
    BY <1>4, <1>9, <2>3, <2>4, <2>6 DEF ClosedInv
  <2>8. QED
    BY <2>2, <2>7 DEF CloseIInv
<1>10. QED
  BY <1>3, <1>8, <1>9

\* What is in the buffer goes out.
LEMMA WriteStep ==
    ASSUME CloseIInv, ~ down, Write
    PROVE  CloseIInv'
<1>1. /\ unsent # <<>> /\ sent' = Append(sent, Head(unsent)) /\ unsent' = Tail(unsent)
      /\ UNCHANGED <<link, num, countVars, accept, noteVars, said, down, commands>>
  BY DEF Write
<1>2. CloseTypeInv /\ ClosedInv
  BY DEF CloseIInv
<1>3. /\ unsent' \in Seq(Saves) /\ Head(unsent) \in Saves
      /\ Content(unsent) \subseteq {Head(unsent)} \cup Content(unsent')
  BY <1>1, <1>2, ContentTail DEF CloseTypeInv
<1>4. sent' \in Seq(Saves) /\ Content(sent) \cup {Head(unsent)} \subseteq Content(sent')
  BY <1>1, <1>2, <1>3, ContentAppend DEF CloseTypeInv
<1>5. \A d \in Clients : OnItsWay(d) => OnItsWay(d)'
  BY <1>3, <1>4 DEF OnItsWay
<1>6. Closing' = Closing /\ Closing \subseteq Clients
  BY <1>1 DEF Closing
<1>7. CloseTypeInv'
  BY <1>1, <1>2, <1>3, <1>4 DEF CloseTypeInv, countVars, noteVars
<1>8. ClosedInv'
  BY <1>1, <1>2, <1>5, <1>6 DEF ClosedInv
<1>9. QED
  BY <1>7, <1>8 DEF CloseIInv

\* A command is counted below its bound.
LEMMA CommandsBounded ==
    ASSUME CloseTypeInv, Command
    PROVE  commands' \in 0 .. MaxCommands
<1>1. commands \in 0 .. MaxCommands /\ commands < MaxCommands /\ commands' = commands + 1 /\ MaxCommands \in Nat
  BY ShutdownAssumption DEF ShutdownAssumption, CloseTypeInv, Command
<1>2. QED
  BY <1>1

\* Every step keeps the counter and the saves in step with those that wait.
LEMMA NextCloseIInv ==
    ASSUME CloseIInv, [ShutdownNext]_shutdownVars
    PROVE  CloseIInv'
<1>1. CloseTypeInv /\ (~ down => ClosedInv)
  BY DEF CloseIInv
<1>2. CASE UNCHANGED shutdownVars
  <2>1. UNCHANGED closeVars /\ UNCHANGED <<accept, down>>
    BY <1>2 DEF shutdownVars
  <2>2. CloseTypeInv'
    BY <1>1, <1>2 DEF CloseTypeInv, shutdownVars, closeVars, countVars, noteVars
  <2>3. CASE down
    BY <2>1, <2>2, <2>3 DEF CloseIInv
  <2>4. CASE ~ down
    BY <1>1, <2>1, <2>2, <2>4, SameClosing DEF ClosedInv
  <2>5. QED
    BY <2>3, <2>4
<1>3. ASSUME NEW c \in Clients, ~ down,
             AcceptClient(c) \/ Login(c) \/ Drop(c) \/ \E to \in {"LOGIN", "WHILELOGOUTSAVE", "FREE"} : Leave(c, to)
      PROVE  CloseIInv'
  BY <1>3, AcceptClientStep, ComeAndGoStep
<1>4. ASSUME ~ down, NEW min \in Minutes, Shutdown_recv(min) PROVE CloseIInv'
  <2>1. CloseTypeInv'
    BY <1>1, <1>4, CommandsBounded DEF Shutdown_recv, CloseTypeInv, closeVars, noteVars
  <2>2. QED
    BY <1>1, <1>4, <2>1, SameClosing DEF Shutdown_recv, ClosedInv
<1>5. ASSUME ~ down, NEW a \in {0, 1}, Sysinfo_Accept(a) PROVE CloseIInv'
  <2>1. CloseTypeInv'
    BY <1>1, <1>5, CommandsBounded DEF Sysinfo_Accept, CloseTypeInv, closeVars, noteVars, countVars
  <2>2. Closing = {}
    BY <1>1, <1>5 DEF Sysinfo_Accept, ClosedInv, LoggedIn
  <2>3. QED
    BY <1>5, <2>1, <2>2, SameClosing DEF Sysinfo_Accept
<1>6. ASSUME ~ down, NPC_Sysinfo_Msg_closeallsockets PROVE CloseIInv'
  <2>1. closeAllConnectionandSaveData /\ Command /\ UNCHANGED <<countVars, noteVars, said>>
    BY <1>6 DEF NPC_Sysinfo_Msg_closeallsockets
  <2>2. armed' \in BOOLEAN /\ limit' \in Minutes /\ ago' \in Nat /\ dsp' \in Int
    BY <1>1, <2>1 DEF countVars, CloseTypeInv
  <2>3. commands' \in 0 .. MaxCommands
    BY <1>1, <2>1, CommandsBounded
  <2>4. QED
    BY <1>6, <2>1, <2>2, <2>3, CloseStep
<1>7. ASSUME ~ down, ShutdownProc PROVE CloseIInv'
  <2>1. CASE /\ Hun # 0 /\ Hun # dsp /\ dsp' = Hun /\ accept' = IF Hun = 1 THEN 0 ELSE accept
             /\ UNCHANGED <<closeVars, armed, limit, ago, noteVars, said, down, commands>>
    <3>1. Hun \in Int
      BY <1>1, ShutdownAssumption DEF Hun, CloseTypeInv, Minutes, ShutdownAssumption
    <3>2. CloseTypeInv'
      BY <1>1, <2>1, <3>1 DEF CloseTypeInv, closeVars, noteVars
    <3>3. QED
      BY <1>1, <1>7, <2>1, <3>2, SameClosing DEF ClosedInv
  <2>2. CASE /\ closeAllConnectionandSaveData /\ armed' = FALSE /\ limit' = 0 /\ dsp' = 0
             /\ UNCHANGED <<ago, noteVars, said, commands>>
    <3>1. 0 \in Minutes /\ 0 \in Int
      BY ShutdownAssumption DEF Minutes, ShutdownAssumption
    <3>2. armed' \in BOOLEAN
      BY <2>2, Zenon
    <3>3. limit' \in Minutes /\ ago' \in Nat /\ dsp' \in Int /\ commands' \in 0 .. MaxCommands
      BY <1>1, <2>2, <3>1 DEF CloseTypeInv
    <3>4. closeAllConnectionandSaveData /\ UNCHANGED <<noteVars, said>>
      BY <2>2
    <3>5. QED
      BY <1>7, <3>2, <3>3, <3>4, CloseStep
  <2>3. QED
    BY <1>7, <2>1, <2>2 DEF ShutdownProc
<1>8. ASSUME ~ down, Minute PROVE CloseIInv'
  <2>1. CloseTypeInv'
    BY <1>1, <1>8 DEF Minute, CloseTypeInv, closeVars, noteVars
  <2>2. QED
    BY <1>1, <1>8, <2>1, SameClosing DEF Minute, ClosedInv
<1>9. ASSUME ~ down, NoteStopTime PROVE CloseIInv'
  <2>1. CloseTypeInv'
    BY <1>1, <1>9 DEF NoteStopTime, CloseTypeInv, closeVars, countVars
  <2>2. QED
    BY <1>1, <1>9, <2>1, SameClosing DEF NoteStopTime, ClosedInv
<1>10. ASSUME LoseAC PROVE CloseIInv'
  BY <1>1, <1>10 DEF LoseAC, CloseIInv, CloseTypeInv, closeVars, countVars, noteVars
<1>11. QED
  BY <1>2, <1>3, <1>4, <1>5, <1>6, <1>7, <1>8, <1>9, <1>10, WriteStep, LastAnswerStep
     DEF ShutdownNext, Running, StaysDown

\* Connections, counter and commands keep their types, for every number of them.
THEOREM ShutdownTypeCorrect == ShutdownSpec => []ShutdownTypeOK
<1>1. CloseIInv => ShutdownTypeOK
  BY DEF CloseIInv, CloseTypeInv, ShutdownTypeOK, CloseStates
<1>2. QED
  BY InitCloseIInv, NextCloseIInv, <1>1, PTL DEF ShutdownSpec

\* closeallsocketnum is the number of connections that wait for their last save
\* as long as the server runs, each of them has a save on its way whose answer
\* will free it, and a server that shows it is closed has nobody left: neither a
\* second command, nor answers to earlier saves, nor connections that come and
\* go put the counter out of step, and a shutdown does not get stuck.
THEOREM ClosingIsCounted == ShutdownSpec => []CountsTheClosing
<1>1. CloseIInv => CountsTheClosing
  BY DEF CloseIInv, ClosedInv, CountsTheClosing, OnItsWay, Content, ToSet
<1>2. QED
  BY InitCloseIInv, NextCloseIInv, <1>1, PTL DEF ShutdownSpec
===============================================================================

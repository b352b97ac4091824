---------------------------- MODULE StreamBuffers ----------------------------
(***************************************************************************)
(* The connections of the account server (saac/main.c): the table of       *)
(* connections, the table of game servers beside it, and the pool of       *)
(* buffers from which the streams of all connections are chained.          *)
(*                                                                         *)
(* A stream is a list of nodes of Cap bytes that starts at a node of its   *)
(* own.  It grows at its end and is consumed at its front; empty nodes     *)
(* behind the first go back to the pool.  Bytes are ends of line or not.   *)
(***************************************************************************)
EXTENDS Naturals, FiniteSets, Sequences, SequencesExt

CONSTANTS Conns,    \* indices of con and gs
          Nodes,     \* the pool mb: indices, 0 being none
          Cap,       \* bytes of a node
          MaxLine,   \* length of the buffer for a line
          MaxPiece,  \* bound of this model: bytes read or written at once
          SendSize,  \* bytes of send_buf
          Names      \* names of game servers

ASSUME BufferAssumption == /\ Cap \in Nat \ {0} /\ MaxLine \in Nat /\ SendSize \in Nat \ {0}
                           /\ MaxPiece \in Nat /\ Nodes \subseteq Nat \ {0} /\ "none" \notin Names
                           /\ IsFiniteSet(Nodes) /\ IsFiniteSet(Conns)

VARIABLES mbused,   \* nodes in use
          mbtext,   \* the bytes of a node
          mbnext,   \* next
          mbuse,    \* how many are in use, as it is counted
          con,      \* connections
          gsuse, gsname

poolVars   == <<mbused, mbtext, mbnext, mbuse>>
bufferVars == <<poolVars, con, gsuse, gsname>>

Free  == [use |-> FALSE, ri |-> 0, wi |-> 0, eof |-> FALSE]
Bytes == {"x", "nl"}

BufferInit ==
    /\ mbused = {} /\ mbuse = 0
    /\ mbtext = [n \in Nodes |-> <<>>]
    /\ mbnext = [n \in Nodes |-> 0]
    /\ con = [i \in Conns |-> Free]
    /\ gsuse = [i \in Conns |-> FALSE]
    /\ gsname = [i \in Conns |-> "none"]

----------------------------------------------------------------------------
(* The pool. *)

\* k free nodes.  findregBlankMemBuf goes on from the one it found last, which
\* is left out of this model: it may find any.
BlankMemBufs(k) == {s \in [1 .. k -> Nodes \ mbused] : IsInjective(s)}

\* The nodes of a list that starts at n, in order, and what they hold
Chain(n) ==
    LET From[k \in 0 .. Cardinality(Nodes)] ==
          [t \in Nodes \cup {0} |-> IF t = 0 \/ k = 0 THEN <<>> ELSE <<t>> \o From[k - 1][mbnext[t]]]
    IN  From[Cardinality(Nodes)][n]

Texts(n) == LET chain == Chain(n) IN [k \in DOMAIN chain |-> mbtext[chain[k]]]
Text(n) ==
    LET From[k \in 0 .. Cardinality(Nodes)] ==
          [t \in Nodes \cup {0} |-> IF t = 0 \/ k = 0 THEN <<>> ELSE mbtext[t] \o From[k - 1][mbnext[t]]]
    IN  From[Cardinality(Nodes)][n]

getFreeMem == (Cardinality(Nodes) - mbuse) * Cap

\* The bytes that node number k behind the last one gets, number 0 being the last
Piece(data, blank, k) ==
    LET from == IF k = 0 THEN 1 ELSE blank + (k - 1) * Cap + 1
        to   == blank + k * Cap
    IN  SubSeq(data, from, IF to < Len(data) THEN to ELSE Len(data))

\* appendMemBufList, at the end of the list that starts at top
appendMemBufList(top, data) ==
    LET last  == Last(Chain(top))
        blank == Cap - Len(mbtext[last])
        more  == IF Len(data) <= blank THEN 0 ELSE (Len(data) - blank + Cap - 1) \div Cap
    IN  \/ Len(data) >= getFreeMem /\ UNCHANGED poolVars
        \/ /\ Len(data) < getFreeMem
           /\ \E new \in BlankMemBufs(more) :
              LET path  == <<last>> \o new
                  at(n) == CHOOSE k \in DOMAIN path : path[k] = n
              IN  /\ mbused' = mbused \cup Range(path)
                  /\ mbuse' = mbuse + more
                  /\ mbtext' = [n \in Nodes |-> IF n \in Range(path)
                                  THEN mbtext[n] \o Piece(data, blank, at(n) - 1) ELSE mbtext[n]]
                  /\ mbnext' = [n \in Nodes |-> IF n \in Range(path) /\ at(n) < Len(path)
                                  THEN path[at(n) + 1] ELSE mbnext[n]]

\* What consumeMemBufList makes of the pool when it takes len bytes of a list:
\* bytes go from the front, and then every empty node behind the first goes.
\* (The first then leads to what follows the last empty one.)
Consumed(top, len) ==
    LET chain == Chain(top)
        before(k) == Len(FlattenSeq([j \in 1 .. k - 1 |-> mbtext[chain[j]]]))
        left(k)   == LET n == Len(mbtext[chain[k]])
                         t == IF len <= before(k) THEN 0 ELSE len - before(k)
                     IN  IF t >= n THEN <<>> ELSE SubSeq(mbtext[chain[k]], t + 1, n)
        empty     == {k \in 2 .. Len(chain) : left(k) = <<>>}
        rest      == IF empty = {} THEN mbnext[top]
                     ELSE LET k == CHOOSE k \in empty : \A j \in empty : j <= k
                          IN  IF k = Len(chain) THEN 0 ELSE chain[k + 1]
        gone      == {chain[k] : k \in empty}
    IN  [gone |-> gone,
         text |-> [n \in Nodes |-> IF n \in Range(chain)
                                   THEN left(CHOOSE k \in DOMAIN chain : chain[k] = n) ELSE mbtext[n]],
         next |-> [n \in Nodes |-> IF n \in gone THEN 0 ELSE IF n = top THEN rest ELSE mbnext[n]]]

consumeMemBufList(top, len) ==
    LET c == Consumed(top, len)
    IN  /\ mbtext' = c.text /\ mbnext' = c.next
        /\ mbused' = mbused \ c.gone
        /\ mbuse' = mbuse - Cardinality(c.gone)

----------------------------------------------------------------------------
(* Connections. *)

\* Mutant: mbuse does not count what is given back.
CloseStream_Uncounted(i) ==
    LET nodes == Range(Chain(con[i].ri)) \cup Range(Chain(con[i].wi))
    IN  /\ mbused' = mbused \ nodes /\ UNCHANGED mbuse
        /\ mbtext' = [n \in Nodes |-> IF n \in nodes THEN <<>> ELSE mbtext[n]]
        /\ mbnext' = [n \in Nodes |-> IF n \in nodes THEN 0 ELSE mbnext[n]]
        /\ con' = [con EXCEPT ![i] = Free]

\* Mutant: the first node of the stream that is written stays in use.
CloseStream_KeepsTop(i) ==
    LET nodes == Range(Chain(con[i].ri)) \cup Range(Tail(Chain(con[i].wi)))
    IN  /\ mbused' = mbused \ nodes /\ mbuse' = mbuse - Cardinality(nodes)
        /\ mbtext' = [n \in Nodes |-> IF n \in nodes THEN <<>> ELSE mbtext[n]]
        /\ mbnext' = [n \in Nodes |-> IF n \in nodes THEN 0 ELSE mbnext[n]]
        /\ con' = [con EXCEPT ![i] = Free]

\* tcpstruct_close: both streams are consumed and their first nodes go as well.
CloseStream(i) ==
    LET nodes == Range(Chain(con[i].ri)) \cup Range(Chain(con[i].wi))
    IN  /\ mbused' = mbused \ nodes /\ mbuse' = mbuse - Cardinality(nodes)
        /\ mbtext' = [n \in Nodes |-> IF n \in nodes THEN <<>> ELSE mbtext[n]]
        /\ mbnext' = [n \in Nodes |-> IF n \in nodes THEN 0 ELSE mbnext[n]]
        /\ con' = [con EXCEPT ![i] = Free]

tcpstruct_close(i) ==
    IF con[i].use THEN CloseStream(i) ELSE UNCHANGED <<poolVars, con>>

\* Mutant: the game server is forgotten, its connection is not closed.
logout_game_server_Open(i) ==
    /\ gsuse' = [gsuse EXCEPT ![i] = FALSE]
    /\ gsname' = [gsname EXCEPT ![i] = "none"]
    /\ UNCHANGED <<poolVars, con>>

logout_game_server(i) ==
    /\ gsuse' = [gsuse EXCEPT ![i] = FALSE]
    /\ gsname' = [gsname EXCEPT ![i] = "none"]
    /\ tcpstruct_close(i)

\* tcpstruct_accept1 and the main loop: a game server connects.  The place may
\* still have the name of the server whose stream was closed in it.
Accept1(i) ==
    /\ ~ con[i].use
    /\ \E new \in BlankMemBufs(2) :
           /\ mbused' = mbused \cup Range(new) /\ mbuse' = mbuse + 2
           /\ con' = [con EXCEPT ![i] = [use |-> TRUE, ri |-> new[1], wi |-> new[2], eof |-> FALSE]]
    /\ gsuse' = [gsuse EXCEPT ![i] = TRUE]
    /\ UNCHANGED <<mbtext, mbnext, gsname>>

\* findregBlankCon finds no free node: the place is lost.  That it finds exactly
\* one is left out of this model: the place keeps the number of that node then,
\* which is free.
Accept1_Full(i) ==
    /\ ~ con[i].use /\ mbused = Nodes
    /\ con' = [con EXCEPT ![i] = [Free EXCEPT !.use = TRUE, !.eof = TRUE]]
    /\ UNCHANGED <<poolVars, gsuse, gsname>>

Open(i) == con[i].use /\ con[i].ri # 0

\* tcpstruct_accept: as many bytes are read as would fit, but then as many do not.
ReadStream(i) ==
    /\ Open(i) /\ ~ con[i].eof
    /\ \E n \in 1 .. MaxPiece : \E data \in [1 .. n -> Bytes] :
         /\ n <= getFreeMem
         /\ appendMemBufList(con[i].ri, data)
    /\ UNCHANGED <<con, gsuse, gsname>>

RemoteClose(i) ==
    /\ Open(i) /\ ~ con[i].eof
    /\ con' = [con EXCEPT ![i].eof = TRUE]
    /\ UNCHANGED <<poolVars, gsuse, gsname>>

\* Mutant: what was sent is taken from what was received.
WriteStream_Crossed(i) ==
    /\ Open(i) /\ ~ con[i].eof
    /\ LET l == Len(Text(con[i].wi))
       IN  l > 0 /\ consumeMemBufList(con[i].ri, IF l < SendSize THEN l ELSE SendSize)
    /\ UNCHANGED <<con, gsuse, gsname>>

\* A stream is sent by SendSize bytes; a write to a blocking socket is complete.
WriteStream(i) ==
    /\ Open(i) /\ ~ con[i].eof
    /\ LET l == Len(Text(con[i].wi))
       IN  l > 0 /\ consumeMemBufList(con[i].wi, IF l < SendSize THEN l ELSE SendSize)
    /\ UNCHANGED <<con, gsuse, gsname>>

\* tcpstruct_write: what a handler sends, to any connection
netWrite(i) ==
    /\ Open(i)
    /\ \E n \in 1 .. MaxPiece : appendMemBufList(con[i].wi, [k \in 1 .. n |-> "x"])
    /\ UNCHANGED <<con, gsuse, gsname>>

\* getLineReadBuffer: the bytes before the end of the first line, if it is there
LineLen(i) == LET t == Text(con[i].ri)
                  e == {k \in DOMAIN t : t[k] = "nl"}
              IN  IF e = {} THEN Len(t) ELSE (CHOOSE k \in e : \A j \in e : k <= j) - 1
HasLine(i) == "nl" \in Range(Text(con[i].ri))
TooLong(i) == LineLen(i) > MaxLine

\* login_game_server: the name is taken unless a game server has it already.
Named(i, s) ==
    gsname' = IF \E j \in Conns : gsuse[j] /\ gsname[j] = s THEN gsname
              ELSE [gsname EXCEPT ![i] = s]

\* The main loop has a line for the dispatcher; a line that it does not
\* understand closes the stream, and the game server keeps its place.
ReadLine(i) ==
    /\ gsuse[i] /\ Open(i) /\ ~ TooLong(i) /\ HasLine(i)
    /\ \/ /\ consumeMemBufList(con[i].ri, LineLen(i) + 1)
          /\ \/ UNCHANGED gsname
             \/ \E s \in Names : Named(i, s)
          /\ UNCHANGED <<con, gsuse>>
       \/ tcpstruct_close(i) /\ UNCHANGED <<gsuse, gsname>>

\* The stream has ended and no line is left, a line is too long or the stream
\* was closed.
LogoutGameServer(i) ==
    /\ gsuse[i]
    /\ \/ Open(i) /\ (TooLong(i) \/ (con[i].eof /\ ~ HasLine(i)))
       \/ ~ con[i].use
    /\ logout_game_server(i)

BufferNext ==
    \E i \in Conns :
        \/ Accept1(i)
        \/ Accept1_Full(i)
        \/ ReadStream(i)
        \/ RemoteClose(i)
        \/ WriteStream(i)
        \/ netWrite(i)
        \/ ReadLine(i)
        \/ LogoutGameServer(i)

BufferSpec == BufferInit /\ [][BufferNext]_bufferVars

\* A view of the state for TLC in which the nodes have no names.
NodeView ==
    <<[i \in Conns |-> <<con[i].use, con[i].eof, con[i].ri # 0, gsuse[i], gsname[i],
                         Texts(con[i].ri), Texts(con[i].wi)>>],
      mbuse, Cardinality(mbused)>>

----------------------------------------------------------------------------
BufferTypeOK ==
    /\ mbused \subseteq Nodes /\ mbuse \in 0 .. Cardinality(Nodes)
    /\ \A n \in Nodes : mbtext[n] \in Seq(Bytes) /\ Len(mbtext[n]) <= Cap
    /\ mbnext \in [Nodes -> Nodes \cup {0}]
    /\ con \in [Conns -> [use : BOOLEAN, ri : Nodes \cup {0}, wi : Nodes \cup {0}, eof : BOOLEAN]]
    /\ gsuse \in [Conns -> BOOLEAN] /\ gsname \in [Conns -> Names \cup {"none"}]

\* Every node in use is in exactly one list of one connection, and the counter
\* knows how many there are: so the check of the free space is enough, and no
\* buffer is lost however streams grow, shrink, break and are accepted again.
PoolAccounted ==
    LET lists == {con[i].ri : i \in {j \in Conns : Open(j)}} \cup {con[i].wi : i \in {j \in Conns : Open(j)}}
    IN  /\ mbuse = Cardinality(mbused)
        /\ mbused = UNION {Range(Chain(l)) : l \in lists}
        /\ Cardinality(lists) = 2 * Cardinality({i \in Conns : Open(i)})
        /\ \A l, m \in lists : l # m => Range(Chain(l)) \cap Range(Chain(m)) = {}

\* What is in the buffers of a stream is read by the main loop as long as the
\* stream is open, and no name of a game server is in two places.
ServedWhileOpen ==
    \A i \in Conns :
        /\ Open(i) => gsuse[i]
        /\ \A j \in Conns : i # j /\ gsname[i] # "none" => gsname[i] # gsname[j]

StreamsOf == INSTANCE Streams
    WITH Streams <- Conns,
         inq  <- [i \in Conns |-> IF Open(i) THEN Text(con[i].ri) ELSE <<>>],
         outq <- [i \in Conns |-> IF Open(i) THEN Text(con[i].wi) ELSE <<>>]

\* The lists of nodes from one pool behave as a queue for each stream: no byte
\* is lost, doubled, reordered or given to another stream.
ImplementsStreams == StreamsOf!StreamsSpec
==============================================================================

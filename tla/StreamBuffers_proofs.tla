------------------------ MODULE StreamBuffers_proofs -------------------------
(***************************************************************************)
(* Proofs about the buffers of the streams, for every number of            *)
(* connections and buffers, every size of them and whatever is received,   *)
(* written and sent: which buffers a stream has, that no two streams have  *)
(* one in common and that none is lost.                                    *)
(*                                                                         *)
(* A stream is told by the sequence of its buffers (its path), not by the  *)
(* chain that the code walks; that the walk finds the path comes first.    *)
(***************************************************************************)
EXTENDS StreamBuffers, FiniteSetTheorems, SequenceTheorems, WellFoundedInduction, TLAPS

\* A set of numbers has a least one.
LEMMA FirstOfMany ==
    ASSUME NEW T \in SUBSET Nat, T # {}
    PROVE  \E k \in T : \A j \in T : k <= j
<1>1. PICK k \in T : \A j \in T : ~ (<<j, k>> \in OpToRel(<, Nat))
  BY NatLessThanWellFounded, WFMin
<1>2. \A j \in T : ~ (j < k)
  BY <1>1 DEF OpToRel
<1> QED BY <1>2

----------------------------------------------------------------------------
\* Walks.

Links == [Nodes -> Nodes \cup {0}]

\* f[k][t] is what is put down on a walk of at most k nodes from t.
Walk(f, next, put, k) ==
    [t \in Nodes \cup {0} |-> IF t = 0 \/ k = 0 THEN <<>> ELSE put[t] \o f[k - 1][next[t]]]
Walks(f, next, put, N) == f = [k \in 0 .. N |-> Walk(f, next, put, k)]

\* Walks of any length can be told.
LEMMA WalksExist ==
    ASSUME NEW next \in Links, NEW put, NEW N \in Nat
    PROVE  \E f : Walks(f, next, put, N)
<1> DEFINE T == {m \in Nat : ~ \E f : Walks(f, next, put, m)}
<1>1. SUFFICES ASSUME T # {} PROVE FALSE
  OBVIOUS
<1>2. PICK m \in T : \A j \in T : m <= j
  <2> T \in SUBSET Nat
    OBVIOUS
  <2> HIDE DEF T
  <2> QED BY <1>1, FirstOfMany
<1>3. m \in Nat /\ ~ \E f : Walks(f, next, put, m)
  BY <1>2
<1>4. CASE m = 0
  <2> DEFINE f == [k \in 0 .. m |-> [t \in Nodes \cup {0} |-> <<>>]]
  <2>1. \A k \in 0 .. m : Walk(f, next, put, k) = [t \in Nodes \cup {0} |-> <<>>]
    BY <1>4 DEF Walk
  <2>2. Walks(f, next, put, m)
    BY <2>1 DEF Walks
  <2> QED BY <2>2, <1>3
<1>5. CASE m # 0
  <2>1. m - 1 \in Nat /\ m - 1 \notin T
    <3>1. m - 1 \in Nat /\ ~ (m <= m - 1)
      BY <1>3, <1>5
    <3> HIDE DEF T
    <3> QED BY <3>1, <1>2
  <2>2. PICK h : Walks(h, next, put, m - 1)
    BY <2>1
  <2> DEFINE f == [k \in 0 .. m |-> Walk(h, next, put, k)]
  <2>3. ASSUME NEW k \in 0 .. m PROVE Walk(h, next, put, k) = Walk(f, next, put, k)
    <3>1. k # 0 => k - 1 \in 0 .. m /\ k - 1 \in 0 .. m - 1
      BY <1>3
    <3>2. k # 0 => f[k - 1] = Walk(h, next, put, k - 1)
      BY <3>1
    <3>3. k # 0 => h[k - 1] = Walk(h, next, put, k - 1)
      BY <3>1, <2>2 DEF Walks
    <3> HIDE DEF f
    <3>4. k # 0 => f[k - 1] = h[k - 1]
      BY <3>2, <3>3
    <3> QED BY <3>4 DEF Walk
  <2>4. f = [k \in 0 .. m |-> Walk(f, next, put, k)]
    <3> DEFINE g == [k \in 0 .. m |-> Walk(f, next, put, k)]
    <3>1. \A k \in 0 .. m : f[k] = g[k]
      BY <2>3, Zenon
    <3> QED BY <2>3, Zenon
  <2>5. Walks(f, next, put, m)
    BY <2>4, Zenon DEF Walks
  <2> QED BY <2>5, <1>3
<1> QED BY <1>4, <1>5

----------------------------------------------------------------------------
\* Paths: c are the nodes of a list that starts at top, or is empty if top is 0.

Leads(next, top, c) ==
    /\ c \in Seq(Nodes)
    /\ \A j, k \in 1 .. Len(c) : c[j] = c[k] => j = k
    /\ c = <<>> => top = 0
    /\ c # <<>> => c[1] = top /\ next[c[Len(c)]] = 0
    /\ \A k \in 1 .. Len(c) - 1 : next[c[k]] = c[k + 1]

\* g[i] is what is put down behind node i - 1 of the path.
Spells(g, put, c) ==
    /\ g[Len(c) + 1] = <<>>
    /\ \A i \in 1 .. Len(c) : g[i] = put[c[i]] \o g[i + 1]
Spelled(put, c, text) == \E g : Spells(g, put, c) /\ g[1] = text

\* No path is longer than the pool.
LEMMA PathFits ==
    ASSUME NEW c \in Seq(Nodes), \A j, k \in 1 .. Len(c) : c[j] = c[k] => j = k
    PROVE  Cardinality(Nodes) \in Nat /\ Len(c) \in Nat /\ Len(c) <= Cardinality(Nodes)
<1> DEFINE n == Len(c)
<1>1. n \in Nat /\ c \in [1 .. n -> Nodes]
  BY LenProperties
<1>2. IsFiniteSet(Nodes) /\ Cardinality(Nodes) \in Nat
  BY FS_CardinalityType, BufferAssumption
<1> HIDE DEF n
<1>3. Cardinality(1 .. n) = n
  <2>1. Cardinality(1 .. n) = IF 1 > n THEN 0 ELSE n - 1 + 1
    BY <1>1, FS_Interval
  <2> QED BY <2>1, <1>1
<1>4. c \in Injection(1 .. n, Nodes)
  BY <1>1 DEF Injection, IsInjective, n
<1>5. Cardinality(1 .. n) <= Cardinality(Nodes)
  BY <1>2, <1>4, FS_Injection
<1> QED BY <1>1, <1>2, <1>3, <1>5 DEF n

\* A walk that is long enough goes along the path.
LEMMA WalkAlong ==
    ASSUME NEW next \in Links, NEW put, NEW N \in Nat, NEW f, Walks(f, next, put, N),
           0 \notin Nodes, NEW top, NEW c, Leads(next, top, c), Len(c) <= N
    PROVE  Spelled(put, c, f[N][top])
<1> DEFINE L == Len(c)
           at(i) == IF i <= L THEN c[i] ELSE 0
           g == [i \in 1 .. L + 1 |-> f[N - i + 1][at(i)]]
<1>1. L \in Nat /\ c \in [1 .. L -> Nodes] /\ L <= N
  BY LenProperties DEF Leads
<1>2. \A i \in 1 .. L + 1 : at(i) \in Nodes \cup {0} /\ N - i + 1 \in 0 .. N
  BY <1>1
<1>3. \A i \in 1 .. L : next[c[i]] = at(i + 1)
  <2>1. L # 0 => c # <<>>
    BY <1>1
  <2> QED BY <1>1, <2>1 DEF Leads
<1>4. top = at(1)
  <2>1. L = 0 <=> c = <<>>
    BY EmptySeq, <1>1 DEF Leads
  <2> QED BY <2>1, <1>1 DEF Leads
<1>5. \A k \in 0 .. N : f[k] = Walk(f, next, put, k)
  BY DEF Walks
<1> HIDE DEF at
<1>6. g[L + 1] = <<>>
  <2>1. at(L + 1) = 0
    BY <1>1 DEF at
  <2>2. L + 1 \in 1 .. L + 1 /\ N - (L + 1) + 1 \in 0 .. N
    BY <1>1
  <2>3. g[L + 1] = f[N - (L + 1) + 1][at(L + 1)]
    BY <2>2
  <2>4. f[N - (L + 1) + 1][0] = <<>>
    BY <2>2, <1>5 DEF Walk
  <2> QED BY <2>1, <2>3, <2>4
<1>7. ASSUME NEW i \in 1 .. L PROVE g[i] = put[c[i]] \o g[i + 1]
  <2>1. i \in 1 .. L + 1 /\ i + 1 \in 1 .. L + 1 /\ N - i + 1 \in 0 .. N /\ N - i + 1 # 0
        /\ c[i] \in Nodes /\ c[i] # 0 /\ at(i) = c[i] /\ (N - i + 1) - 1 = N - (i + 1) + 1
    BY <1>1 DEF at
  <2>2. g[i] = f[N - i + 1][c[i]] /\ g[i + 1] = f[N - (i + 1) + 1][at(i + 1)]
    BY <2>1
  <2>3. f[N - i + 1][c[i]] = put[c[i]] \o f[(N - i + 1) - 1][next[c[i]]]
    <3> DEFINE k == N - i + 1
    <3>1. f[k] = Walk(f, next, put, k) /\ k # 0 /\ c[i] \in Nodes \cup {0} /\ c[i] # 0
      BY <2>1, <1>5
    <3> HIDE DEF k
    <3>2. f[k][c[i]] = put[c[i]] \o f[k - 1][next[c[i]]]
      BY <3>1 DEF Walk
    <3> QED BY <3>2 DEF k
  <2> QED BY <2>1, <2>2, <2>3, <1>3
<1>8. g[1] = f[N][top]
  <2>1. 1 \in 1 .. L + 1 /\ N - 1 + 1 = N
    BY <1>1
  <2> QED BY <2>1, <1>4
<1>9. Spells(g, put, c)
  BY <1>6, <1>7 DEF Spells
<1> HIDE DEF g
<1> QED BY <1>8, <1>9 DEF Spelled

\* Chain and Text, of any list.
ChainBy(next, n) ==
    LET From[k \in 0 .. Cardinality(Nodes)] ==
          [t \in Nodes \cup {0} |-> IF t = 0 \/ k = 0 THEN <<>> ELSE <<t>> \o From[k - 1][next[t]]]
    IN  From[Cardinality(Nodes)][n]
TextBy(next, text, n) ==
    LET From[k \in 0 .. Cardinality(Nodes)] ==
          [t \in Nodes \cup {0} |-> IF t = 0 \/ k = 0 THEN <<>> ELSE text[t] \o From[k - 1][next[t]]]
    IN  From[Cardinality(Nodes)][n]

\* The text of a list is what its nodes hold, one after the other.
LEMMA TextSpelled ==
    ASSUME NEW next \in Links, NEW text, NEW top, NEW c, Leads(next, top, c)
    PROVE  Spelled(text, c, TextBy(next, text, top))
<1> DEFINE N == Cardinality(Nodes)
           f == CHOOSE f : Walks(f, next, text, N)
<1>1. N \in Nat /\ Len(c) <= N
  BY PathFits DEF Leads
<1>2. Walks(f, next, text, N)
  <2>1. \E h : Walks(h, next, text, N)
    BY <1>1, WalksExist
  <2> QED BY <2>1, Zenon
<1>3. TextBy(next, text, top) = f[N][top]
  BY Zenon DEF TextBy, Walks, Walk
<1>4. 0 \notin Nodes
  BY BufferAssumption
<1> HIDE DEF f, N
<1> QED BY <1>1, <1>2, <1>3, <1>4, WalkAlong

\* The chain of a list is its path.
LEMMA ChainIsPath ==
    ASSUME NEW next \in Links, NEW top, NEW c, Leads(next, top, c)
    PROVE  ChainBy(next, top) = c
<1> DEFINE N == Cardinality(Nodes)
           put == [t \in Nodes |-> <<t>>]
           f == CHOOSE f : f = [k \in 0 .. N |-> [t \in Nodes \cup {0} |->
                  IF t = 0 \/ k = 0 THEN <<>> ELSE <<t>> \o f[k - 1][next[t]]]]
<1>1. N \in Nat /\ Len(c) \in Nat /\ Len(c) <= N
  BY PathFits DEF Leads
<1>2. ASSUME NEW h
      PROVE  Walks(h, next, put, N) <=> h = [k \in 0 .. N |-> [t \in Nodes \cup {0} |->
                  IF t = 0 \/ k = 0 THEN <<>> ELSE <<t>> \o h[k - 1][next[t]]]]
  <2>1. ASSUME NEW k \in 0 .. N
        PROVE  Walk(h, next, put, k) = [t \in Nodes \cup {0} |->
                  IF t = 0 \/ k = 0 THEN <<>> ELSE <<t>> \o h[k - 1][next[t]]]
    BY DEF Walk
  <2> QED BY <2>1 DEF Walks
<1>3. Walks(f, next, put, N)
  <2> HIDE DEF put
  <2>1. \E h : Walks(h, next, put, N)
    BY <1>1, WalksExist
  <2>2. PICK h : Walks(h, next, put, N)
    BY <2>1
  <2>3. \E h1 : h1 = [k \in 0 .. N |-> [t \in Nodes \cup {0} |->
                  IF t = 0 \/ k = 0 THEN <<>> ELSE <<t>> \o h1[k - 1][next[t]]]]
    BY <2>2, <1>2
  <2>4. f = [k \in 0 .. N |-> [t \in Nodes \cup {0} |->
                  IF t = 0 \/ k = 0 THEN <<>> ELSE <<t>> \o f[k - 1][next[t]]]]
    BY <2>3, Zenon
  <2> QED BY <2>4, <1>2
<1>4. ChainBy(next, top) = f[N][top]
  BY Zenon DEF ChainBy
<1>5. 0 \notin Nodes
  BY BufferAssumption
<1> HIDE DEF f, N
<1>6. PICK g : Spells(g, put, c) /\ g[1] = f[N][top]
  <2> HIDE DEF put
  <2>1. Spelled(put, c, f[N][top])
    BY <1>1, <1>3, <1>5, WalkAlong
  <2> QED BY <2>1 DEF Spelled
<1> DEFINE L == Len(c)
           T == {m \in 0 .. L : g[L + 1 - m] # SubSeq(c, L + 1 - m, L)}
<1>7. c \in Seq(Nodes) /\ L \in Nat /\ c \in [1 .. L -> Nodes]
  BY LenProperties DEF Leads
<1>8. T = {}
  <2>1. SUFFICES ASSUME T # {} PROVE FALSE
    OBVIOUS
  <2>2. PICK m \in T : \A j \in T : m <= j
    <3> T \in SUBSET Nat
      BY <1>7
    <3> HIDE DEF T
    <3> QED BY <2>1, FirstOfMany
  <2>3. m \in 0 .. L /\ g[L + 1 - m] # SubSeq(c, L + 1 - m, L)
    BY <2>2
  <2>4. m # 0
    <3>1. g[L + 1] = <<>>
      BY <1>6 DEF Spells
    <3>2. SubSeq(c, L + 1, L) = <<>>
      BY <1>7, SubSeqEmpty
    <3>3. SUFFICES ASSUME m = 0 PROVE FALSE
      OBVIOUS
    <3>4. L + 1 - m = L + 1
      BY <3>3, <1>7
    <3> QED BY <3>1, <3>2, <3>4, <2>3
  <2>5. m - 1 \in 0 .. L /\ ~ (m <= m - 1)
    BY <2>3, <2>4, <1>7
  <2>6. g[L + 1 - (m - 1)] = SubSeq(c, L + 1 - (m - 1), L)
    <3>1. m - 1 \notin T
      <4> HIDE DEF T
      <4> QED BY <2>5, <2>2
    <3> QED BY <3>1, <2>5
  <2> DEFINE i == L + 1 - m
  <2>7. i \in 1 .. L /\ L \in i .. L /\ L + 1 - (m - 1) = i + 1
    BY <2>3, <2>4, <1>7
  <2>8. g[i] = put[c[i]] \o g[i + 1] /\ put[c[i]] = <<c[i]>>
    BY <2>7, <1>6, <1>7 DEF Spells
  <2>9. SubSeq(c, i, L) = <<c[i]>> \o SubSeq(c, i + 1, L)
    <3> HIDE DEF i, L
    <3> QED BY <2>7, <1>7, SubSeqRecursiveFirst DEF L
  <2> QED BY <2>3, <2>6, <2>7, <2>8, <2>9
<1>9. g[1] = SubSeq(c, 1, L)
  <2>1. L \in 0 .. L /\ L + 1 - L = 1
    BY <1>7
  <2> QED BY <2>1, <1>8
<1> QED BY <1>4, <1>6, <1>7, <1>9, SubSeqFull

----------------------------------------------------------------------------
\* The nodes of the streams S: stream s starts at top[s] and P[s] is its path.

On(c, n) == \E k \in 1 .. Len(c) : c[k] = n

Paths(S, top, P, next) == \A s \in S : Leads(next, top[s], P[s])
Filled(S, P, text) == \A s \in S : \A k \in 2 .. Len(P[s]) : text[P[s][k]] # <<>>
Apart(S, P) == \A s, t \in S : \A n \in Nodes : On(P[s], n) /\ On(P[t], n) => s = t
Owned(S, P, used) == \A n \in Nodes : n \in used <=> \E s \in S : On(P[s], n)
Clean(used, next, text) == \A n \in Nodes \ used : next[n] = 0 /\ text[n] = <<>>

Held(S, top, P, used, next, text) ==
    /\ P \in [S -> Seq(Nodes)] /\ used \in SUBSET Nodes
    /\ Paths(S, top, P, next) /\ Filled(S, P, text) /\ Apart(S, P)
    /\ Owned(S, P, used) /\ Clean(used, next, text)

\* What is read from a path.
LEMMA PathFacts ==
    ASSUME NEW c \in Seq(Nodes)
    PROVE  /\ Len(c) \in Nat /\ c \in [1 .. Len(c) -> Nodes]
           /\ c = <<>> <=> Len(c) = 0
           /\ \A k \in 1 .. Len(c) : c[k] \in Nodes /\ On(c, c[k])
<1>1. Len(c) \in Nat /\ c \in [1 .. Len(c) -> Nodes]
  BY LenProperties
<1>2. c = <<>> <=> Len(c) = 0
  BY EmptySeq
<1> QED BY <1>1, <1>2 DEF On

\* The nodes of a path that gets more at its end.
LEMMA OnConcat ==
    ASSUME NEW c \in Seq(Nodes), NEW d \in Seq(Nodes), NEW n
    PROVE  On(c \o d, n) <=> On(c, n) \/ On(d, n)
<1>1. /\ Len(c \o d) = Len(c) + Len(d) /\ Len(c) \in Nat /\ Len(d) \in Nat
      /\ \A i \in 1 .. Len(c) + Len(d) : (c \o d)[i] = IF i <= Len(c) THEN c[i] ELSE d[i - Len(c)]
  BY ConcatProperties, LenProperties
<1> DEFINE e == c \o d
<1>2. Len(e) = Len(c) + Len(d)
      /\ \A i \in 1 .. Len(c) + Len(d) : e[i] = IF i <= Len(c) THEN c[i] ELSE d[i - Len(c)]
  BY <1>1
<1> HIDE DEF e
<1>3. ASSUME NEW k \in 1 .. Len(c) PROVE k \in 1 .. Len(e) /\ e[k] = c[k]
  BY <1>1, <1>2
<1>4. ASSUME NEW k \in 1 .. Len(d) PROVE k + Len(c) \in 1 .. Len(e) /\ e[k + Len(c)] = d[k]
  BY <1>1, <1>2
<1>5. ASSUME NEW k \in 1 .. Len(e) PROVE (k \in 1 .. Len(c) /\ e[k] = c[k])
                                         \/ (k - Len(c) \in 1 .. Len(d) /\ e[k] = d[k - Len(c)])
  BY <1>1, <1>2
<1>6. On(c, n) => On(e, n)
  BY <1>3 DEF On
<1>7. On(d, n) => On(e, n)
  BY <1>4 DEF On
<1>8. On(e, n) => On(c, n) \/ On(d, n)
  BY <1>5 DEF On
<1> QED BY <1>6, <1>7, <1>8 DEF e

\* Streams keep their path when the nodes on it keep their successor.
LEMMA LeadsOn ==
    ASSUME NEW next, NEW next2, NEW top, NEW c, Leads(next, top, c),
           \A n \in Nodes : On(c, n) => next2[n] = next[n]
    PROVE  Leads(next2, top, c)
<1>1. c \in Seq(Nodes) /\ Len(c) \in Nat /\ (c = <<>> <=> Len(c) = 0)
      /\ \A k \in 1 .. Len(c) : c[k] \in Nodes /\ On(c, c[k])
  BY PathFacts DEF Leads
<1>2. \A k \in 1 .. Len(c) : next2[c[k]] = next[c[k]]
  BY <1>1
<1>3. c # <<>> => next2[c[Len(c)]] = 0
  BY <1>1, <1>2 DEF Leads
<1>4. \A k \in 1 .. Len(c) - 1 : next2[c[k]] = c[k + 1]
  BY <1>1, <1>2 DEF Leads
<1> QED BY <1>3, <1>4 DEF Leads

\* What one stream s does with nodes of its own and with free ones.
OneChanges(S, s, top, top2, P, Q, used, used2, next, next2, text, text2) ==
    /\ Q \in [S -> Seq(Nodes)] /\ used2 \in SUBSET Nodes
    /\ \A t \in S : t # s => Q[t] = P[t] /\ top2[t] = top[t]
    /\ Leads(next2, top2[s], Q[s])
    /\ \A k \in 2 .. Len(Q[s]) : text2[Q[s][k]] # <<>>
    /\ \A n \in Nodes : On(Q[s], n) => On(P[s], n) \/ n \notin used
    /\ \A n \in Nodes : n \in used2 <=> (n \in used /\ ~ On(P[s], n)) \/ On(Q[s], n)
    /\ \A n \in Nodes : n \in used /\ ~ On(P[s], n) => next2[n] = next[n] /\ text2[n] = text[n]
    /\ \A n \in Nodes \ used2 : next2[n] = 0 /\ text2[n] = <<>>

\* It keeps the others.
LEMMA OneStreamChanges ==
    ASSUME NEW S, NEW top, NEW P, NEW used, NEW next, NEW text,
           Held(S, top, P, used, next, text),
           NEW s \in S, NEW Q, NEW top2, NEW used2, NEW next2, NEW text2,
           OneChanges(S, s, top, top2, P, Q, used, used2, next, next2, text, text2)
    PROVE  Held(S, top2, Q, used2, next2, text2)
<1> USE DEF Held, OneChanges
<1>1. ASSUME NEW t \in S, t # s, NEW n \in Nodes, On(P[t], n)
      PROVE  n \in used /\ ~ On(P[s], n) /\ ~ On(Q[s], n) /\ next2[n] = next[n] /\ text2[n] = text[n]
  <2>1. n \in used
    BY <1>1 DEF Owned
  <2>2. ~ On(P[s], n)
    BY <1>1 DEF Apart
  <2> QED BY <2>1, <2>2
<1>2. Paths(S, top2, Q, next2)
  <2>1. ASSUME NEW t \in S, t # s PROVE Leads(next2, top2[t], Q[t])
    <3>1. Leads(next, top[t], P[t])
      BY DEF Paths
    <3>2. \A n \in Nodes : On(P[t], n) => next2[n] = next[n]
      BY <1>1, <2>1
    <3>3. Leads(next2, top[t], P[t])
      BY <3>1, <3>2, LeadsOn
    <3> QED BY <3>3, <2>1
  <2> QED BY <2>1 DEF Paths
<1>3. Filled(S, Q, text2)
  <2>1. ASSUME NEW t \in S, t # s, NEW k \in 2 .. Len(Q[t]) PROVE text2[Q[t][k]] # <<>>
    <3>1. Q[t] = P[t] /\ P[t] \in Seq(Nodes)
      BY <2>1
    <3>2. Len(P[t]) \in Nat /\ k \in 1 .. Len(P[t])
      BY <3>1, PathFacts
    <3>3. P[t][k] \in Nodes /\ On(P[t], P[t][k])
      BY <3>1, <3>2, PathFacts
    <3>4. text2[P[t][k]] = text[P[t][k]]
      BY <3>3, <1>1, <2>1
    <3>5. text[P[t][k]] # <<>>
      BY <3>1 DEF Filled
    <3> QED BY <3>1, <3>4, <3>5
  <2> QED BY <2>1 DEF Filled
<1>4. Apart(S, Q)
  <2>1. ASSUME NEW t \in S, NEW u \in S, NEW n \in Nodes, On(Q[t], n), On(Q[u], n) PROVE t = u
    <3>1. CASE t # s /\ u # s
      BY <3>1, <2>1 DEF Apart
    <3>2. CASE t = s /\ u # s
      BY <3>2, <2>1, <1>1
    <3>3. CASE u = s /\ t # s
      BY <3>3, <2>1, <1>1
    <3> QED BY <3>1, <3>2, <3>3
  <2> QED BY <2>1 DEF Apart
<1>5. Owned(S, Q, used2)
  <2>1. ASSUME NEW n \in Nodes PROVE n \in used2 <=> \E t \in S : On(Q[t], n)
    <3>1. CASE On(Q[s], n)
      BY <3>1
    <3>2. CASE ~ On(Q[s], n)
      <4>1. n \in used2 => \E t \in S : On(Q[t], n)
        <5>1. ASSUME n \in used2 PROVE \E t \in S : On(Q[t], n)
          <6>1. n \in used /\ ~ On(P[s], n)
            BY <5>1, <3>2
          <6>2. PICK t \in S : On(P[t], n)
            BY <6>1 DEF Owned
          <6>3. t # s
            BY <6>1, <6>2
          <6> QED BY <6>2, <6>3
        <5> QED BY <5>1
      <4>2. ASSUME NEW t \in S, On(Q[t], n) PROVE n \in used2
        <5>1. t # s
          BY <4>2, <3>2
        <5>2. On(P[t], n)
          BY <4>2, <5>1
        <5> QED BY <5>1, <5>2, <1>1
      <4> QED BY <4>1, <4>2
    <3> QED BY <3>1, <3>2
  <2> QED BY <2>1 DEF Owned
<1>6. Clean(used2, next2, text2)
  BY DEF Clean
<1> QED BY <1>2, <1>3, <1>4, <1>5, <1>6

----------------------------------------------------------------------------
\* Numbers of nodes and bytes.

\* Products grow with their factors.
LEMMA Products ==
    ASSUME NEW c \in Nat, NEW j \in Nat, NEW k \in Nat, j <= k
    PROVE  j * c \in Nat /\ k * c \in Nat /\ j * c <= k * c
<1>1. k - j \in Nat /\ k = j + (k - j)
  OBVIOUS
<1>2. PICK d \in Nat : k = j + d
  BY <1>1
<1>3. j * c \in Nat /\ d * c \in Nat
  OBVIOUS
<1>4. k * c = j * c + d * c
  BY <1>2
<1> QED BY <1>3, <1>4

\* One more factor.
LEMMA OneMore ==
    ASSUME NEW c \in Nat, NEW k \in Nat \ {0}
    PROVE  (k - 1) * c \in Nat /\ k * c = (k - 1) * c + c
<1>1. k - 1 \in Nat
  OBVIOUS
<1>2. PICK j \in Nat : j = k - 1
  BY <1>1
<1>3. k = j + 1
  BY <1>2
<1>4. j * c \in Nat /\ (j + 1) * c = j * c + c
  OBVIOUS
<1> QED BY <1>2, <1>3, <1>4

\* The quotient, rounded up, of x by c.
LEMMA Quotient ==
    ASSUME NEW c \in Nat \ {0}, NEW x \in Nat \ {0}
    PROVE  /\ (x + c - 1) \div c \in Nat \ {0}
           /\ ((x + c - 1) \div c - 1) * c < x
           /\ x <= ((x + c - 1) \div c) * c
<1> DEFINE y == x + c - 1
           q == y \div c
           r == y % c
<1>1. y \in Nat /\ y >= c
  OBVIOUS
<1>2. q \in Int /\ r \in 0 .. c - 1 /\ y = c * q + r
  BY <1>1
<1> HIDE DEF q, r
<1>3. q > 0
  <2>1. SUFFICES ASSUME q <= 0 PROVE FALSE
    BY <1>2
  <2>2. c * q <= 0
    BY <2>1, <1>2
  <2> HIDE DEF y
  <2> QED BY <2>2, <1>1, <1>2
<1>4. q \in Nat \ {0}
  BY <1>2, <1>3
<1>5. (q - 1) * c \in Nat /\ q * c = (q - 1) * c + c
  BY <1>4, OneMore
<1>6. c * q = q * c
  BY <1>4
<1> DEFINE p == (q - 1) * c
<1>7. p \in Nat /\ x + c - 1 = p + c + r
  BY <1>2, <1>5, <1>6
<1> HIDE DEF p
<1>8. p < x /\ x <= p + c
  BY <1>7, <1>2
<1>9. p < x /\ x <= q * c
  BY <1>8, <1>5 DEF p
<1> QED BY <1>4, <1>9 DEF p, q

\* How many nodes are needed for what does not fit.
More(data, blank) == IF Len(data) <= blank THEN 0 ELSE (Len(data) - blank + Cap - 1) \div Cap

\* The bytes before those of node k behind the last one.
Offset(blank, k) == IF k = 0 THEN 0 ELSE blank + (k - 1) * Cap

\* They are as many as it takes.
LEMMA MoreFacts ==
    ASSUME NEW data \in Seq(Bytes), NEW blank \in Nat
    PROVE  LET D == Len(data)
               M == More(data, blank)
           IN  M \in Nat /\ (M # 0 => D > blank /\ (M - 1) * Cap < D - blank /\ D - blank <= M * Cap)
                        /\ (M = 0 => D <= blank)
<1> DEFINE D == Len(data)
           M == More(data, blank)
<1>1. Len(data) \in Nat /\ Cap \in Nat \ {0} /\ Cap \in Nat
  BY LenProperties, BufferAssumption
<1>2. M \in Nat /\ (M # 0 => D > blank /\ (M - 1) * Cap < D - blank /\ D - blank <= M * Cap)
               /\ (M = 0 => D <= blank)
  <2>1. CASE D <= blank
    BY <2>1 DEF More
  <2>2. CASE D > blank
    <3> DEFINE x == D - blank
    <3>1. x \in Nat \ {0}
      BY <2>2, <1>1
    <3>2. M = (x + Cap - 1) \div Cap
      BY <2>2, <1>1 DEF More
    <3> HIDE DEF x, M
    <3>3. M \in Nat \ {0} /\ (M - 1) * Cap < x /\ x <= M * Cap
      BY <3>1, <3>2, <1>1, Quotient
    <3> QED BY <3>3, <2>2 DEF x
  <2> QED BY <2>1, <2>2, <1>1
<1> QED BY <1>2

\* Where pieces begin and end.
LEMMA PieceBounds ==
    ASSUME NEW data \in Seq(Bytes), NEW blank \in Nat, NEW k \in Nat, k <= More(data, blank)
    PROVE  /\ More(data, blank) \in Nat
           /\ Offset(blank, k) \in Nat /\ Offset(blank, k + 1) \in Nat
           /\ Offset(blank, k + 1) = Offset(blank, k) + IF k = 0 THEN blank ELSE Cap
           /\ k = More(data, blank) => Len(data) <= Offset(blank, k + 1)
           /\ k < More(data, blank) => Offset(blank, k + 1) < Len(data)
           /\ Piece(data, blank, k) = SubSeq(data, Offset(blank, k) + 1,
                 IF Offset(blank, k + 1) < Len(data) THEN Offset(blank, k + 1) ELSE Len(data))
<1>1. Len(data) \in Nat /\ Cap \in Nat \ {0} /\ Cap \in Nat
  BY LenProperties, BufferAssumption
<1> DEFINE D == Len(data)
           M == More(data, blank)
<1>2. M \in Nat /\ (M # 0 => D > blank /\ (M - 1) * Cap < D - blank /\ D - blank <= M * Cap)
               /\ (M = 0 => D <= blank)
  BY MoreFacts
<1> HIDE DEF M, D
<1>3. k * Cap \in Nat
  BY <1>1
<1>4. Offset(blank, k + 1) = blank + k * Cap
  <2>1. k + 1 # 0 /\ (k + 1) - 1 = k
    OBVIOUS
  <2> QED BY <2>1 DEF Offset
<1>5. k # 0 => (k - 1) * Cap \in Nat /\ k * Cap = (k - 1) * Cap + Cap
  BY <1>1, OneMore
<1>6. Offset(blank, k) \in Nat
  BY <1>5 DEF Offset
<1>7. Offset(blank, k + 1) = Offset(blank, k) + IF k = 0 THEN blank ELSE Cap
  <2>1. CASE k = 0
    <3>1. k * Cap = 0
      BY <2>1, <1>1
    <3> QED BY <3>1, <1>4, <2>1 DEF Offset
  <2>2. CASE k # 0
    <3> DEFINE p == (k - 1) * Cap
    <3>1. Offset(blank, k) = blank + p /\ k * Cap = p + Cap /\ p \in Nat
      BY <2>2, <1>5 DEF Offset
    <3> HIDE DEF p
    <3> QED BY <3>1, <1>4, <2>2, <1>1
  <2> QED BY <2>1, <2>2
<1>8. k = M => D <= Offset(blank, k + 1)
  <2>1. CASE M = 0
    BY <2>1, <1>2, <1>4, <1>3, <1>1 DEF D
  <2>2. CASE M # 0
    BY <2>2, <1>2, <1>4, <1>3, <1>1 DEF D
  <2> QED BY <2>1, <2>2
<1>9. k < M => Offset(blank, k + 1) < D
  <2>1. SUFFICES ASSUME k < M PROVE Offset(blank, k + 1) < D
    OBVIOUS
  <2>2. M - 1 \in Nat /\ k <= M - 1 /\ M # 0
    BY <2>1, <1>2
  <2> DEFINE m == M - 1
  <2>3. (M - 1) * Cap < D - blank
    BY <2>2, <1>2
  <2>4. k * Cap <= m * Cap /\ m * Cap \in Nat
    <3>1. m \in Nat /\ k <= m
      BY <2>2
    <3> HIDE DEF m
    <3> QED BY <3>1, <1>1, Products
  <2> DEFINE a == k * Cap
             b == m * Cap
  <2>5. a \in Nat /\ b \in Nat /\ a <= b /\ b < D - blank /\ Offset(blank, k + 1) = blank + a
    BY <2>3, <2>4, <1>3, <1>4
  <2> HIDE DEF a, b
  <2> QED BY <2>5, <1>1 DEF D
<1>10. Piece(data, blank, k) = SubSeq(data, Offset(blank, k) + 1,
                 IF Offset(blank, k + 1) < Len(data) THEN Offset(blank, k + 1) ELSE Len(data))
  <2> DEFINE e == Offset(blank, k + 1)
             a == Offset(blank, k) + 1
             b == IF k = 0 THEN 1 ELSE blank + (k - 1) * Cap + 1
  <2>1. a = b
    <3>1. CASE k = 0
      BY <3>1 DEF Offset
    <3>2. CASE k # 0
      BY <3>2 DEF Offset
    <3> QED BY <3>1, <3>2
  <2>2. Piece(data, blank, k) = SubSeq(data, b, IF e < Len(data) THEN e ELSE Len(data))
    BY <1>4, Zenon DEF Piece
  <2> HIDE DEF a, b, e
  <2>3. Piece(data, blank, k) = SubSeq(data, a, IF e < Len(data) THEN e ELSE Len(data))
    BY <2>1, <2>2
  <2> QED BY <2>3 DEF a, e
<1> QED BY <1>2, <1>3, <1>4, <1>6, <1>7, <1>8, <1>9, <1>10, <1>1 DEF M, D

\* A piece fits, and behind the last node none is empty.
LEMMA PieceSize ==
    ASSUME NEW data \in Seq(Bytes), NEW blank \in Nat, NEW k \in Nat, k <= More(data, blank)
    PROVE  /\ Piece(data, blank, k) \in Seq(Bytes)
           /\ Len(Piece(data, blank, k)) \in Nat
           /\ Len(Piece(data, blank, k)) <= IF k = 0 THEN blank ELSE Cap
           /\ k # 0 => Len(Piece(data, blank, k)) # 0
<1> DEFINE D == Len(data)
           a == Offset(blank, k)
           b == Offset(blank, k + 1)
           to == IF b < D THEN b ELSE D
<1>1. D \in Nat /\ Cap \in Nat \ {0} /\ data \in [1 .. D -> Bytes]
  BY LenProperties, BufferAssumption
<1>2. /\ a \in Nat /\ b \in Nat /\ b = a + IF k = 0 THEN blank ELSE Cap
      /\ Piece(data, blank, k) = SubSeq(data, a + 1, to)
  BY PieceBounds
<1>3. k # 0 => a < D
  <2>1. SUFFICES ASSUME k # 0 PROVE a < D
    OBVIOUS
  <2> DEFINE j == k - 1
  <2>2. j \in Nat /\ j + 1 = k
    BY <2>1
  <2>3. More(data, blank) \in Nat
    BY MoreFacts
  <2>4. j < More(data, blank) /\ j <= More(data, blank)
    BY <2>2, <2>3
  <2> HIDE DEF j, D
  <2>5. Offset(blank, j + 1) < Len(data)
    BY <2>2, <2>4, PieceBounds
  <2> QED BY <2>2, <2>5 DEF D
<1> HIDE DEF a, b
<1>4. to \in Nat /\ to <= D /\ to <= b /\ (k # 0 => a + 1 <= to)
  BY <1>1, <1>2, <1>3
<1> HIDE DEF to, D
<1>5. \A i \in a + 1 .. to : data[i] \in Bytes
  <2>1. \A i \in a + 1 .. to : i \in 1 .. D
    BY <1>1, <1>2, <1>4
  <2> QED BY <2>1, <1>1
<1> DEFINE m == a + 1
           p == SubSeq(data, m, to)
<1>6. m \in Int /\ to \in Int /\ \A i \in m .. to : data[i] \in Bytes
  BY <1>2, <1>4, <1>5
<1>7. p \in Seq(Bytes) /\ Len(p) = IF m <= to THEN to - m + 1 ELSE 0
  <2> HIDE DEF m
  <2> QED BY <1>6, SubSeqProperties
<1>8. p = Piece(data, blank, k)
  BY <1>2 DEF to
<1> HIDE DEF p
<1>9. Len(p) \in Nat /\ Len(p) <= (IF k = 0 THEN blank ELSE Cap) /\ (k # 0 => Len(p) # 0)
  BY <1>1, <1>2, <1>4, <1>7
<1> QED BY <1>7, <1>8, <1>9

----------------------------------------------------------------------------
\* A stream grows.

\* The pool is of its types, and its counter is right.
Pool(used, next, text, use) ==
    /\ used \in SUBSET Nodes /\ next \in Links
    /\ text \in [Nodes -> Seq(Bytes)] /\ \A n \in Nodes : Len(text[n]) <= Cap
    /\ use = Cardinality(used)

\* Behind node last, the nodes d, which hold what does not fit in it.
GrowsBy(last, d, data) ==
    LET blank == Cap - Len(mbtext[last])
    IN  /\ d \in Seq(Nodes) /\ Len(d) = More(data, blank)
        /\ \A j, k \in 1 .. Len(d) : d[j] = d[k] => j = k
        /\ \A n \in Nodes : On(d, n) => n \notin mbused
        /\ mbused' \in SUBSET Nodes
        /\ \A n \in Nodes : n \in mbused' <=> n \in mbused \/ On(d, n)
        /\ mbuse' = mbuse + Len(d)
        /\ mbnext' = [n \in Nodes |-> mbnext'[n]] /\ mbtext' = [n \in Nodes |-> mbtext'[n]]
        /\ \A n \in Nodes : n # last /\ ~ On(d, n) => mbnext'[n] = mbnext[n] /\ mbtext'[n] = mbtext[n]
        /\ mbnext'[last] = IF d = <<>> THEN mbnext[last] ELSE d[1]
        /\ \A k \in 1 .. Len(d) : mbnext'[d[k]] = IF k < Len(d) THEN d[k + 1] ELSE mbnext[d[k]]
        /\ mbtext'[last] = mbtext[last] \o Piece(data, blank, 0)
        /\ \A k \in 1 .. Len(d) : mbtext'[d[k]] = mbtext[d[k]] \o Piece(data, blank, k)

\* What appendMemBufList does: nothing, or it links free nodes behind the last.
LEMMA AppendGrows ==
    ASSUME NEW top, Last(Chain(top)) \in mbused, mbused \in SUBSET Nodes,
           NEW data \in Seq(Bytes), mbtext[Last(Chain(top))] \in Seq(Bytes), Len(mbtext[Last(Chain(top))]) <= Cap,
           appendMemBufList(top, data)
    PROVE  UNCHANGED poolVars \/ \E d : GrowsBy(Last(Chain(top)), d, data)
<1> DEFINE last == Last(Chain(top))
           blank == Cap - Len(mbtext[last])
           more == More(data, blank)
<1>1. SUFFICES ASSUME ~ UNCHANGED poolVars PROVE \E d : GrowsBy(Last(Chain(top)), d, data)
  OBVIOUS
<1>2. PICK d \in BlankMemBufs(more) :
        LET path  == <<last>> \o d
            at(n) == CHOOSE k \in DOMAIN path : path[k] = n
        IN  /\ mbused' = mbused \cup Range(path)
            /\ mbuse' = mbuse + more
            /\ mbtext' = [n \in Nodes |-> IF n \in Range(path)
                            THEN mbtext[n] \o Piece(data, blank, at(n) - 1) ELSE mbtext[n]]
            /\ mbnext' = [n \in Nodes |-> IF n \in Range(path) /\ at(n) < Len(path)
                            THEN path[at(n) + 1] ELSE mbnext[n]]
  <2> HIDE DEF poolVars
  <2> QED BY <1>1, Zenon DEF appendMemBufList, More
<1> DEFINE path == <<last>> \o d
           at(n) == CHOOSE k \in DOMAIN path : path[k] = n
<1>3. /\ mbused' = mbused \cup Range(path) /\ mbuse' = mbuse + more
      /\ mbtext' = [n \in Nodes |-> IF n \in Range(path)
                      THEN mbtext[n] \o Piece(data, blank, at(n) - 1) ELSE mbtext[n]]
      /\ mbnext' = [n \in Nodes |-> IF n \in Range(path) /\ at(n) < Len(path)
                      THEN path[at(n) + 1] ELSE mbnext[n]]
  BY <1>2, Zenon
<1>4. d \in [1 .. more -> Nodes \ mbused] /\ IsInjective(d)
  BY <1>2 DEF BlankMemBufs
<1>5. blank \in Nat /\ more \in Nat /\ last \in Nodes /\ last \in mbused
  <2>1. Len(mbtext[last]) \in Nat /\ Cap \in Nat
    BY LenProperties, BufferAssumption
  <2>2. blank \in Nat
    BY <2>1
  <2> HIDE DEF blank, last
  <2>3. more \in Nat
    BY <2>2, MoreFacts
  <2> QED BY <2>2, <2>3 DEF last
<1> HIDE DEF last, more
<1>6. /\ d \in Seq(Nodes) /\ Len(d) = more /\ DOMAIN d = 1 .. more
      /\ \A j, k \in 1 .. more : d[j] = d[k] => j = k
      /\ \A k \in 1 .. more : d[k] \in Nodes /\ d[k] \notin mbused
  BY <1>4, <1>5 DEF IsInjective
<1>7. Len(path) = more + 1 /\ DOMAIN path = 1 .. more + 1 /\ path[1] = last
      /\ path \in Seq(Nodes)
      /\ \A k \in 1 .. more : path[k + 1] = d[k] /\ k + 1 \in 1 .. more + 1
  BY <1>5, <1>6
<1> HIDE DEF path
<1>8. \A j, k \in 1 .. more + 1 : path[j] = path[k] => j = k
  <2>1. ASSUME NEW k \in 1 .. more + 1, k # 1 PROVE k - 1 \in 1 .. more /\ path[k] = d[k - 1]
    <3>1. k - 1 \in 1 .. more /\ (k - 1) + 1 = k
      BY <2>1, <1>5
    <3> QED BY <3>1, <1>7
  <2>2. ASSUME NEW j \in 1 .. more + 1, NEW k \in 1 .. more + 1, path[j] = path[k] PROVE j = k
    <3>1. CASE j = 1 /\ k = 1
      BY <3>1
    <3>2. CASE j = 1 /\ k # 1
      BY <3>2, <2>1, <2>2, <1>5, <1>6, <1>7
    <3>3. CASE j # 1 /\ k = 1
      BY <3>3, <2>1, <2>2, <1>5, <1>6, <1>7
    <3>4. CASE j # 1 /\ k # 1
      <4>1. d[j - 1] = d[k - 1] /\ j - 1 \in 1 .. more /\ k - 1 \in 1 .. more
        BY <3>4, <2>1, <2>2
      <4>2. j - 1 = k - 1
        BY <4>1, <1>6
      <4> QED BY <4>2
    <3> QED BY <3>1, <3>2, <3>3, <3>4
  <2> QED BY <2>2
<1>9. ASSUME NEW k \in 1 .. more + 1 PROVE at(path[k]) = k /\ path[k] \in Range(path)
  <2>1. k \in DOMAIN path /\ \A j \in DOMAIN path : path[j] = path[k] => j = k
    BY <1>7, <1>8
  <2>2. at(path[k]) \in DOMAIN path /\ path[at(path[k])] = path[k]
    BY <2>1, Zenon
  <2>3. at(path[k]) = k
    <3> HIDE DEF at
    <3> QED BY <2>1, <2>2
  <2>4. path[k] \in Range(path)
    BY <2>1 DEF Range
  <2> QED BY <2>3, <2>4
<1> HIDE DEF at
<1>10. ASSUME NEW n \in Nodes PROVE n \in Range(path) <=> n = last \/ On(d, n)
  <2>1. ASSUME n \in Range(path) PROVE n = last \/ On(d, n)
    <3>1. PICK k \in 1 .. more + 1 : n = path[k]
      BY <2>1, <1>7 DEF Range
    <3>2. CASE k = 1
      BY <3>1, <3>2, <1>7
    <3>3. CASE k # 1
      <4>1. k - 1 \in 1 .. more /\ (k - 1) + 1 = k
        BY <3>3, <1>5
      <4>2. n = d[k - 1]
        BY <3>1, <4>1, <1>7
      <4> QED BY <4>1, <4>2, <1>6 DEF On
    <3> QED BY <3>2, <3>3
  <2>2. ASSUME On(d, n) PROVE n \in Range(path)
    <3>1. PICK k \in 1 .. more : d[k] = n
      BY <2>2, <1>6 DEF On
    <3> QED BY <3>1, <1>7, <1>9
  <2>3. last \in Range(path)
    <3>1. 1 \in 1 .. more + 1
      BY <1>5
    <3> QED BY <3>1, <1>7, <1>9
  <2> QED BY <2>1, <2>2, <2>3
<1>11. \A n \in Nodes : On(d, n) => n \notin mbused
  BY <1>6 DEF On
<1>12. mbused' \in SUBSET Nodes /\ \A n \in Nodes : n \in mbused' <=> n \in mbused \/ On(d, n)
  <2>1. mbused' = mbused \cup Range(path)
    BY <1>3
  <2>2. Range(path) \in SUBSET Nodes
    BY <1>7, RangeOfSeq
  <2>3. mbused' \in SUBSET Nodes
    BY <2>1, <2>2
  <2> QED BY <2>1, <2>3, <1>5, <1>10
<1>13. mbnext' = [n \in Nodes |-> mbnext'[n]] /\ mbtext' = [n \in Nodes |-> mbtext'[n]]
  BY <1>3
<1>14. \A n \in Nodes : n # last /\ ~ On(d, n) => mbnext'[n] = mbnext[n] /\ mbtext'[n] = mbtext[n]
  BY <1>3, <1>10
<1>15. ASSUME NEW k \in 1 .. more + 1
       PROVE  /\ mbtext'[path[k]] = mbtext[path[k]] \o Piece(data, blank, k - 1)
              /\ mbnext'[path[k]] = IF k < more + 1 THEN path[k + 1] ELSE mbnext[path[k]]
  <2>1. path[k] \in Nodes /\ path[k] \in Range(path) /\ at(path[k]) = k
    BY <1>7, <1>9
  <2>2. mbtext'[path[k]] = mbtext[path[k]] \o Piece(data, blank, at(path[k]) - 1)
    BY <2>1, <1>3
  <2>3. mbnext'[path[k]] = IF at(path[k]) < Len(path) THEN path[at(path[k]) + 1] ELSE mbnext[path[k]]
    BY <2>1, <1>3
  <2> QED BY <2>1, <2>2, <2>3, <1>7
<1>16. /\ mbnext'[last] = IF d = <<>> THEN mbnext[last] ELSE d[1]
       /\ mbtext'[last] = mbtext[last] \o Piece(data, blank, 0)
  <2>1. 1 \in 1 .. more + 1 /\ 1 - 1 = 0
    BY <1>5
  <2>2. d = <<>> <=> more = 0
    BY <1>6, EmptySeq
  <2>3. more # 0 => path[1 + 1] = d[1]
    BY <1>5, <1>7
  <2>4. 1 < more + 1 <=> more # 0
    BY <1>5
  <2>5. mbtext'[path[1]] = mbtext[path[1]] \o Piece(data, blank, 1 - 1)
    BY <2>1, <1>15
  <2>6. mbnext'[path[1]] = IF 1 < more + 1 THEN path[1 + 1] ELSE mbnext[path[1]]
    BY <2>1, <1>15
  <2>7. mbtext'[last] = mbtext[last] \o Piece(data, blank, 0)
    BY <2>1, <2>5, <1>7
  <2> QED BY <2>2, <2>3, <2>4, <2>6, <2>7, <1>7
<1>17. ASSUME NEW k \in 1 .. more
       PROVE  /\ mbtext'[d[k]] = mbtext[d[k]] \o Piece(data, blank, k)
              /\ mbnext'[d[k]] = IF k < more THEN d[k + 1] ELSE mbnext[d[k]]
  <2>1. k + 1 \in 1 .. more + 1 /\ path[k + 1] = d[k] /\ (k + 1) - 1 = k /\ (k < more <=> k + 1 < more + 1)
    BY <1>5, <1>7
  <2>2. k < more => path[(k + 1) + 1] = d[k + 1]
    BY <1>5, <1>7
  <2>3. mbtext'[path[k + 1]] = mbtext[path[k + 1]] \o Piece(data, blank, (k + 1) - 1)
    BY <2>1, <1>15
  <2>4. mbnext'[path[k + 1]] = IF k + 1 < more + 1 THEN path[(k + 1) + 1] ELSE mbnext[path[k + 1]]
    BY <2>1, <1>15
  <2>5. mbtext'[d[k]] = mbtext[d[k]] \o Piece(data, blank, k)
    BY <2>1, <2>3
  <2> QED BY <2>1, <2>2, <2>4, <2>5
<1>18. mbuse' = mbuse + Len(d)
  BY <1>3, <1>6
<1>19. GrowsBy(last, d, data)
  <2>1. \A j, k \in 1 .. Len(d) : d[j] = d[k] => j = k
    BY <1>6
  <2>2. d \in Seq(Nodes) /\ Len(d) = More(data, blank)
    BY <1>6 DEF more
  <2>3. \A k \in 1 .. Len(d) : mbnext'[d[k]] = IF k < Len(d) THEN d[k + 1] ELSE mbnext[d[k]]
    BY <1>6, <1>17
  <2>4. \A k \in 1 .. Len(d) : mbtext'[d[k]] = mbtext[d[k]] \o Piece(data, blank, k)
    BY <1>6, <1>17
  <2> QED BY <1>11, <1>12, <1>13, <1>14, <1>16, <1>18, <2>1, <2>2, <2>3, <2>4 DEF GrowsBy
<1> QED BY <1>19 DEF last

NodesOf(c) == {n \in Nodes : On(c, n)}
Single(c) == \A j, k \in 1 .. Len(c) : c[j] = c[k] => j = k

\* A path has as many nodes as it is long.
LEMMA CountNodes ==
    ASSUME NEW c \in Seq(Nodes), Single(c)
    PROVE  IsFiniteSet(NodesOf(c)) /\ Cardinality(NodesOf(c)) = Len(c) /\ NodesOf(c) = Range(c)
<1> DEFINE n == Len(c)
           R == NodesOf(c)
<1>1. n \in Nat /\ c \in [1 .. n -> Nodes]
  BY LenProperties
<1>2. IsFiniteSet(1 .. n) /\ Cardinality(1 .. n) = n
  <2> HIDE DEF n
  <2>1. IsFiniteSet(1 .. n) /\ Cardinality(1 .. n) = IF 1 > n THEN 0 ELSE n - 1 + 1
    BY <1>1, FS_Interval
  <2> QED BY <2>1, <1>1
<1>3. c \in [1 .. n -> R] /\ \A x \in R : \E k \in 1 .. n : c[k] = x
  BY <1>1 DEF On, NodesOf
<1>4. c \in Surjection(1 .. n, R)
  <2> HIDE DEF R, n
  <2> QED BY <1>3 DEF Surjection
<1>5. c \in Injection(1 .. n, R)
  <2>1. \A j, k \in 1 .. n : c[j] = c[k] => j = k
    BY DEF Single
  <2> HIDE DEF R, n
  <2> QED BY <1>3, <2>1 DEF Injection, IsInjective
<1>6. IsFiniteSet(R) /\ Cardinality(R) = Cardinality(1 .. n)
  <2> HIDE DEF R, n
  <2> QED BY <1>2, <1>4, <1>5, FS_Surjection
<1>7. R = Range(c)
  BY <1>1 DEF Range, NodesOf, On
<1> QED BY <1>2, <1>6, <1>7

\* The path c goes on with the nodes d.
LEMMA PathGrows ==
    ASSUME NEW next, NEW top, NEW c, Leads(next, top, c), c # <<>>,
           NEW d \in Seq(Nodes), Single(d), \A n \in Nodes : On(d, n) => ~ On(c, n), NEW next2,
           \A k \in 1 .. Len(c) - 1 : next2[c[k]] = next[c[k]],
           next2[c[Len(c)]] = IF d = <<>> THEN 0 ELSE d[1],
           \A k \in 1 .. Len(d) : next2[d[k]] = IF k < Len(d) THEN d[k + 1] ELSE 0
    PROVE  Leads(next2, top, c \o d)
<1> DEFINE e == c \o d
           L == Len(c)
           M == Len(d)
<1>1. c \in Seq(Nodes) /\ L \in Nat \ {0} /\ M \in Nat /\ (d = <<>> <=> M = 0)
      /\ (\A k \in 1 .. L : c[k] \in Nodes /\ On(c, c[k]))
      /\ (\A k \in 1 .. M : d[k] \in Nodes /\ On(d, d[k]))
  <2>1. c \in Seq(Nodes)
    BY DEF Leads
  <2> QED BY <2>1, PathFacts
<1>2. e \in Seq(Nodes) /\ Len(e) = L + M /\ \A i \in 1 .. L + M : e[i] = IF i <= L THEN c[i] ELSE d[i - L]
  BY <1>1, ConcatProperties
<1> HIDE DEF e
<1>3. /\ \A j, k \in 1 .. L : c[j] = c[k] => j = k
      /\ c[1] = top
      /\ \A k \in 1 .. L - 1 : next[c[k]] = c[k + 1]
  BY DEF Leads
<1>4. \A j, k \in 1 .. M : d[j] = d[k] => j = k
  BY DEF Single
<1>5. \A j \in 1 .. L, k \in 1 .. M : c[j] # d[k]
  BY <1>1
<1> HIDE DEF L, M
<1>6. ASSUME NEW j \in 1 .. L + M, NEW k \in 1 .. L + M, e[j] = e[k] PROVE j = k
  <2>1. CASE j <= L /\ k <= L
    BY <2>1, <1>1, <1>2, <1>3, <1>6
  <2>2. CASE j <= L /\ ~ (k <= L)
    <3>1. j \in 1 .. L /\ k - L \in 1 .. M
      BY <2>2, <1>1
    <3> QED BY <3>1, <2>2, <1>2, <1>5, <1>6
  <2>3. CASE ~ (j <= L) /\ k <= L
    <3>1. k \in 1 .. L /\ j - L \in 1 .. M
      BY <2>3, <1>1
    <3> QED BY <3>1, <2>3, <1>2, <1>5, <1>6
  <2>4. CASE ~ (j <= L) /\ ~ (k <= L)
    <3>1. j - L \in 1 .. M /\ k - L \in 1 .. M /\ d[j - L] = d[k - L]
      BY <2>4, <1>1, <1>2, <1>6
    <3>2. j - L = k - L
      BY <3>1, <1>4
    <3> QED BY <3>2, <1>1
  <2> QED BY <2>1, <2>2, <2>3, <2>4
<1>7. e # <<>> /\ e[1] = top
  <2>1. Len(e) # 0
    BY <1>1, <1>2
  <2>2. e # <<>>
    BY <2>1, EmptySeq
  <2>3. 1 \in 1 .. L + M /\ 1 <= L
    BY <1>1
  <2> QED BY <2>2, <2>3, <1>2, <1>3
<1>8. next2[e[L + M]] = 0
  <2>1. CASE M = 0
    <3>1. e[L + M] = c[L]
      BY <2>1, <1>1, <1>2
    <3> QED BY <3>1, <2>1, <1>1 DEF L
  <2>2. CASE M # 0
    <3>1. e[L + M] = d[M] /\ M \in 1 .. M /\ ~ (M < M)
      BY <2>2, <1>1, <1>2
    <3> QED BY <3>1 DEF M
  <2> QED BY <2>1, <2>2
<1>9. ASSUME NEW k \in 1 .. L + M - 1 PROVE next2[e[k]] = e[k + 1]
  <2>1. CASE k < L
    <3>1. k \in 1 .. L - 1 /\ e[k] = c[k] /\ e[k + 1] = c[k + 1]
      BY <2>1, <1>1, <1>2
    <3>2. next2[c[k]] = next[c[k]]
      BY <3>1 DEF L
    <3> QED BY <3>1, <3>2, <1>3
  <2>2. CASE k = L
    <3>1. M # 0 /\ e[k] = c[L] /\ e[k + 1] = d[1]
      BY <2>2, <1>1, <1>2
    <3> QED BY <3>1, <1>1 DEF L
  <2>3. CASE k > L
    <3>1. k - L \in 1 .. M /\ k - L < M /\ e[k] = d[k - L] /\ e[k + 1] = d[(k - L) + 1]
      BY <2>3, <1>1, <1>2
    <3>2. next2[d[k - L]] = d[(k - L) + 1]
      BY <3>1 DEF M
    <3> QED BY <3>1, <3>2
  <2> QED BY <2>1, <2>2, <2>3, <1>1
<1>10. Leads(next2, top, e)
  <2>1. \A j, k \in 1 .. Len(e) : e[j] = e[k] => j = k
    BY <1>2, <1>6
  <2>2. next2[e[Len(e)]] = 0
    BY <1>2, <1>8
  <2>3. \A k \in 1 .. Len(e) - 1 : next2[e[k]] = e[k + 1]
    <3>1. Len(e) - 1 = L + M - 1
      BY <1>1, <1>2
    <3> QED BY <3>1, <1>9, Zenon
  <2>4. e \in Seq(Nodes)
    BY <1>2
  <2> QED BY <2>1, <2>2, <2>3, <2>4, <1>7 DEF Leads
<1> QED BY <1>10 DEF e

\* The path of stream s goes on, behind its last node, which gets more, and the
\* other streams hold what they held.
Others(S, s, P, Q, text, text2) ==
    \A t \in S : t # s => Q[t] = P[t] /\ \A k \in 1 .. Len(P[t]) : text2[P[t][k]] = text[P[t][k]]
LongerBy(c, e, text, text2, d, p) ==
    /\ d \in Seq(Nodes) /\ p \in Seq(Bytes) /\ e = c \o d
    /\ \A k \in 1 .. Len(c) - 1 : text2[c[k]] = text[c[k]]
    /\ text2[c[Len(c)]] = text[c[Len(c)]] \o p
Grown(S, s, P, Q, text, text2) ==
    /\ Others(S, s, P, Q, text, text2)
    /\ \E d, p : LongerBy(P[s], Q[s], text, text2, d, p)

\* A stream that grows keeps the pool and its streams in order.
LEMMA AppendKeeps ==
    ASSUME NEW S, NEW top, NEW P, Held(S, top, P, mbused, mbnext, mbtext),
           Pool(mbused, mbnext, mbtext, mbuse), NEW s \in S, top[s] # 0,
           NEW data \in Seq(Bytes), appendMemBufList(top[s], data)
    PROVE  /\ Pool(mbused', mbnext', mbtext', mbuse')
           /\ \E Q : /\ Held(S, top, Q, mbused', mbnext', mbtext')
                     /\ Grown(S, s, P, Q, mbtext, mbtext')
<1> DEFINE c == P[s]
           L == Len(c)
           last == c[L]
<1>1. c \in Seq(Nodes) /\ L \in Nat /\ Leads(mbnext, top[s], c) /\ c # <<>> /\ L # 0 /\ last \in Nodes /\ On(c, last)
      /\ \A k \in 1 .. L : c[k] \in Nodes /\ On(c, c[k])
  <2>1. c \in Seq(Nodes) /\ Leads(mbnext, top[s], c)
    BY DEF Held, Paths
  <2>2. c # <<>>
    BY <2>1 DEF Leads
  <2>3. L \in Nat /\ L # 0 /\ \A k \in 1 .. L : c[k] \in Nodes /\ On(c, c[k])
    BY <2>1, <2>2, PathFacts
  <2>4. L \in 1 .. L
    BY <2>3
  <2> QED BY <2>1, <2>2, <2>3, <2>4
<1>2. \A n \in Nodes : On(c, n) => n \in mbused
  BY DEF Held, Owned
<1>3. Last(Chain(top[s])) = last
  <2>1. ChainBy(mbnext, top[s]) = c
    <3> HIDE DEF c
    <3> QED BY <1>1, ChainIsPath DEF Pool
  <2>2. Chain(top[s]) = c
    BY <2>1, Zenon DEF Chain, ChainBy
  <2> QED BY <2>2 DEF Last
<1>4. mbnext[last] = 0
  BY <1>1 DEF Leads
<1> HIDE DEF last
<1>5. mbtext[last] \in Seq(Bytes) /\ Len(mbtext[last]) <= Cap
  BY <1>1 DEF Pool
<1>6. CASE UNCHANGED poolVars
  <2>1. mbused' = mbused /\ mbnext' = mbnext /\ mbtext' = mbtext /\ mbuse' = mbuse
    BY <1>6 DEF poolVars
  <2>2. LongerBy(c, c, mbtext, mbtext', <<>>, <<>>)
    <3> DEFINE t == mbtext[last]
    <3>1. t \in Seq(Bytes)
      BY <1>5
    <3> HIDE DEF t, c
    <3>2. t \o <<>> = t /\ c \o <<>> = c
      BY <3>1, <1>1, ConcatEmptySeq
    <3>3. mbtext'[c[Len(c)]] = mbtext[c[Len(c)]] \o <<>>
      BY <3>2, <2>1 DEF last, t
    <3> QED BY <3>2, <3>3, <2>1 DEF LongerBy
  <2>3. Grown(S, s, P, P, mbtext, mbtext')
    BY <2>1, <2>2 DEF Grown, Others, c
  <2> QED BY <2>1, <2>3
<1>7. CASE \E d : GrowsBy(last, d, data)
  <2>1. PICK d : GrowsBy(last, d, data)
    BY <1>7
  <2> DEFINE blank == Cap - Len(mbtext[last])
             Q == [P EXCEPT ![s] = c \o d]
  <2>2. d \in Seq(Nodes) /\ Len(d) = More(data, blank) /\ Single(d)
        /\ (\A n \in Nodes : On(d, n) => n \notin mbused /\ ~ On(c, n)) /\ d \in [1 .. Len(d) -> Nodes]
    <3>1. d \in Seq(Nodes) /\ Len(d) = More(data, blank) /\ \A j, k \in 1 .. Len(d) : d[j] = d[k] => j = k
      BY <2>1 DEF GrowsBy
    <3>2. \A n \in Nodes : On(d, n) => n \notin mbused
      BY <2>1 DEF GrowsBy
    <3> QED BY <3>1, <3>2, <1>2, PathFacts DEF Single
  <2>3. blank \in Nat /\ last \in mbused /\ ~ On(d, last)
    <3>1. Len(mbtext[last]) \in Nat /\ Cap \in Nat
      BY <1>5, LenProperties, BufferAssumption
    <3>2. blank \in Nat
      BY <3>1, <1>5
    <3> QED BY <3>2, <1>1, <1>2, <2>2
  <2>4. \A n \in Nodes : On(d, n) => mbnext[n] = 0 /\ mbtext[n] = <<>>
    BY <2>2 DEF Held, Clean
  <2> HIDE DEF blank
  <2>5. ASSUME NEW k \in 1 .. Len(d)
        PROVE  /\ d[k] \in Nodes /\ mbnext'[d[k]] = IF k < Len(d) THEN d[k + 1] ELSE 0
               /\ mbtext'[d[k]] = Piece(data, blank, k)
               /\ mbtext'[d[k]] \in Seq(Bytes) /\ Len(mbtext'[d[k]]) <= Cap /\ mbtext'[d[k]] # <<>>
    <3>1. d[k] \in Nodes /\ On(d, d[k])
      BY <2>2, PathFacts
    <3>2. mbnext[d[k]] = 0 /\ mbtext[d[k]] = <<>>
      BY <3>1, <2>4
    <3>3. mbtext'[d[k]] = mbtext[d[k]] \o Piece(data, blank, k)
          /\ mbnext'[d[k]] = IF k < Len(d) THEN d[k + 1] ELSE mbnext[d[k]]
      BY <2>1 DEF GrowsBy, blank
    <3> DEFINE p == Piece(data, blank, k)
    <3>4. p \in Seq(Bytes) /\ Len(p) <= Cap /\ Len(p) # 0
      <4>1. k \in Nat /\ k <= More(data, blank) /\ k # 0
        <5> DEFINE m == More(data, blank)
        <5>1. m \in Nat
          BY MoreFacts, <2>3
        <5>2. Len(d) = m
          BY <2>2
        <5> HIDE DEF m
        <5>3. k \in Nat /\ k <= m /\ k # 0
          BY <5>1, <5>2
        <5> QED BY <5>3 DEF m
      <4> HIDE DEF blank
      <4> QED BY <4>1, <2>3, PieceSize
    <3>5. p # <<>>
      BY <3>4, EmptySeq
    <3> HIDE DEF p
    <3>6. <<>> \o p = p
      BY <3>4, ConcatEmptySeq
    <3> QED BY <3>1, <3>2, <3>3, <3>4, <3>5, <3>6 DEF p
  <2>6. /\ mbtext'[last] = mbtext[last] \o Piece(data, blank, 0)
        /\ mbtext'[last] \in Seq(Bytes) /\ Len(mbtext'[last]) <= Cap
        /\ mbtext[last] # <<>> => mbtext'[last] # <<>>
    <3> DEFINE p == Piece(data, blank, 0)
               t == mbtext[last]
    <3>1. mbtext'[last] = t \o p
      BY <2>1 DEF GrowsBy, blank
    <3>2. p \in Seq(Bytes) /\ Len(p) \in Nat /\ Len(p) <= blank
      <4>1. 0 \in Nat /\ 0 <= More(data, blank)
        BY MoreFacts, <2>3
      <4> DEFINE z == 0
      <4>2. z \in Nat /\ z <= More(data, blank)
        BY <4>1
      <4> HIDE DEF z
      <4>3. Piece(data, blank, z) \in Seq(Bytes) /\ Len(Piece(data, blank, z)) \in Nat
            /\ Len(Piece(data, blank, z)) <= IF z = 0 THEN blank ELSE Cap
        BY <4>2, <2>3, PieceSize
      <4> QED BY <4>3 DEF z
    <3> HIDE DEF p
    <3>3. t \in Seq(Bytes) /\ Len(t) \in Nat /\ blank = Cap - Len(t) /\ Cap \in Nat
      BY <1>5, LenProperties, BufferAssumption DEF blank
    <3> HIDE DEF t
    <3>4. t \o p \in Seq(Bytes) /\ Len(t \o p) = Len(t) + Len(p)
      BY <3>2, <3>3, ConcatProperties
    <3>5. Len(t \o p) <= Cap
      BY <3>2, <3>3, <3>4
    <3>6. t # <<>> => t \o p # <<>>
      BY <3>2, <3>3, ConcatEqualIffEmpty
    <3> QED BY <3>1, <3>4, <3>5, <3>6 DEF p, t
  <2>7. \A n \in Nodes : n # last /\ ~ On(d, n) => mbnext'[n] = mbnext[n] /\ mbtext'[n] = mbtext[n]
    BY <2>1 DEF GrowsBy
  <2>8. mbnext'[last] = IF d = <<>> THEN 0 ELSE d[1]
    BY <2>1, <1>4 DEF GrowsBy
  <2>9. Leads(mbnext', top[s], c \o d)
    <3>1. \A k \in 1 .. Len(c) - 1 : mbnext'[c[k]] = mbnext[c[k]]
      <4>1. ASSUME NEW k \in 1 .. Len(c) - 1 PROVE c[k] # last /\ c[k] \in Nodes /\ On(c, c[k])
        <5>1. k \in 1 .. L /\ L \in 1 .. L /\ k # L
          BY <1>1
        <5>2. c[k] # c[L]
          BY <5>1, <1>1 DEF Leads
        <5> QED BY <5>1, <5>2, <1>1 DEF last
      <4> QED BY <4>1, <2>2, <2>7
    <3>2. mbnext'[c[Len(c)]] = IF d = <<>> THEN 0 ELSE d[1]
      BY <2>8 DEF last
    <3>3. \A n \in Nodes : On(d, n) => ~ On(c, n)
      BY <2>2
    <3>4. \A k \in 1 .. Len(d) : mbnext'[d[k]] = IF k < Len(d) THEN d[k + 1] ELSE 0
      BY <2>5
    <3> HIDE DEF c
    <3> QED BY <3>1, <3>2, <3>3, <3>4, <1>1, <2>2, PathGrows
  <2>10. c \o d \in Seq(Nodes) /\ \A n \in Nodes : On(c \o d, n) <=> On(c, n) \/ On(d, n)
    <3> HIDE DEF c
    <3> QED BY <1>1, <2>2, OnConcat, ConcatProperties
  <2>11. \A k \in 2 .. Len(c \o d) : mbtext'[(c \o d)[k]] # <<>>
    <3> DEFINE e == c \o d
    <3>1. Len(e) = L + Len(d) /\ Len(d) \in Nat
          /\ \A i \in 1 .. L + Len(d) : e[i] = IF i <= L THEN c[i] ELSE d[i - L]
      <4> HIDE DEF c
      <4> QED BY <1>1, <2>2, ConcatProperties, LenProperties
    <3>2. \A k \in 2 .. L : mbtext[c[k]] # <<>>
      BY DEF Held, Filled
    <3> HIDE DEF e, c, L
    <3>3. ASSUME NEW k \in 2 .. Len(e) PROVE mbtext'[e[k]] # <<>>
      <4>1. CASE k <= L
        <5>1. k \in 2 .. L /\ k \in 1 .. L /\ e[k] = c[k]
          BY <4>1, <3>1, <1>1
        <5>2. c[k] \in Nodes /\ On(c, c[k]) /\ mbtext[c[k]] # <<>>
          BY <5>1, <3>2, <1>1
        <5>3. ~ On(d, c[k])
          BY <5>2, <2>2
        <5>4. CASE c[k] = last
          BY <5>4, <5>1, <5>2, <2>6
        <5>5. CASE c[k] # last
          BY <5>1, <5>2, <5>3, <5>5, <2>7
        <5> QED BY <5>4, <5>5
      <4>2. CASE ~ (k <= L)
        <5>1. k - L \in 1 .. Len(d) /\ e[k] = d[k - L]
          BY <4>2, <3>1, <1>1
        <5> QED BY <5>1, <2>5
      <4> QED BY <4>1, <4>2
    <3> QED BY <3>3 DEF e
  <2>12. mbused' \in SUBSET Nodes /\ \A n \in Nodes : n \in mbused' <=> n \in mbused \/ On(d, n)
    BY <2>1 DEF GrowsBy
  <2>13. Held(S, top, Q, mbused', mbnext', mbtext')
    <3>1. Q \in [S -> Seq(Nodes)] /\ Q[s] = c \o d /\ \A t \in S : t # s => Q[t] = P[t]
      BY <2>10 DEF Held
    <3> HIDE DEF Q
    <3>2. Leads(mbnext', top[s], Q[s])
      BY <3>1, <2>9
    <3>3. \A k \in 2 .. Len(Q[s]) : mbtext'[Q[s][k]] # <<>>
      BY <3>1, <2>11
    <3>4. \A n \in Nodes : On(Q[s], n) => On(P[s], n) \/ n \notin mbused
      BY <3>1, <2>10, <2>2
    <3>5. \A n \in Nodes : n \in mbused' <=> (n \in mbused /\ ~ On(P[s], n)) \/ On(Q[s], n)
      BY <3>1, <2>10, <2>12, <1>2
    <3>6. \A n \in Nodes : n \in mbused /\ ~ On(P[s], n) => mbnext'[n] = mbnext[n] /\ mbtext'[n] = mbtext[n]
      BY <2>7, <2>2, <1>1
    <3>7. \A n \in Nodes \ mbused' : mbnext'[n] = 0 /\ mbtext'[n] = <<>>
      BY <2>12, <2>7, <2>3 DEF Held, Clean
    <3>8. OneChanges(S, s, top, top, P, Q, mbused, mbused', mbnext, mbnext', mbtext, mbtext')
      BY <3>1, <3>2, <3>3, <3>4, <3>5, <3>6, <3>7, <2>12 DEF OneChanges
    <3> QED BY <3>8, OneStreamChanges
  <2>14. Pool(mbused', mbnext', mbtext', mbuse')
    <3>1. \A n \in Nodes : mbnext'[n] \in Nodes \cup {0}
      <4>1. ASSUME NEW n \in Nodes PROVE mbnext'[n] \in Nodes \cup {0}
        <5>1. CASE n = last
          <6>1. d # <<>> => d[1] \in Nodes
            <7>1. d # <<>> => 1 \in 1 .. Len(d)
              BY <2>2, EmptySeq
            <7> QED BY <7>1, <2>5
          <6> QED BY <6>1, <5>1, <2>8
        <5>2. CASE n # last /\ On(d, n)
          <6>1. PICK k \in 1 .. Len(d) : d[k] = n
            BY <5>2 DEF On
          <6>2. k < Len(d) => k + 1 \in 1 .. Len(d)
            BY <2>2, LenProperties
          <6> QED BY <6>1, <6>2, <2>5
        <5>3. CASE n # last /\ ~ On(d, n)
          BY <5>3, <2>7 DEF Pool, Links
        <5> QED BY <5>1, <5>2, <5>3
      <4> QED BY <4>1
    <3>2. \A n \in Nodes : mbtext'[n] \in Seq(Bytes) /\ Len(mbtext'[n]) <= Cap
      <4>1. ASSUME NEW n \in Nodes PROVE mbtext'[n] \in Seq(Bytes) /\ Len(mbtext'[n]) <= Cap
        <5>1. CASE n = last
          BY <5>1, <2>6
        <5>2. CASE n # last /\ On(d, n)
          BY <5>2, <2>5 DEF On
        <5>3. CASE n # last /\ ~ On(d, n)
          BY <5>3, <2>7 DEF Pool
        <5> QED BY <5>1, <5>2, <5>3
      <4> QED BY <4>1
    <3>3. mbuse' = Cardinality(mbused')
      <4>1. IsFiniteSet(NodesOf(d)) /\ Cardinality(NodesOf(d)) = Len(d)
        BY <2>2, CountNodes
      <4>2. mbused' = mbused \cup NodesOf(d) /\ mbused \cap NodesOf(d) = {} /\ mbused \in SUBSET Nodes
        BY <2>12, <2>2 DEF NodesOf, Pool
      <4>3. IsFiniteSet(mbused)
        <5>1. IsFiniteSet(Nodes)
          BY BufferAssumption
        <5> QED BY <5>1, <4>2, FS_Subset
      <4>4. Cardinality(mbused \cup NodesOf(d)) = Cardinality(mbused) + Cardinality(NodesOf(d)) - Cardinality({})
        BY <4>1, <4>2, <4>3, FS_Union
      <4>5. mbuse' = mbuse + Len(d) /\ mbuse = Cardinality(mbused)
        BY <2>1 DEF GrowsBy, Pool
      <4>6. Cardinality({}) = 0 /\ Cardinality(mbused) \in Nat /\ Len(d) \in Nat
        BY <4>3, <2>2, FS_EmptySet, FS_CardinalityType, LenProperties
      <4> QED BY <4>1, <4>2, <4>4, <4>5, <4>6
    <3>4. mbnext' = [n \in Nodes |-> mbnext'[n]] /\ mbtext' = [n \in Nodes |-> mbtext'[n]]
      BY <2>1 DEF GrowsBy
    <3>5. mbnext' \in Links /\ mbtext' \in [Nodes -> Seq(Bytes)]
      BY <3>1, <3>2, <3>4 DEF Links
    <3> QED BY <2>12, <3>2, <3>3, <3>5 DEF Pool
  <2>15. Grown(S, s, P, Q, mbtext, mbtext')
    <3>1. Q[s] = c \o d /\ \A t \in S : t # s => Q[t] = P[t]
      BY <2>10 DEF Held
    <3> HIDE DEF Q
    <3> DEFINE p == Piece(data, blank, 0)
    <3>2. p \in Seq(Bytes)
      <4> DEFINE z == 0
      <4>1. z \in Nat /\ z <= More(data, blank)
        BY MoreFacts, <2>3
      <4> HIDE DEF z
      <4>2. Piece(data, blank, z) \in Seq(Bytes)
        BY <4>1, <2>3, PieceSize
      <4> QED BY <4>2 DEF z
    <3> HIDE DEF p
    <3>3. LongerBy(c, c \o d, mbtext, mbtext', d, p)
      <4>1. ASSUME NEW k \in 1 .. Len(c) - 1 PROVE mbtext'[c[k]] = mbtext[c[k]]
        <5>1. k \in 1 .. L /\ L \in 1 .. L /\ k # L
          BY <1>1
        <5>2. c[k] # last /\ c[k] \in Nodes /\ On(c, c[k])
          BY <5>1, <1>1 DEF Leads, last
        <5> QED BY <5>2, <2>2, <2>7
      <4>2. mbtext'[c[Len(c)]] = mbtext[c[Len(c)]] \o p
        BY <2>6 DEF last, p
      <4> QED BY <4>1, <4>2, <3>2, <2>2 DEF LongerBy
    <3>4. \E e, q : LongerBy(P[s], Q[s], mbtext, mbtext', e, q)
      BY <3>1, <3>3 DEF c
    <3>5. Others(S, s, P, Q, mbtext, mbtext')
      <4>1. ASSUME NEW t \in S, t # s, NEW k \in 1 .. Len(P[t]) PROVE mbtext'[P[t][k]] = mbtext[P[t][k]]
        <5>1. P[t] \in Seq(Nodes)
          BY DEF Held
        <5>2. P[t][k] \in Nodes /\ On(P[t], P[t][k])
          BY <5>1, PathFacts
        <5>3. P[t][k] \in mbused /\ ~ On(c, P[t][k])
          BY <5>2, <4>1 DEF Held, Owned, Apart, c
        <5> QED BY <5>2, <5>3, <1>1, <2>2, <2>7
      <4> QED BY <4>1, <3>1 DEF Others
    <3> QED BY <3>4, <3>5 DEF Grown
  <2> QED BY <2>13, <2>14, <2>15
<1>8. UNCHANGED poolVars \/ \E d : GrowsBy(last, d, data)
  <2>1. last \in mbused /\ mbused \in SUBSET Nodes
    BY <1>1, <1>2 DEF Pool
  <2>2. UNCHANGED poolVars \/ \E d : GrowsBy(Last(Chain(top[s])), d, data)
    BY <2>1, <1>3, <1>5, AppendGrows
  <2> QED BY <2>2, <1>3
<1> QED BY <1>6, <1>7, <1>8

----------------------------------------------------------------------------
\* What comes before a node of a path.

\* g puts the first k of the sequences q one after the other.
Strung(g, q, k) == \A i \in 1..k : g[i] = IF i = 1 THEN q[i] ELSE g[i - 1] \o q[i]

\* A set of numbers up to n has a last one.
LEMMA LastOfMany ==
    ASSUME NEW n \in Nat, NEW T \in SUBSET (0 .. n), T # {}
    PROVE  \E k \in T : \A j \in T : j <= k
<1> DEFINE U == {n - j : j \in T}
<1>1. U \in SUBSET Nat /\ U # {}
  <2>1. \A j \in T : n - j \in Nat
    OBVIOUS
  <2>2. U \in SUBSET Nat
    BY <2>1
  <2>3. PICK j \in T : TRUE
    OBVIOUS
  <2>4. n - j \in U
    BY <2>3
  <2> QED BY <2>2, <2>4
<1>2. PICK u \in U : \A v \in U : u <= v
  <2> HIDE DEF U
  <2> QED BY <1>1, FirstOfMany
<1>3. PICK k \in T : u = n - k
  BY <1>2
<1>4. \A j \in T : n - k <= n - j
  BY <1>2, <1>3
<1>5. \A j \in T : j <= k
  <2> TAKE j \in T
  <2>1. j \in Nat /\ k \in Nat /\ n - k <= n - j
    BY <1>3, <1>4
  <2> QED BY <2>1
<1> QED BY <1>3, <1>5

\* Sequences can be strung together one by one.
LEMMA StrungExists ==
    ASSUME NEW S, NEW q \in Seq(Seq(S))
    PROVE  \A k \in 1..Len(q) : \E g \in [1..k -> Seq(S)] : Strung(g, q, k)
<1> DEFINE T == {k \in 1..Len(q) : ~ \E g \in [1..k -> Seq(S)] : Strung(g, q, k)}
<1>0. Len(q) \in Nat /\ \A i \in 1..Len(q) : q[i] \in Seq(S)
  BY LenProperties, ElementOfSeq
<1>1. SUFFICES ASSUME T # {} PROVE FALSE
  OBVIOUS
<1>2. PICK k \in T : \A j \in T : k <= j
  <2>1. T \in SUBSET Nat
    BY <1>0
  <2> HIDE DEF T
  <2> QED BY <1>1, <2>1, FirstOfMany
<1>3. k \in 1..Len(q) /\ k \in Nat /\ ~ \E g \in [1..k -> Seq(S)] : Strung(g, q, k)
  BY <1>0, <1>2
<1>4. CASE k = 1
  <2> DEFINE g == [i \in 1..k |-> q[i]]
  <2>1. g \in [1..k -> Seq(S)]
    BY <1>0, <1>3
  <2>2. Strung(g, q, k)
    BY <1>4 DEF Strung
  <2> QED BY <2>1, <2>2, <1>3
<1>5. CASE k # 1
  <2>1. k - 1 \in 1..Len(q) /\ k - 1 \notin T
    <3>1. k - 1 \in 1..Len(q) /\ k - 1 \in Nat /\ ~ (k <= k - 1)
      BY <1>0, <1>3, <1>5
    <3> HIDE DEF T
    <3> QED BY <3>1, <1>2
  <2>2. PICK h \in [1..(k - 1) -> Seq(S)] : Strung(h, q, k - 1)
    BY <2>1
  <2> DEFINE e == h[k - 1] \o q[k]
             g == [i \in 1..k |-> IF i = k THEN e ELSE h[i]]
  <2>3. h[k - 1] \in Seq(S) /\ q[k] \in Seq(S)
    BY <1>0, <1>3, <1>5
  <2>4. h[k - 1] \o q[k] \in Seq(S)
    BY <2>3, ConcatProperties
  <2>5. g \in [1..k -> Seq(S)]
    BY <2>4, <1>3
  <2>6. ASSUME NEW i \in 1..k PROVE g[i] = IF i = 1 THEN q[i] ELSE g[i - 1] \o q[i]
    <3>1. CASE i = k
      <4>1. g[k] = e /\ g[k - 1] = h[k - 1]
        <5> HIDE DEF e
        <5>1. k - 1 \in 1..k /\ k \in 1..k /\ k - 1 # k
          BY <1>3, <1>5
        <5> QED BY <5>1
      <4> QED BY <4>1, <3>1, <1>5
    <3>2. CASE i # k
      <4>1. i \in 1..(k - 1) /\ g[i] = h[i] /\ (i # 1 => g[i - 1] = h[i - 1])
        BY <3>2, <1>3
      <4>2. h[i] = IF i = 1 THEN q[i] ELSE h[i - 1] \o q[i]
        BY <4>1, <2>2 DEF Strung
      <4> QED BY <4>1, <4>2
    <3> QED BY <3>1, <3>2
  <2> QED BY <2>5, <2>6, <1>3 DEF Strung
<1> QED BY <1>4, <1>5

\* FlattenSeq is the last of those that are strung together.
LEMMA FlatIsStrung ==
    ASSUME NEW S, NEW q \in Seq(Seq(S)), Len(q) # 0
    PROVE  \E g \in [1..Len(q) -> Seq(S)] : Strung(g, q, Len(q)) /\ FlattenSeq(q) = g[Len(q)]
<1> DEFINE F(h) == [i \in 1..Len(q) |-> IF i = 1 THEN q[i] ELSE h[i - 1] \o q[i]]
           c == CHOOSE h : h = F(h)
<1>0. Len(q) \in Nat /\ Len(q) \in 1..Len(q)
  BY LenProperties
<1>1. FlattenSeq(q) = c[Len(q)]
  BY DEF FlattenSeq
<1>2. PICK g \in [1..Len(q) -> Seq(S)] : Strung(g, q, Len(q))
  BY <1>0, StrungExists
<1>3. g = F(g)
  BY <1>2 DEF Strung
<1>4. c = F(c)
  <2>1. \E h : h = F(h)
    BY <1>3
  <2> QED BY <2>1, Zenon
<1>5. \A i \in 1..Len(q) : c[i] = IF i = 1 THEN q[i] ELSE c[i - 1] \o q[i]
  <2> HIDE DEF c
  <2> QED BY <1>4
<1>6. \A i \in 1..Len(q) : c[i] = g[i]
  <2> HIDE DEF c, F
  <2> DEFINE T == {i \in 1..Len(q) : c[i] # g[i]}
  <2>1. SUFFICES ASSUME T # {} PROVE FALSE
    OBVIOUS
  <2>2. PICK k \in T : \A j \in T : k <= j
    <3>1. T \in SUBSET Nat
      BY <1>0
    <3> HIDE DEF T
    <3> QED BY <2>1, <3>1, FirstOfMany
  <2>3. k \in 1..Len(q) /\ c[k] # g[k]
    BY <2>2
  <2>4. k # 1 => k - 1 \in 1..Len(q) /\ c[k - 1] = g[k - 1]
    BY <2>2, <2>3, <1>0
  <2>5. /\ c[k] = IF k = 1 THEN q[k] ELSE c[k - 1] \o q[k]
        /\ g[k] = IF k = 1 THEN q[k] ELSE g[k - 1] \o q[k]
    BY <2>3, <1>2, <1>5 DEF Strung
  <2> QED BY <2>3, <2>4, <2>5
<1> QED BY <1>0, <1>1, <1>2, <1>6

\* Two that put the same sequences one after the other agree.
LEMMA StrungUnique ==
    ASSUME NEW n \in Nat, NEW k \in 1 .. n, NEW g, NEW h, NEW q, NEW r,
           Strung(g, q, k), Strung(h, r, k), \A i \in 1 .. k : q[i] = r[i]
    PROVE  g[k] = h[k]
<1> DEFINE T == {i \in 1 .. k : g[i] # h[i]}
<1>1. SUFFICES ASSUME T # {} PROVE FALSE
  OBVIOUS
<1>2. PICK i \in T : \A j \in T : i <= j
  <2>1. T \in SUBSET Nat
    OBVIOUS
  <2> HIDE DEF T
  <2> QED BY <1>1, <2>1, FirstOfMany
<1>3. i \in 1 .. k /\ g[i] # h[i] /\ i \in Nat
  BY <1>2
<1>4. i # 1 => i - 1 \in 1 .. k /\ g[i - 1] = h[i - 1]
  <2>1. SUFFICES ASSUME i # 1 PROVE i - 1 \in 1 .. k /\ g[i - 1] = h[i - 1]
    OBVIOUS
  <2>2. i - 1 \in 1 .. k /\ ~ (i <= i - 1)
    BY <2>1, <1>3
  <2>3. i - 1 \notin T
    <3> HIDE DEF T
    <3> QED BY <2>2, <1>2
  <2> QED BY <2>2, <2>3
<1>5. /\ g[i] = IF i = 1 THEN q[i] ELSE g[i - 1] \o q[i]
      /\ h[i] = IF i = 1 THEN r[i] ELSE h[i - 1] \o r[i]
  BY <1>3 DEF Strung
<1> QED BY <1>3, <1>4, <1>5

\* The bytes before node k of the chain, and what is left in it when len bytes
\* are taken from the front.
Before(chain, text, k) == Len(FlattenSeq([j \in 1 .. k - 1 |-> text[chain[j]]]))
Left(chain, text, len, k) ==
    LET n == Len(text[chain[k]])
        t == IF len <= Before(chain, text, k) THEN 0 ELSE len - Before(chain, text, k)
    IN  IF t >= n THEN <<>> ELSE SubSeq(text[chain[k]], t + 1, n)

\* What comes before a node is what came before the one in front of it, and that.
LEMMA BeforeFacts ==
    ASSUME NEW c \in Seq(Nodes), NEW text \in [Nodes -> Seq(Bytes)]
    PROVE  /\ Before(c, text, 1) = 0
           /\ \A k \in 1 .. Len(c) : /\ Before(c, text, k) \in Nat /\ Before(c, text, k + 1) \in Nat
                                     /\ Len(text[c[k]]) \in Nat
                                     /\ Before(c, text, k + 1) = Before(c, text, k) + Len(text[c[k]])
<1> DEFINE L == Len(c)
           q == [j \in 1 .. L |-> text[c[j]]]
<1>1. L \in Nat /\ (\A k \in 1 .. L : text[c[k]] \in Seq(Bytes) /\ Len(text[c[k]]) \in Nat)
  <2>1. L \in Nat /\ \A k \in 1 .. L : c[k] \in Nodes
    BY PathFacts
  <2>2. \A k \in 1 .. L : text[c[k]] \in Seq(Bytes)
    BY <2>1
  <2> QED BY <2>1, <2>2, LenProperties
<1>2. q \in Seq(Seq(Bytes)) /\ Len(q) = L
  BY <1>1
<1>3. Before(c, text, 1) = 0
  <2>1. [j \in 1 .. 1 - 1 |-> text[c[j]]] = <<>>
    OBVIOUS
  <2>2. FlattenSeq(<<>>) = <<>>
    BY DEF FlattenSeq
  <2> QED BY <2>1, <2>2 DEF Before
<1>4. L = 0 \/ \E g \in [1 .. L -> Seq(Bytes)] : Strung(g, q, L)
  <2>1. SUFFICES ASSUME L # 0 PROVE \E g \in [1 .. L -> Seq(Bytes)] : Strung(g, q, L)
    OBVIOUS
  <2> HIDE DEF q
  <2>2. \A k \in 1 .. Len(q) : \E g \in [1 .. k -> Seq(Bytes)] : Strung(g, q, k)
    BY <1>2, StrungExists
  <2>3. L \in 1 .. Len(q)
    BY <2>1, <1>1, <1>2
  <2> QED BY <2>2, <2>3
<1>5. SUFFICES ASSUME L # 0
               PROVE  \A k \in 1 .. L : /\ Before(c, text, k) \in Nat /\ Before(c, text, k + 1) \in Nat
                                        /\ Before(c, text, k + 1) = Before(c, text, k) + Len(text[c[k]])
  BY <1>1, <1>3
<1>6. PICK g \in [1 .. L -> Seq(Bytes)] : Strung(g, q, L)
  BY <1>4, <1>5
<1>7. ASSUME NEW k \in 1 .. L PROVE Before(c, text, k + 1) = Len(g[k])
  <2> DEFINE r == [j \in 1 .. (k + 1) - 1 |-> text[c[j]]]
  <2>1. (k + 1) - 1 = k /\ k \in Nat /\ k # 0
    BY <1>1
  <2>2. r = [j \in 1 .. k |-> text[c[j]]]
    BY <2>1
  <2>3. r \in Seq(Seq(Bytes)) /\ Len(r) = k
    BY <2>1, <2>2, <1>1
  <2>4. PICK h \in [1 .. Len(r) -> Seq(Bytes)] : Strung(h, r, Len(r)) /\ FlattenSeq(r) = h[Len(r)]
    <3> HIDE DEF r
    <3>1. Len(r) # 0
      BY <2>1, <2>3
    <3> QED BY <3>1, <2>3, FlatIsStrung
  <2>5. Strung(g, q, k)
    <3>1. \A i \in 1 .. k : i \in 1 .. L
      BY <1>1
    <3> HIDE DEF q
    <3> QED BY <3>1, <1>6 DEF Strung
  <2>6. \A i \in 1 .. k : q[i] = r[i]
    BY <2>2, <1>1
  <2>7. g[k] = h[k]
    <3> HIDE DEF q, r
    <3> QED BY <2>3, <2>4, <2>5, <2>6, <1>1, StrungUnique
  <2>8. Before(c, text, k + 1) = Len(FlattenSeq(r))
    BY Zenon DEF Before
  <2> QED BY <2>3, <2>4, <2>7, <2>8
<1>8. ASSUME NEW k \in 1 .. L
      PROVE  /\ Before(c, text, k) \in Nat /\ Before(c, text, k + 1) \in Nat
             /\ Before(c, text, k + 1) = Before(c, text, k) + Len(text[c[k]])
  <2>1. g[k] \in Seq(Bytes) /\ Len(g[k]) \in Nat /\ q[k] = text[c[k]]
    BY LenProperties
  <2>2. CASE k = 1
    <3>1. g[1] = q[1]
      BY <2>2, <1>6 DEF Strung
    <3> HIDE DEF q
    <3> QED BY <3>1, <2>1, <2>2, <1>3, <1>7
  <2>3. CASE k # 1
    <3>1. k - 1 \in 1 .. L /\ (k - 1) + 1 = k
      BY <2>3, <1>1
    <3>2. g[k] = g[k - 1] \o q[k]
      BY <2>3, <1>6 DEF Strung
    <3>3. g[k - 1] \in Seq(Bytes) /\ Len(g[k - 1]) \in Nat
      BY <3>1, LenProperties
    <3>4. Before(c, text, (k - 1) + 1) = Len(g[k - 1])
      BY <3>1, <1>7
    <3>5. Len(g[k - 1] \o text[c[k]]) = Len(g[k - 1]) + Len(text[c[k]])
      BY <3>3, <1>1, ConcatProperties
    <3> HIDE DEF q
    <3> QED BY <3>1, <3>2, <3>3, <3>4, <3>5, <2>1, <1>1, <1>7
  <2> QED BY <2>2, <2>3
<1> QED BY <1>8

\* It grows along the path.
LEMMA BeforeGrows ==
    ASSUME NEW c \in Seq(Nodes), NEW text \in [Nodes -> Seq(Bytes)],
           NEW j \in 1 .. Len(c) + 1, NEW k \in 1 .. Len(c) + 1, j <= k
    PROVE  /\ Before(c, text, j) \in Nat /\ Before(c, text, k) \in Nat
           /\ Before(c, text, j) <= Before(c, text, k)
<1> DEFINE L == Len(c)
           b(i) == Before(c, text, i)
<1>1. L \in Nat
  BY PathFacts
<1>2. b(1) = 0 /\ \A i \in 1 .. L : b(i) \in Nat /\ b(i + 1) \in Nat /\ b(i + 1) >= b(i)
  <2>1. b(1) = 0
    BY BeforeFacts
  <2>2. ASSUME NEW i \in 1 .. L PROVE b(i) \in Nat /\ b(i + 1) \in Nat /\ b(i + 1) >= b(i)
    <3>1. b(i) \in Nat /\ b(i + 1) \in Nat /\ Len(text[c[i]]) \in Nat /\ b(i + 1) = b(i) + Len(text[c[i]])
      BY BeforeFacts
    <3> HIDE DEF b
    <3> QED BY <3>1
  <2> QED BY <2>1, <2>2
<1> HIDE DEF b, L
<1>3. \A i \in 1 .. L + 1 : b(i) \in Nat
  <2>1. ASSUME NEW i \in 1 .. L + 1 PROVE b(i) \in Nat
    <3>1. i = 1 \/ (i - 1 \in 1 .. L /\ (i - 1) + 1 = i)
      BY <1>1
    <3> QED BY <3>1, <1>2
  <2> QED BY <2>1
<1> DEFINE T == {i \in j .. L + 1 : ~ (b(j) <= b(i))}
<1>4. j \in 1 .. L + 1 /\ k \in 1 .. L + 1
  BY DEF L
<1>5. T = {}
  <2>1. SUFFICES ASSUME T # {} PROVE FALSE
    OBVIOUS
  <2>2. PICK i \in T : \A m \in T : i <= m
    <3> T \in SUBSET Nat
      BY <1>1, <1>4
    <3> HIDE DEF T
    <3> QED BY <2>1, FirstOfMany
  <2>3. i \in j .. L + 1 /\ ~ (b(j) <= b(i)) /\ i \in 1 .. L + 1
    BY <2>2, <1>1, <1>4
  <2>4. i # j
    BY <2>3, <1>3
  <2>5. i - 1 \in j .. L + 1 /\ i - 1 \in 1 .. L /\ (i - 1) + 1 = i /\ ~ (i <= i - 1)
    BY <2>3, <2>4, <1>1, <1>4
  <2>6. b(j) <= b(i - 1)
    <3>1. i - 1 \notin T
      <4> HIDE DEF T
      <4> QED BY <2>5, <2>2
    <3> QED BY <3>1, <2>5
  <2>7. b(i - 1) \in Nat /\ b((i - 1) + 1) >= b(i - 1) /\ b(j) \in Nat /\ b(i) \in Nat
    BY <2>5, <2>3, <1>2, <1>3, <1>4
  <2> QED BY <2>3, <2>5, <2>6, <2>7
<1>6. b(j) <= b(k)
  BY <1>5, <1>1, <1>4
<1> QED BY <1>3, <1>4, <1>6 DEF b

----------------------------------------------------------------------------
\* A stream shrinks.

\* The path c loses its nodes from the second to number m, and len bytes.
ShrinksBy(c, m, len) ==
    /\ m \in 1 .. Len(c)
    /\ mbused' \in SUBSET Nodes
    /\ \A n \in Nodes : n \in mbused' <=> n \in mbused /\ \A k \in 2 .. m : c[k] # n
    /\ mbuse' = mbuse - (m - 1)
    /\ mbnext' = [n \in Nodes |-> mbnext'[n]] /\ mbtext' = [n \in Nodes |-> mbtext'[n]]
    /\ \A n \in Nodes : ~ On(c, n) => mbnext'[n] = mbnext[n] /\ mbtext'[n] = mbtext[n]
    /\ \A k \in 1 .. Len(c) : mbtext'[c[k]] = Left(c, mbtext, len, k)
    /\ mbnext'[c[1]] = IF m = Len(c) THEN 0 ELSE c[m + 1]
    /\ \A k \in 2 .. m : mbnext'[c[k]] = 0 /\ Left(c, mbtext, len, k) = <<>>
    /\ \A k \in m + 1 .. Len(c) : mbnext'[c[k]] = mbnext[c[k]] /\ Left(c, mbtext, len, k) # <<>>

\* What is left of a node.
LEMMA LeftFacts ==
    ASSUME NEW c \in Seq(Nodes), NEW text \in [Nodes -> Seq(Bytes)], NEW len \in Nat, NEW k \in 1 .. Len(c)
    PROVE  /\ Left(c, text, len, k) \in Seq(Bytes) /\ Len(Left(c, text, len, k)) <= Len(text[c[k]])
           /\ Left(c, text, len, k) = <<>> <=> text[c[k]] = <<>> \/ Before(c, text, k + 1) <= len
<1> DEFINE n == Len(text[c[k]])
           b == Before(c, text, k)
           e == Before(c, text, k + 1)
           t == IF len <= b THEN 0 ELSE len - b
           s == text[c[k]]
           l == Left(c, text, len, k)
<1>1. b \in Nat /\ e \in Nat /\ n \in Nat /\ e = b + n
  BY BeforeFacts
<1>2. s \in Seq(Bytes) /\ (s = <<>> <=> n = 0) /\ s \in [1 .. n -> Bytes]
  <2>1. c[k] \in Nodes
    BY PathFacts
  <2>2. s \in Seq(Bytes)
    BY <2>1
  <2> QED BY <2>2, EmptySeq, LenProperties
<1>3. l = IF t >= n THEN <<>> ELSE SubSeq(s, t + 1, n)
  BY DEF Left
<1> HIDE DEF l, s, n, b, e
<1>4. t \in Nat /\ (t >= n <=> n = 0 \/ e <= len)
  BY <1>1
<1>5. CASE t >= n
  <2>1. l = <<>>
    BY <1>3, <1>5
  <2>2. <<>> \in Seq(Bytes) /\ Len(<<>>) = 0
    BY EmptySeq
  <2> QED BY <2>1, <2>2, <1>1, <1>2, <1>4, <1>5 DEF l, s, n, b, e
<1>6. CASE ~ (t >= n)
  <2> HIDE DEF t
  <2> DEFINE a == t + 1
  <2>1. a \in Int /\ n \in Int /\ a <= n /\ (\A i \in a .. n : s[i] \in Bytes) /\ n - a + 1 \in Nat
        /\ n - a + 1 <= n /\ n - a + 1 # 0
    BY <1>1, <1>2, <1>4, <1>6
  <2>2. l = SubSeq(s, a, n)
    BY <1>3, <1>6
  <2> HIDE DEF a
  <2>3. l \in Seq(Bytes) /\ Len(l) = IF a <= n THEN n - a + 1 ELSE 0
    BY <2>1, <2>2, SubSeqProperties
  <2>4. l # <<>>
    BY <2>1, <2>3, EmptySeq
  <2> QED BY <2>1, <2>3, <2>4, <1>2, <1>4, <1>6 DEF l, s, n, b, e
<1> QED BY <1>5, <1>6

\* What consumeMemBufList does: the nodes that are emptied behind the first are
\* those from the second to some m.
LEMMA ConsumeShrinks ==
    ASSUME NEW top, Leads(mbnext, top, Chain(top)), Chain(top) # <<>>, Pool(mbused, mbnext, mbtext, mbuse),
           \A k \in 2 .. Len(Chain(top)) : mbtext[Chain(top)[k]] # <<>>,
           NEW len \in Nat, consumeMemBufList(top, len), \A n \in Nodes : On(Chain(top), n) => n \in mbused
    PROVE  \E m : ShrinksBy(Chain(top), m, len)
<1> DEFINE c == Chain(top)
           L == Len(c)
           left(k) == Left(c, mbtext, len, k)
           E == {k \in 2 .. L : left(k) = <<>>}
           gone == {c[k] : k \in E}
           rest == IF E = {} THEN mbnext[top]
                   ELSE LET k == CHOOSE k \in E : \A j \in E : j <= k
                        IN  IF k = L THEN 0 ELSE c[k + 1]
           where(n) == CHOOSE k \in DOMAIN c : c[k] = n
           text2 == [n \in Nodes |-> IF n \in Range(c) THEN left(where(n)) ELSE mbtext[n]]
           next2 == [n \in Nodes |-> IF n \in gone THEN 0 ELSE IF n = top THEN rest ELSE mbnext[n]]
<1>1. Consumed(top, len) = [gone |-> gone, text |-> text2, next |-> next2]
  BY Zenon DEF Consumed, Left, Before
<1>2. mbtext' = text2 /\ mbnext' = next2 /\ mbused' = mbused \ gone /\ mbuse' = mbuse - Cardinality(gone)
  <2> HIDE DEF text2, next2, gone
  <2>1. /\ mbtext' = Consumed(top, len).text /\ mbnext' = Consumed(top, len).next
        /\ mbused' = mbused \ Consumed(top, len).gone /\ mbuse' = mbuse - Cardinality(Consumed(top, len).gone)
    BY Zenon DEF consumeMemBufList
  <2> QED BY <1>1, <2>1
<1> HIDE DEF c
<1>3. c \in Seq(Nodes) /\ L \in Nat /\ L # 0 /\ c[1] = top /\ mbnext[c[L]] = 0 /\ DOMAIN c = 1 .. L
      /\ (\A k \in 1 .. L : c[k] \in Nodes /\ On(c, c[k]))
      /\ (\A j, k \in 1 .. L : c[j] = c[k] => j = k)
      /\ (\A k \in 1 .. L - 1 : mbnext[c[k]] = c[k + 1])
      /\ (\A k \in 2 .. L : mbtext[c[k]] # <<>>)
      /\ (\A n \in Nodes : On(c, n) => n \in mbused)
  <2>0. Leads(mbnext, top, c) /\ c # <<>> /\ (\A k \in 2 .. L : mbtext[c[k]] # <<>>)
        /\ (\A n \in Nodes : On(c, n) => n \in mbused)
    BY DEF c
  <2>1. c \in Seq(Nodes)
    BY <2>0 DEF Leads
  <2>2. L \in Nat /\ L # 0 /\ (\A k \in 1 .. L : c[k] \in Nodes /\ On(c, c[k])) /\ DOMAIN c = 1 .. L
    BY <2>0, <2>1, PathFacts, LenProperties
  <2> QED BY <2>0, <2>1, <2>2 DEF Leads
<1> HIDE DEF L
<1>4. ASSUME NEW k \in 2 .. L PROVE left(k) = <<>> <=> Before(c, mbtext, k + 1) <= len
  <2>1. k \in 1 .. Len(c) /\ mbtext[c[k]] # <<>>
    BY <1>3 DEF L
  <2>2. mbtext \in [Nodes -> Seq(Bytes)]
    BY DEF Pool
  <2>3. Left(c, mbtext, len, k) = <<>> <=> mbtext[c[k]] = <<>> \/ Before(c, mbtext, k + 1) <= len
    BY <2>1, <2>2, <1>3, LeftFacts
  <2> QED BY <2>1, <2>3
<1>5. ASSUME NEW j \in 2 .. L, NEW k \in 2 .. L, j <= k, left(k) = <<>> PROVE left(j) = <<>>
  <2> DEFINE jj == j + 1
             kk == k + 1
  <2>1. jj \in 1 .. Len(c) + 1 /\ kk \in 1 .. Len(c) + 1 /\ jj <= kk
    BY <1>3, <1>5 DEF L
  <2>2. mbtext \in [Nodes -> Seq(Bytes)]
    BY DEF Pool
  <2> HIDE DEF jj, kk, left
  <2>3. Before(c, mbtext, jj) \in Nat /\ Before(c, mbtext, kk) \in Nat /\ Before(c, mbtext, jj) <= Before(c, mbtext, kk)
    BY <2>1, <2>2, <1>3, BeforeGrows
  <2>4. Before(c, mbtext, kk) <= len
    BY <1>4, <1>5 DEF kk
  <2>5. Before(c, mbtext, jj) <= len
    BY <2>3, <2>4
  <2> QED BY <2>5, <1>4 DEF jj
<1> HIDE DEF left
<1> DEFINE most == CHOOSE k \in E : \A j \in E : j <= k
           m == IF E = {} THEN 1 ELSE most
<1>6. E # {} => most \in E /\ \A j \in E : j <= most
  <2>1. SUFFICES ASSUME E # {} PROVE most \in E /\ \A j \in E : j <= most
    OBVIOUS
  <2>2. E \in SUBSET (0 .. L)
    BY <1>3
  <2> HIDE DEF E
  <2>3. \E k \in E : \A j \in E : j <= k
    BY <2>1, <2>2, <1>3, LastOfMany
  <2> QED BY <2>3, Zenon
<1> HIDE DEF most
<1>7. m \in 1 .. L /\ \A k \in 2 .. L : left(k) = <<>> <=> k <= m
  <2>1. CASE E = {}
    <3>1. \A k \in 2 .. L : left(k) # <<>> /\ ~ (k <= 1)
      BY <2>1
    <3> QED BY <3>1, <2>1, <1>3
  <2>2. CASE E # {}
    <3>1. most \in 2 .. L /\ left(most) = <<>> /\ \A j \in 2 .. L : left(j) = <<>> => j <= most
      BY <2>2, <1>6
    <3>2. \A j \in 2 .. L : j <= most => left(j) = <<>>
      BY <3>1, <1>5
    <3>3. m = most
      BY <2>2
    <3> QED BY <3>1, <3>2, <3>3, <1>3
  <2> QED BY <2>1, <2>2
<1>8. rest = IF m = L THEN 0 ELSE c[m + 1]
  <2>1. CASE E = {}
    <3>1. L = 1 => mbnext[c[1]] = 0
      BY <1>3
    <3>2. L # 1 => mbnext[c[1]] = c[1 + 1]
      <4>1. L # 1 => 1 \in 1 .. L - 1
        BY <1>3
      <4> QED BY <4>1, <1>3
    <3> QED BY <2>1, <3>1, <3>2, <1>3
  <2>2. CASE E # {}
    <3>1. rest = IF most = L THEN 0 ELSE c[most + 1]
      BY <2>2, Zenon DEF most
    <3> QED BY <2>2, <3>1
  <2> QED BY <2>1, <2>2
<1> HIDE DEF rest
<1>9. E = 2 .. m
  BY <1>3, <1>7
<1> HIDE DEF E, m
<1>10. \A n \in Nodes : n \in gone <=> \E k \in 2 .. m : c[k] = n
  BY <1>9
<1>11. gone \in SUBSET Nodes
  BY <1>3, <1>7, <1>9
<1>12. ASSUME NEW k \in 1 .. L PROVE where(c[k]) = k /\ c[k] \in Range(c)
  <2>1. k \in DOMAIN c /\ \A j \in DOMAIN c : c[j] = c[k] => j = k
    BY <1>3
  <2>2. where(c[k]) \in DOMAIN c /\ c[where(c[k])] = c[k]
    BY <2>1, Zenon
  <2>3. where(c[k]) = k
    <3> HIDE DEF where
    <3> QED BY <2>1, <2>2
  <2>4. c[k] \in Range(c)
    BY <2>1 DEF Range
  <2> QED BY <2>3, <2>4
<1>13. \A n \in Nodes : n \in Range(c) <=> On(c, n)
  BY <1>3 DEF Range, On, L
<1> HIDE DEF where
<1>14. \A k \in 1 .. L : mbtext'[c[k]] = Left(c, mbtext, len, k)
  BY <1>2, <1>3, <1>12 DEF left
<1>15. ASSUME NEW n \in Nodes, ~ On(c, n) PROVE mbnext'[n] = mbnext[n] /\ mbtext'[n] = mbtext[n]
  <2>1. n \notin Range(c)
    BY <1>13, <1>15
  <2>2. n \notin gone
    <3>1. \A k \in 2 .. m : k \in 1 .. L
      BY <1>3, <1>7
    <3> QED BY <3>1, <1>3, <1>10, <1>15
  <2>3. n # top
    <3>1. 1 \in 1 .. L
      BY <1>3
    <3> QED BY <3>1, <1>3, <1>15
  <2> HIDE DEF gone
  <2> QED BY <1>2, <2>1, <2>2, <2>3
<1>16. ASSUME NEW k \in 1 .. L PROVE c[k] \in gone <=> k \in 2 .. m
  <2>1. c[k] \in Nodes /\ \A j \in 2 .. m : j \in 1 .. L
    BY <1>3, <1>7
  <2> QED BY <2>1, <1>3, <1>10
<1>17. mbnext'[c[1]] = IF m = L THEN 0 ELSE c[m + 1]
  <2>1. 1 \in 1 .. L /\ 1 \notin 2 .. m
    BY <1>3, <1>7
  <2>2. c[1] \notin gone /\ c[1] \in Nodes /\ c[1] = top
    BY <2>1, <1>3, <1>16
  <2> HIDE DEF gone
  <2> QED BY <2>2, <1>2, <1>8
<1>18. ASSUME NEW k \in 2 .. m PROVE mbnext'[c[k]] = 0 /\ left(k) = <<>>
  <2>1. k \in 1 .. L /\ k \in 2 .. L /\ k <= m
    BY <1>3, <1>7
  <2>2. c[k] \in gone /\ c[k] \in Nodes
    BY <2>1, <1>3, <1>16
  <2> HIDE DEF gone
  <2> QED BY <2>1, <2>2, <1>2, <1>7
<1>19. ASSUME NEW k \in m + 1 .. L PROVE mbnext'[c[k]] = mbnext[c[k]] /\ left(k) # <<>>
  <2>1. k \in 1 .. L /\ k \in 2 .. L /\ ~ (k <= m) /\ k # 1 /\ 1 \in 1 .. L
    BY <1>3, <1>7
  <2>2. c[k] \notin gone /\ c[k] \in Nodes /\ c[k] # top
    BY <2>1, <1>3, <1>16
  <2> HIDE DEF gone
  <2> QED BY <2>1, <2>2, <1>2, <1>7
<1>20. Cardinality(gone) = m - 1
  <2> DEFINE d == [k \in 1 .. m - 1 |-> c[k + 1]]
  <2>1. m - 1 \in Nat /\ \A k \in 1 .. m - 1 : k + 1 \in 2 .. m /\ k + 1 \in 1 .. L
    BY <1>3, <1>7
  <2>2. d \in Seq(Nodes) /\ Len(d) = m - 1
    BY <2>1, <1>3
  <2>3. Single(d)
    <3>1. ASSUME NEW j \in 1 .. m - 1, NEW k \in 1 .. m - 1, d[j] = d[k] PROVE j = k
      <4>1. j + 1 = k + 1
        BY <2>1, <3>1, <1>3
      <4> QED BY <4>1
    <3> QED BY <3>1, <2>2 DEF Single
  <2>4. gone = NodesOf(d)
    <3>1. ASSUME NEW n \in Nodes PROVE n \in gone <=> On(d, n)
      <4>1. ASSUME NEW k \in 2 .. m, c[k] = n PROVE On(d, n)
        <5>1. k - 1 \in 1 .. m - 1 /\ (k - 1) + 1 = k
          BY <1>3, <1>7
        <5> QED BY <5>1, <4>1, <2>2 DEF On
      <4>2. ASSUME NEW k \in 1 .. m - 1, d[k] = n PROVE n \in gone
        BY <4>2, <2>1, <1>10
      <4> QED BY <4>1, <4>2, <2>2, <1>10 DEF On
    <3> HIDE DEF gone, d
    <3> QED BY <3>1, <1>11 DEF NodesOf
  <2> HIDE DEF d, gone
  <2> QED BY <2>2, <2>3, <2>4, CountNodes
<1> HIDE DEF gone
<1>21. mbused' \in SUBSET Nodes /\ \A n \in Nodes : n \in mbused' <=> n \in mbused /\ \A k \in 2 .. m : c[k] # n
  BY <1>2, <1>10 DEF Pool
<1>22. mbnext' = [n \in Nodes |-> mbnext'[n]] /\ mbtext' = [n \in Nodes |-> mbtext'[n]]
  BY <1>2
<1> HIDE DEF text2, next2
<1>23. ShrinksBy(c, m, len)
  <2>1. mbuse' = mbuse - (m - 1)
    BY <1>2, <1>20
  <2> QED BY <2>1, <1>7, <1>14, <1>15, <1>17, <1>18, <1>19, <1>21, <1>22 DEF ShrinksBy, left, L
<1> QED BY <1>23 DEF c

\* The path c without the nodes from the second to number m.
Without(c, m) == [k \in 1 .. Len(c) - m + 1 |-> IF k = 1 THEN c[1] ELSE c[k + m - 1]]

\* It is a path.
LEMMA PathShrinks ==
    ASSUME NEW next, NEW top, NEW c, Leads(next, top, c), NEW m \in 1 .. Len(c), NEW next2,
           next2[c[1]] = IF m = Len(c) THEN 0 ELSE c[m + 1],
           \A k \in m + 1 .. Len(c) : next2[c[k]] = next[c[k]]
    PROVE  /\ Leads(next2, top, Without(c, m)) /\ Len(Without(c, m)) = Len(c) - m + 1
           /\ Without(c, m)[1] = c[1] /\ \A k \in 2 .. Len(c) - m + 1 : Without(c, m)[k] = c[k + m - 1]
           /\ \A n \in Nodes : On(Without(c, m), n) <=> On(c, n) /\ \A k \in 2 .. m : c[k] # n
<1> DEFINE L == Len(c)
           e == Without(c, m)
           N == L - m + 1
<1>1. c \in Seq(Nodes) /\ L \in Nat /\ c[1] = top /\ next[c[L]] = 0
      /\ (\A k \in 1 .. L : c[k] \in Nodes)
      /\ (\A j, k \in 1 .. L : c[j] = c[k] => j = k)
      /\ (\A k \in 1 .. L - 1 : next[c[k]] = c[k + 1])
  <2>1. c \in Seq(Nodes)
    BY DEF Leads
  <2>2. L \in Nat /\ (\A k \in 1 .. L : c[k] \in Nodes)
    BY <2>1, PathFacts
  <2>3. c # <<>>
    BY <2>1, <2>2, PathFacts
  <2> QED BY <2>1, <2>2, <2>3 DEF Leads
<1>2. m \in 1 .. L /\ next2[c[1]] = (IF m = L THEN 0 ELSE c[m + 1]) /\ \A k \in m + 1 .. L : next2[c[k]] = next[c[k]]
  OBVIOUS
<1>3. e = [k \in 1 .. N |-> IF k = 1 THEN c[1] ELSE c[k + m - 1]] /\ N \in Nat /\ N # 0 /\ 1 \in 1 .. N
  BY <1>1 DEF Without
<1> HIDE DEF e, L
<1>4. ASSUME NEW k \in 1 .. N PROVE /\ k # 1 => k + m - 1 \in m + 1 .. L
                                    /\ k + m - 1 \in 1 .. L /\ (k # 1 => k + m - 1 # 1)
  BY <1>1, <1>2
<1>5. e \in Seq(Nodes) /\ Len(e) = N
  <2>1. \A k \in 1 .. N : (IF k = 1 THEN c[1] ELSE c[k + m - 1]) \in Nodes
    BY <1>1, <1>2, <1>4
  <2> QED BY <1>3, <2>1
<1>6. e[1] = c[1] /\ \A k \in 2 .. N : e[k] = c[k + m - 1] /\ k \in 1 .. N
  BY <1>3
<1> HIDE DEF N
<1>7. ASSUME NEW j \in 1 .. N, NEW k \in 1 .. N, e[j] = e[k] PROVE j = k
  <2>0. 1 \in 1 .. L
    BY <1>1, <1>2
  <2>1. CASE j = 1 /\ k = 1
    BY <2>1
  <2>2. CASE j = 1 /\ k # 1
    <3>1. e[j] = c[1] /\ e[k] = c[k + m - 1]
      BY <2>2, <1>3
    <3> QED BY <3>1, <2>0, <2>2, <1>1, <1>4, <1>7
  <2>3. CASE j # 1 /\ k = 1
    <3>1. e[k] = c[1] /\ e[j] = c[j + m - 1]
      BY <2>3, <1>3
    <3>2. j + m - 1 \in 1 .. L /\ j + m - 1 # 1
      BY <2>3, <1>4
    <3>3. c[j + m - 1] = c[1]
      BY <3>1, <1>7
    <3> DEFINE i == j + m - 1
    <3>4. i \in 1 .. L /\ i # 1 /\ c[i] = c[1]
      BY <3>2, <3>3
    <3> HIDE DEF i
    <3>5. i = 1
      BY <3>4, <2>0, <1>1
    <3> QED BY <3>4, <3>5
  <2>4. CASE j # 1 /\ k # 1
    <3>1. e[j] = c[j + m - 1] /\ e[k] = c[k + m - 1]
      BY <2>4, <1>3
    <3>2. j + m - 1 = k + m - 1
      BY <3>1, <1>1, <1>4, <1>7
    <3> QED BY <3>2, <1>2
  <2> QED BY <2>1, <2>2, <2>3, <2>4
<1>8. next2[e[N]] = 0
  <2>1. CASE m = L
    <3>1. N = 1
      BY <2>1, <1>1 DEF N
    <3> QED BY <3>1, <2>1, <1>2, <1>3
  <2>2. CASE m # L
    <3>1. N # 1 /\ N + m - 1 = L /\ L \in m + 1 .. L /\ N \in 1 .. N
      BY <2>2, <1>1, <1>2, <1>3 DEF N
    <3>2. e[N] = c[L]
      BY <3>1, <1>3
    <3> QED BY <3>1, <3>2, <1>1, <1>2
  <2> QED BY <2>1, <2>2
<1>9. ASSUME NEW k \in 1 .. N - 1 PROVE next2[e[k]] = e[k + 1]
  <2>1. k \in 1 .. N /\ k + 1 \in 1 .. N /\ k + 1 # 1 /\ (k + 1) + m - 1 = k + m
    BY <1>2, <1>3
  <2>2. e[k + 1] = c[k + m]
    BY <2>1, <1>3
  <2>3. CASE k = 1
    <3>1. m # L /\ k + m = m + 1
      BY <2>3, <1>1, <1>2 DEF N
    <3> QED BY <3>1, <2>2, <2>3, <1>2, <1>6
  <2>4. CASE k # 1
    <3>1. e[k] = c[k + m - 1] /\ k + m - 1 \in m + 1 .. L /\ k + m - 1 \in 1 .. L - 1 /\ (k + m - 1) + 1 = k + m
      BY <2>1, <2>4, <1>1, <1>2, <1>3 DEF N
    <3>2. next2[c[k + m - 1]] = next[c[k + m - 1]] /\ next[c[k + m - 1]] = c[(k + m - 1) + 1]
      BY <3>1, <1>1, <1>2
    <3> QED BY <3>1, <3>2, <2>2
  <2> QED BY <2>3, <2>4
<1>10. Leads(next2, top, e)
  <2>1. e # <<>>
    BY <1>3, <1>5, EmptySeq
  <2>2. \A j, k \in 1 .. Len(e) : e[j] = e[k] => j = k
    BY <1>5, <1>7
  <2>3. \A k \in 1 .. Len(e) - 1 : next2[e[k]] = e[k + 1]
    BY <1>5, <1>9
  <2> QED BY <2>1, <2>2, <2>3, <1>1, <1>5, <1>6, <1>8 DEF Leads
<1>11. ASSUME NEW n \in Nodes PROVE On(e, n) <=> On(c, n) /\ \A k \in 2 .. m : c[k] # n
  <2>0. 1 \in 1 .. L /\ \A k \in 2 .. m : k \in 1 .. L /\ k # 1
    BY <1>1, <1>2
  <2>1. ASSUME NEW k \in 1 .. N, e[k] = n PROVE On(c, n) /\ \A j \in 2 .. m : c[j] # n
    <3>1. CASE k = 1
      BY <3>1, <2>0, <2>1, <1>1, <1>6 DEF On, L
    <3>2. CASE k # 1
      <4>1. k + m - 1 \in 1 .. L /\ n = c[k + m - 1] /\ \A j \in 2 .. m : j # k + m - 1
        BY <3>2, <2>1, <1>2, <1>3, <1>4
      <4> QED BY <4>1, <2>0, <1>1 DEF On, L
    <3> QED BY <3>1, <3>2
  <2>2. ASSUME NEW k \in 1 .. L, c[k] = n, \A j \in 2 .. m : c[j] # n PROVE On(e, n)
    <3>1. CASE k = 1
      BY <3>1, <2>2, <1>3, <1>5, <1>6 DEF On
    <3>2. CASE k # 1
      <4>1. k \notin 2 .. m
        BY <2>2
      <4>2. k - m + 1 \in 1 .. N /\ k - m + 1 # 1 /\ (k - m + 1) + m - 1 = k
        BY <4>1, <3>2, <1>1, <1>2 DEF N
      <4>3. e[k - m + 1] = c[(k - m + 1) + m - 1]
        BY <4>2, <1>3
      <4> QED BY <4>2, <4>3, <2>2, <1>5 DEF On
    <3> QED BY <3>1, <3>2
  <2> QED BY <2>1, <2>2, <1>5 DEF On, L
<1> QED BY <1>5, <1>6, <1>10, <1>11 DEF e, N, L

\* The stream s loses the nodes from the second to some number of its path, which
\* are empty then, and the other streams hold what they held.
ShorterBy(c, e, text, text2, len, m) ==
    /\ m \in 1 .. Len(c) /\ e = Without(c, m)
    /\ \A k \in 1 .. Len(c) : text2[c[k]] = Left(c, text, len, k)
    /\ \A k \in 2 .. m : Left(c, text, len, k) = <<>>
Shrunk(S, s, P, Q, text, text2, len) ==
    /\ Others(S, s, P, Q, text, text2)
    /\ \E m : ShorterBy(P[s], Q[s], text, text2, len, m)

\* A stream that shrinks keeps the pool and its streams in order.
LEMMA ConsumeKeeps ==
    ASSUME NEW S, NEW top, NEW P, Held(S, top, P, mbused, mbnext, mbtext),
           Pool(mbused, mbnext, mbtext, mbuse), NEW s \in S, top[s] # 0,
           NEW len \in Nat, consumeMemBufList(top[s], len)
    PROVE  /\ Pool(mbused', mbnext', mbtext', mbuse')
           /\ \E Q : /\ Held(S, top, Q, mbused', mbnext', mbtext')
                     /\ Shrunk(S, s, P, Q, mbtext, mbtext', len)
<1> DEFINE c == P[s]
           L == Len(c)
<1>1. c \in Seq(Nodes) /\ L \in Nat /\ Leads(mbnext, top[s], c) /\ c # <<>> /\ L # 0
      /\ \A k \in 1 .. L : c[k] \in Nodes /\ On(c, c[k])
  <2>1. c \in Seq(Nodes) /\ Leads(mbnext, top[s], c)
    BY DEF Held, Paths
  <2>2. c # <<>>
    BY <2>1 DEF Leads
  <2> QED BY <2>1, <2>2, PathFacts
<1>2. \A n \in Nodes : On(c, n) => n \in mbused
  BY DEF Held, Owned
<1>3. Chain(top[s]) = c
  <2>1. ChainBy(mbnext, top[s]) = c
    <3> HIDE DEF c
    <3> QED BY <1>1, ChainIsPath DEF Pool
  <2> QED BY <2>1, Zenon DEF Chain, ChainBy
<1>4. \A k \in 2 .. L : mbtext[c[k]] # <<>>
  BY DEF Held, Filled
<1> HIDE DEF c
<1>5. \E m : ShrinksBy(c, m, len)
  <2> DEFINE t == top[s]
  <2>1. Leads(mbnext, t, Chain(t)) /\ Chain(t) # <<>>
    BY <1>1, <1>3
  <2>2. \A k \in 2 .. Len(Chain(t)) : mbtext[Chain(t)[k]] # <<>>
    BY <1>3, <1>4
  <2>3. \A n \in Nodes : On(Chain(t), n) => n \in mbused
    BY <1>2, <1>3
  <2>4. consumeMemBufList(t, len)
    OBVIOUS
  <2>5. Chain(t) = c
    BY <1>3
  <2> HIDE DEF t
  <2>6. \E m : ShrinksBy(Chain(t), m, len)
    BY <2>1, <2>2, <2>3, <2>4, ConsumeShrinks
  <2> QED BY <2>5, <2>6
<1>6. PICK m : ShrinksBy(c, m, len)
  BY <1>5
<1> DEFINE e == Without(c, m)
           Q == [P EXCEPT ![s] = e]
           N == L - m + 1
<1>7. m \in 1 .. L /\ m \in Nat /\ N \in Nat
  BY <1>1, <1>6 DEF ShrinksBy
<1>8. /\ mbnext'[c[1]] = IF m = Len(c) THEN 0 ELSE c[m + 1]
      /\ \A k \in m + 1 .. Len(c) : mbnext'[c[k]] = mbnext[c[k]]
  BY <1>6 DEF ShrinksBy
<1>9. /\ Leads(mbnext', top[s], e) /\ Len(e) = N
      /\ e[1] = c[1] /\ (\A k \in 2 .. N : e[k] = c[k + m - 1])
      /\ \A n \in Nodes : On(e, n) <=> On(c, n) /\ \A k \in 2 .. m : c[k] # n
  BY <1>1, <1>7, <1>8, PathShrinks
<1>10. e \in Seq(Nodes)
  BY <1>9 DEF Leads
<1> HIDE DEF e
<1>11. ASSUME NEW k \in 1 .. L
       PROVE  mbtext'[c[k]] = Left(c, mbtext, len, k) /\ mbtext'[c[k]] \in Seq(Bytes) /\ Len(mbtext'[c[k]]) <= Cap
  <2>1. mbtext \in [Nodes -> Seq(Bytes)] /\ Len(mbtext[c[k]]) <= Cap /\ Len(mbtext[c[k]]) \in Nat /\ Cap \in Nat
    BY <1>1, LenProperties, BufferAssumption DEF Pool
  <2>2. k \in 1 .. Len(c)
    OBVIOUS
  <2>3. Left(c, mbtext, len, k) \in Seq(Bytes) /\ Len(Left(c, mbtext, len, k)) <= Len(mbtext[c[k]])
    BY <2>1, <2>2, <1>1, LeftFacts
  <2>4. mbtext'[c[k]] = Left(c, mbtext, len, k)
    BY <1>6 DEF ShrinksBy
  <2>5. Len(Left(c, mbtext, len, k)) \in Nat
    BY <2>3, LenProperties
  <2> QED BY <2>1, <2>3, <2>4, <2>5
<1>12. \A n \in Nodes : ~ On(c, n) => mbnext'[n] = mbnext[n] /\ mbtext'[n] = mbtext[n]
  BY <1>6 DEF ShrinksBy
<1>13. mbused' \in SUBSET Nodes /\ \A n \in Nodes : n \in mbused' <=> n \in mbused /\ \A k \in 2 .. m : c[k] # n
  BY <1>6 DEF ShrinksBy
<1>14. Held(S, top, Q, mbused', mbnext', mbtext')
  <2>1. Q \in [S -> Seq(Nodes)] /\ Q[s] = e /\ \A t \in S : t # s => Q[t] = P[t]
    BY <1>10 DEF Held
  <2> HIDE DEF Q
  <2>2. Leads(mbnext', top[s], Q[s])
    BY <2>1, <1>9
  <2>3. ASSUME NEW k \in 2 .. Len(Q[s]) PROVE mbtext'[Q[s][k]] # <<>>
    <3>1. k \in 2 .. N /\ k + m - 1 \in m + 1 .. L /\ k + m - 1 \in 1 .. L
      BY <2>1, <1>1, <1>7, <1>9
    <3>2. Q[s][k] = c[k + m - 1]
      BY <3>1, <2>1, <1>9
    <3> DEFINE j == k + m - 1
    <3>3. j \in m + 1 .. Len(c) /\ j \in 1 .. L
      BY <3>1
    <3> HIDE DEF j
    <3>4. Left(c, mbtext, len, j) # <<>>
      BY <3>3, <1>6 DEF ShrinksBy
    <3>5. mbtext'[c[j]] = Left(c, mbtext, len, j)
      BY <3>3, <1>11
    <3> QED BY <3>2, <3>4, <3>5 DEF j
  <2>4. \A n \in Nodes : On(Q[s], n) => On(P[s], n) \/ n \notin mbused
    BY <2>1, <1>9 DEF c
  <2>5. \A n \in Nodes : n \in mbused' <=> (n \in mbused /\ ~ On(P[s], n)) \/ On(Q[s], n)
    <3>1. ASSUME NEW n \in Nodes PROVE n \in mbused' <=> (n \in mbused /\ ~ On(c, n)) \/ On(e, n)
      <4>1. ASSUME ~ On(c, n) PROVE \A k \in 2 .. m : c[k] # n
        <5>1. \A k \in 2 .. m : k \in 1 .. Len(c)
          BY <1>1, <1>7
        <5> QED BY <5>1, <4>1 DEF On
      <4> QED BY <4>1, <1>2, <1>9, <1>13
    <3> QED BY <3>1, <2>1 DEF c
  <2>6. \A n \in Nodes : n \in mbused /\ ~ On(P[s], n) => mbnext'[n] = mbnext[n] /\ mbtext'[n] = mbtext[n]
    BY <1>12 DEF c
  <2>7. ASSUME NEW n \in Nodes \ mbused' PROVE mbnext'[n] = 0 /\ mbtext'[n] = <<>>
    <3>1. CASE n \in mbused
      <4>1. PICK k \in 2 .. m : c[k] = n
        BY <3>1, <1>13
      <4>2. k \in 1 .. L
        BY <1>1, <1>7
      <4>3. mbnext'[c[k]] = 0 /\ Left(c, mbtext, len, k) = <<>>
        BY <1>6 DEF ShrinksBy
      <4> QED BY <4>1, <4>2, <4>3, <1>11
    <3>2. CASE n \notin mbused
      <4>1. ~ On(c, n)
        BY <3>2, <1>2
      <4>2. mbnext[n] = 0 /\ mbtext[n] = <<>>
        BY <3>2 DEF Held, Clean
      <4> QED BY <4>1, <4>2, <1>12
    <3> QED BY <3>1, <3>2
  <2>8. OneChanges(S, s, top, top, P, Q, mbused, mbused', mbnext, mbnext', mbtext, mbtext')
    BY <2>1, <2>2, <2>3, <2>4, <2>5, <2>6, <2>7, <1>13 DEF OneChanges
  <2> QED BY <2>8, OneStreamChanges
<1>15. Pool(mbused', mbnext', mbtext', mbuse')
  <2>1. ASSUME NEW n \in Nodes
        PROVE  mbnext'[n] \in Nodes \cup {0} /\ mbtext'[n] \in Seq(Bytes) /\ Len(mbtext'[n]) <= Cap
    <3>1. CASE ~ On(c, n)
      BY <3>1, <1>12 DEF Pool, Links
    <3>2. CASE On(c, n)
      <4>1. PICK k \in 1 .. L : c[k] = n
        BY <3>2 DEF On
      <4>2. mbnext'[c[k]] \in Nodes \cup {0}
        <5>1. CASE k = 1
          <6>1. m # L => m + 1 \in 1 .. L
            BY <1>1, <1>7
          <6> QED BY <6>1, <5>1, <1>1, <1>8
        <5>2. CASE k \in 2 .. m
          BY <5>2, <1>6 DEF ShrinksBy
        <5>3. CASE k # 1 /\ k \notin 2 .. m
          <6>1. k \in m + 1 .. Len(c)
            BY <5>3, <1>1, <1>7
          <6> QED BY <6>1, <1>1, <1>8 DEF Pool, Links
        <5> QED BY <5>1, <5>2, <5>3
      <4> QED BY <4>1, <4>2, <1>11
    <3> QED BY <3>1, <3>2
  <2>2. mbnext' = [n \in Nodes |-> mbnext'[n]] /\ mbtext' = [n \in Nodes |-> mbtext'[n]]
    BY <1>6 DEF ShrinksBy
  <2>3. mbnext' \in Links /\ mbtext' \in [Nodes -> Seq(Bytes)]
    BY <2>1, <2>2 DEF Links
  <2>4. mbuse' = Cardinality(mbused')
    <3> DEFINE d == [k \in 1 .. m - 1 |-> c[k + 1]]
    <3>1. m - 1 \in Nat /\ \A k \in 1 .. m - 1 : k + 1 \in 2 .. m /\ k + 1 \in 1 .. L
      BY <1>1, <1>7
    <3>2. d \in Seq(Nodes) /\ Len(d) = m - 1
      BY <3>1, <1>1
    <3>3. Single(d)
      <4>1. \A j, k \in 1 .. L : c[j] = c[k] => j = k
        BY <1>1 DEF Leads
      <4>2. ASSUME NEW j \in 1 .. m - 1, NEW k \in 1 .. m - 1, d[j] = d[k] PROVE j = k
        <5>1. j + 1 = k + 1
          BY <3>1, <4>1, <4>2
        <5> QED BY <5>1
      <4> QED BY <4>2, <3>2 DEF Single
    <3>4. ASSUME NEW n \in Nodes PROVE On(d, n) <=> \E k \in 2 .. m : c[k] = n
      <4>1. ASSUME NEW k \in 2 .. m, c[k] = n PROVE On(d, n)
        <5>1. k - 1 \in 1 .. m - 1 /\ (k - 1) + 1 = k
          BY <1>7
        <5> QED BY <5>1, <4>1, <3>2 DEF On
      <4>2. ASSUME NEW k \in 1 .. m - 1, d[k] = n PROVE \E j \in 2 .. m : c[j] = n
        BY <4>2, <3>1
      <4> QED BY <4>1, <4>2, <3>2 DEF On
    <3> HIDE DEF d
    <3>5. IsFiniteSet(NodesOf(d)) /\ Cardinality(NodesOf(d)) = m - 1
      BY <3>2, <3>3, CountNodes
    <3>6. mbused \in SUBSET Nodes /\ mbused' = mbused \ NodesOf(d)
      BY <1>13, <3>4 DEF Pool, NodesOf
    <3>7. mbused \cap NodesOf(d) = NodesOf(d)
      <4>1. \A n \in NodesOf(d) : n \in mbused
        <5>1. \A k \in 2 .. m : k \in 1 .. Len(c)
          BY <1>1, <1>7
        <5> QED BY <5>1, <3>4, <1>2 DEF NodesOf, On
      <4> QED BY <4>1
    <3>8. IsFiniteSet(mbused)
      <4>1. IsFiniteSet(Nodes)
        BY BufferAssumption
      <4> QED BY <4>1, <3>6, FS_Subset
    <3>9. Cardinality(mbused \ NodesOf(d)) = Cardinality(mbused) - Cardinality(mbused \cap NodesOf(d))
      BY <3>8, FS_Difference
    <3>10. mbuse' = mbuse - (m - 1) /\ mbuse = Cardinality(mbused)
      BY <1>6 DEF ShrinksBy, Pool
    <3> QED BY <3>5, <3>6, <3>7, <3>9, <3>10
  <2> QED BY <2>1, <2>3, <2>4, <1>13 DEF Pool
<1>16. Shrunk(S, s, P, Q, mbtext, mbtext', len)
  <2>1. Q[s] = e /\ \A t \in S : t # s => Q[t] = P[t]
    BY <1>10 DEF Held
  <2> HIDE DEF Q
  <2>2. ShorterBy(c, e, mbtext, mbtext', len, m)
    BY <1>6, <1>7, <1>11 DEF ShorterBy, ShrinksBy, e
  <2>3. \E n : ShorterBy(P[s], Q[s], mbtext, mbtext', len, n)
    BY <2>1, <2>2 DEF c
  <2>4. Others(S, s, P, Q, mbtext, mbtext')
    <3>1. ASSUME NEW t \in S, t # s, NEW k \in 1 .. Len(P[t]) PROVE mbtext'[P[t][k]] = mbtext[P[t][k]]
      <4>1. P[t] \in Seq(Nodes)
        BY DEF Held
      <4>2. P[t][k] \in Nodes /\ On(P[t], P[t][k])
        BY <4>1, PathFacts
      <4>3. ~ On(c, P[t][k])
        BY <4>2, <3>1 DEF Held, Apart, c
      <4> QED BY <4>2, <4>3, <1>12
    <3> QED BY <3>1, <2>1 DEF Others
  <2> QED BY <2>3, <2>4 DEF Shrunk
<1> QED BY <1>14, <1>15, <1>16

----------------------------------------------------------------------------
\* Streams begin and end.

\* A path that starts nowhere is empty.
LEMMA NoPath ==
    ASSUME NEW next, NEW top, NEW c, Leads(next, top, c)
    PROVE  top = 0 <=> c = <<>>
<1>1. c \in Seq(Nodes) /\ Len(c) \in Nat
  BY PathFacts DEF Leads
<1>2. ASSUME c # <<>> PROVE top \in Nodes
  <2>1. Len(c) # 0 /\ 1 \in 1 .. Len(c)
    BY <1>1, <1>2, PathFacts
  <2>2. c[1] \in Nodes
    BY <1>1, <2>1, PathFacts
  <2> QED BY <2>2, <1>2 DEF Leads
<1>3. 0 \notin Nodes
  BY BufferAssumption
<1> QED BY <1>2, <1>3 DEF Leads

\* A stream that has no node gets a free one to start at.
LEMMA StreamStarts ==
    ASSUME NEW S, NEW top, NEW P, NEW used, NEW next, NEW text,
           Held(S, top, P, used, next, text), NEW s \in S, top[s] = 0,
           NEW n \in Nodes, n \notin used, NEW top2,
           \A t \in S : t # s => top2[t] = top[t], top2[s] = n,
           NEW used2, used2 = used \cup {n}
    PROVE  \E Q : Held(S, top2, Q, used2, next, text)
<1> DEFINE Q == [P EXCEPT ![s] = <<n>>]
<1>1. Q \in [S -> Seq(Nodes)] /\ Q[s] = <<n>> /\ \A t \in S : t # s => Q[t] = P[t]
  BY DEF Held
<1> HIDE DEF Q
<1>2. next[n] = 0 /\ text[n] = <<>>
  BY DEF Held, Clean
<1>3. P[s] = <<>>
  <2>1. Leads(next, top[s], P[s])
    BY DEF Held, Paths
  <2> QED BY <2>1, NoPath
<1>4. Len(Q[s]) = 1 /\ Q[s][1] = n /\ Q[s] # <<>> /\ Q[s] \in Seq(Nodes)
  BY <1>1
<1>5. Leads(next, top2[s], Q[s])
  BY <1>2, <1>4 DEF Leads
<1>6. \A m \in Nodes : On(Q[s], m) <=> m = n
  BY <1>4 DEF On
<1>7. \A m \in Nodes : ~ On(P[s], m)
  BY <1>3 DEF On
<1>8. OneChanges(S, s, top, top2, P, Q, used, used2, next, next, text, text)
  <2>1. used2 \in SUBSET Nodes
    BY DEF Held
  <2>2. \A t \in S : t # s => Q[t] = P[t] /\ top2[t] = top[t]
    BY <1>1
  <2>3. \A k \in 2 .. Len(Q[s]) : text[Q[s][k]] # <<>>
    BY <1>4
  <2>4. \A m \in Nodes : On(Q[s], m) => On(P[s], m) \/ m \notin used
    BY <1>6
  <2>5. \A m \in Nodes : m \in used2 <=> (m \in used /\ ~ On(P[s], m)) \/ On(Q[s], m)
    BY <1>6, <1>7
  <2>6. \A m \in Nodes \ used2 : next[m] = 0 /\ text[m] = <<>>
    BY DEF Held, Clean
  <2> QED BY <1>1, <1>5, <2>1, <2>2, <2>3, <2>4, <2>5, <2>6 DEF OneChanges
<1> QED BY <1>8, OneStreamChanges

NextWithout(next, T) == [n \in Nodes |-> IF n \in T THEN 0 ELSE next[n]]
TextWithout(text, T) == [n \in Nodes |-> IF n \in T THEN <<>> ELSE text[n]]

\* A stream that gives all its nodes back.
LEMMA StreamEnds ==
    ASSUME NEW S, NEW top, NEW P, NEW used, NEW next, NEW text,
           Held(S, top, P, used, next, text), NEW s \in S, NEW top2,
           \A t \in S : t # s => top2[t] = top[t], top2[s] = 0,
           NEW Q, Q = [P EXCEPT ![s] = <<>>], NEW T, T = NodesOf(P[s])
    PROVE  Held(S, top2, Q, used \ T, NextWithout(next, T), TextWithout(text, T))
<1> DEFINE used2 == used \ T
           next2 == NextWithout(next, T)
           text2 == TextWithout(text, T)
<1>1. Q \in [S -> Seq(Nodes)] /\ Q[s] = <<>> /\ \A t \in S : t # s => Q[t] = P[t]
  BY DEF Held
<1>2. \A n \in Nodes : n \in T <=> On(P[s], n)
  BY DEF NodesOf
<1>3. /\ \A n \in Nodes : n \notin T => next2[n] = next[n] /\ text2[n] = text[n]
      /\ \A n \in Nodes : n \in T => next2[n] = 0 /\ text2[n] = <<>>
  BY DEF NextWithout, TextWithout
<1> HIDE DEF next2, text2
<1>4. Leads(next2, top2[s], Q[s]) /\ \A n \in Nodes : ~ On(Q[s], n)
  BY <1>1 DEF Leads, On
<1>5. OneChanges(S, s, top, top2, P, Q, used, used2, next, next2, text, text2)
  <2>1. used2 \in SUBSET Nodes
    BY DEF Held
  <2>2. \A t \in S : t # s => Q[t] = P[t] /\ top2[t] = top[t]
    BY <1>1
  <2>3. \A k \in 2 .. Len(Q[s]) : text2[Q[s][k]] # <<>>
    BY <1>1
  <2>4. \A n \in Nodes : n \in used2 <=> (n \in used /\ ~ On(P[s], n)) \/ On(Q[s], n)
    BY <1>2, <1>4
  <2>5. \A n \in Nodes : n \in used /\ ~ On(P[s], n) => next2[n] = next[n] /\ text2[n] = text[n]
    BY <1>2, <1>3
  <2>6. \A n \in Nodes \ used2 : next2[n] = 0 /\ text2[n] = <<>>
    <3>1. \A n \in Nodes \ used : next[n] = 0 /\ text[n] = <<>>
      BY DEF Held, Clean
    <3> QED BY <3>1, <1>3
  <2> QED BY <1>1, <1>4, <2>1, <2>2, <2>3, <2>4, <2>5, <2>6 DEF OneChanges
<1>6. Held(S, top2, Q, used2, next2, text2)
  BY <1>5, OneStreamChanges
<1> QED BY <1>6 DEF next2, text2

----------------------------------------------------------------------------
\* What is read from a list.

\* It is a text.
LEMMA SpelledIsText ==
    ASSUME NEW put \in [Nodes -> Seq(Bytes)], NEW c \in Seq(Nodes), NEW text, Spelled(put, c, text)
    PROVE  text \in Seq(Bytes)
<1> DEFINE L == Len(c)
<1>1. PICK g : Spells(g, put, c) /\ g[1] = text
  BY DEF Spelled
<1> DEFINE T == {m \in 0 .. L : g[L + 1 - m] \notin Seq(Bytes)}
<1>2. L \in Nat /\ \A k \in 1 .. L : c[k] \in Nodes
  BY PathFacts
<1>3. T = {}
  <2>1. SUFFICES ASSUME T # {} PROVE FALSE
    OBVIOUS
  <2>2. PICK m \in T : \A j \in T : m <= j
    <3> T \in SUBSET Nat
      BY <1>2
    <3> HIDE DEF T
    <3> QED BY <2>1, FirstOfMany
  <2>3. m \in 0 .. L /\ g[L + 1 - m] \notin Seq(Bytes)
    BY <2>2
  <2>4. m # 0
    <3>1. g[L + 1] = <<>>
      BY <1>1 DEF Spells
    <3>2. SUFFICES ASSUME m = 0 PROVE FALSE
      OBVIOUS
    <3>3. L + 1 - m = L + 1
      BY <3>2, <1>2
    <3>4. <<>> \in Seq(Bytes)
      OBVIOUS
    <3> QED BY <3>1, <3>3, <3>4, <2>3
  <2>5. m - 1 \in 0 .. L /\ ~ (m <= m - 1)
    BY <2>3, <2>4, <1>2
  <2>6. g[L + 1 - (m - 1)] \in Seq(Bytes)
    <3>1. m - 1 \notin T
      <4> HIDE DEF T
      <4> QED BY <2>5, <2>2
    <3> QED BY <3>1, <2>5
  <2> DEFINE i == L + 1 - m
  <2>7. i \in 1 .. L /\ L + 1 - (m - 1) = i + 1
    BY <2>3, <2>4, <1>2
  <2> HIDE DEF i
  <2>8. g[i] = put[c[i]] \o g[i + 1] /\ put[c[i]] \in Seq(Bytes)
    BY <2>7, <1>1, <1>2 DEF Spells
  <2>9. g[i + 1] \in Seq(Bytes)
    BY <2>6, <2>7
  <2>10. g[i] \in Seq(Bytes)
    BY <2>8, <2>9, ConcatProperties
  <2> QED BY <2>3, <2>10 DEF i
<1>4. g[1] \in Seq(Bytes)
  <2>1. L \in 0 .. L /\ L + 1 - L = 1
    BY <1>2
  <2> QED BY <2>1, <1>3
<1> QED BY <1>1, <1>4

\* What a stream holds is a text, and where its path is known the chain that the
\* code walks is the path.
LEMMA WhatAStreamHolds ==
    ASSUME NEW S, NEW top, NEW P, Held(S, top, P, mbused, mbnext, mbtext),
           Pool(mbused, mbnext, mbtext, mbuse), NEW s \in S
    PROVE  /\ Chain(top[s]) = P[s] /\ Spelled(mbtext, P[s], Text(top[s]))
           /\ Text(top[s]) \in Seq(Bytes) /\ Len(Text(top[s])) \in Nat
<1> DEFINE t == top[s]
           c == P[s]
<1>1. Leads(mbnext, t, c) /\ c \in Seq(Nodes) /\ mbnext \in Links /\ mbtext \in [Nodes -> Seq(Bytes)]
  BY DEF Held, Paths, Pool
<1> HIDE DEF t, c
<1>2. ChainBy(mbnext, t) = c
  BY <1>1, ChainIsPath
<1>3. Spelled(mbtext, c, TextBy(mbnext, mbtext, t))
  BY <1>1, TextSpelled
<1>4. TextBy(mbnext, mbtext, t) \in Seq(Bytes)
  BY <1>1, <1>3, SpelledIsText
<1>5. Chain(t) = c
  BY <1>2, Zenon DEF Chain, ChainBy
<1>6. Text(t) = TextBy(mbnext, mbtext, t)
  BY Zenon DEF Text, TextBy
<1> DEFINE w == Text(t)
<1>7. w \in Seq(Bytes) /\ Spelled(mbtext, c, w)
  BY <1>3, <1>4, <1>6
<1> HIDE DEF w
<1>8. Len(w) \in Nat
  BY <1>7, LenProperties
<1> QED BY <1>5, <1>7, <1>8 DEF t, c, w

----------------------------------------------------------------------------
\* The invariant.

\* The streams of all connections, and where they start.
Sides == Conns \X {"ri", "wi"}
Tops  == [s \in Sides |-> IF s[2] = "ri" THEN con[s[1]].ri ELSE con[s[1]].wi]

Connections == [use : BOOLEAN, ri : Nodes \cup {0}, wi : Nodes \cup {0}, eof : BOOLEAN]

Pooled == Pool(mbused, mbnext, mbtext, mbuse)
Kept   == \E P : Held(Sides, Tops, P, mbused, mbnext, mbtext)

\* A connection has both streams or none, and none if it is not in use.
BothOrNone == /\ con \in [Conns -> Connections]
              /\ \A i \in Conns : (con[i].ri = 0 <=> con[i].wi = 0) /\ (~ con[i].use => con[i].ri = 0)

\* A game server is known wherever a stream is open or a name is put down.
Known == /\ gsuse \in [Conns -> BOOLEAN] /\ gsname \in [Conns -> Names \cup {"none"}]
         /\ \A i \in Conns : (Open(i) => gsuse[i]) /\ (gsname[i] # "none" => gsuse[i])
Unique == \A i, j \in Conns : i # j /\ gsname[i] # "none" => gsname[i] # gsname[j]

Inductive == Pooled /\ Kept /\ BothOrNone /\ Known /\ Unique

\* The two streams of a connection.
LEMMA TwoSides ==
    ASSUME NEW i \in Conns
    PROVE  /\ <<i, "ri">> \in Sides /\ <<i, "wi">> \in Sides /\ <<i, "ri">> # <<i, "wi">>
           /\ Tops[<<i, "ri">>] = con[i].ri /\ Tops[<<i, "wi">>] = con[i].wi
           /\ \A s \in Sides : s[1] = i => s = <<i, "ri">> \/ s = <<i, "wi">>
<1>1. <<i, "ri">> \in Sides /\ <<i, "wi">> \in Sides
  BY DEF Sides
<1>2. Tops[<<i, "ri">>] = con[i].ri
  BY <1>1 DEF Tops
<1>3. Tops[<<i, "wi">>] = con[i].wi
  BY <1>1 DEF Tops
<1>4. ASSUME NEW s \in Sides, s[1] = i PROVE s = <<i, "ri">> \/ s = <<i, "wi">>
  BY <1>4 DEF Sides
<1> QED BY <1>1, <1>2, <1>3, <1>4

\* A step that leaves the streams where they are.
LEMMA SidesStay ==
    ASSUME UNCHANGED con
    PROVE  Tops' = Tops
BY DEF Tops

\* A stream that grows.
LEMMA AppendStep ==
    ASSUME Inductive, NEW i \in Conns, Open(i), NEW data \in Seq(Bytes),
           appendMemBufList(con[i].ri, data) \/ appendMemBufList(con[i].wi, data),
           UNCHANGED con
    PROVE  Pooled' /\ Kept'
<1>1. PICK P : Held(Sides, Tops, P, mbused, mbnext, mbtext)
  BY DEF Inductive, Kept
<1>2. Pool(mbused, mbnext, mbtext, mbuse)
  BY DEF Inductive, Pooled
<1>3. con[i].ri # 0 /\ con[i].wi # 0
  BY DEF Inductive, BothOrNone, Open
<1>4. PICK s \in Sides : Tops[s] # 0 /\ appendMemBufList(Tops[s], data)
  <2>1. /\ <<i, "ri">> \in Sides /\ Tops[<<i, "ri">>] = con[i].ri
        /\ <<i, "wi">> \in Sides /\ Tops[<<i, "wi">>] = con[i].wi
    BY TwoSides
  <2>2. CASE appendMemBufList(con[i].ri, data)
    <3>1. appendMemBufList(Tops[<<i, "ri">>], data)
      BY <2>1, <2>2
    <3> QED BY <3>1, <2>1, <1>3
  <2>3. CASE appendMemBufList(con[i].wi, data)
    <3>1. appendMemBufList(Tops[<<i, "wi">>], data)
      BY <2>1, <2>3
    <3> QED BY <3>1, <2>1, <1>3
  <2> QED BY <2>2, <2>3
<1> DEFINE top == Tops
<1>5. top' = top
  BY SidesStay
<1>6. Held(Sides, top, P, mbused, mbnext, mbtext) /\ top[s] # 0 /\ appendMemBufList(top[s], data)
  BY <1>1, <1>4
<1> HIDE DEF top
<1>7. /\ Pool(mbused', mbnext', mbtext', mbuse')
      /\ \E Q : Held(Sides, top, Q, mbused', mbnext', mbtext') /\ Grown(Sides, s, P, Q, mbtext, mbtext')
  BY <1>2, <1>6, AppendKeeps
<1>8. PICK Q : Held(Sides, top, Q, mbused', mbnext', mbtext')
  BY <1>7
<1>9. Held(Sides, Tops, Q, mbused, mbnext, mbtext)'
  BY <1>5, <1>8 DEF top
<1> QED BY <1>7, <1>9 DEF Pooled, Kept

\* A stream that is consumed.
LEMMA ConsumeStep ==
    ASSUME Inductive, NEW i \in Conns, Open(i), NEW len \in Nat,
           consumeMemBufList(con[i].ri, len) \/ consumeMemBufList(con[i].wi, len),
           UNCHANGED con
    PROVE  Pooled' /\ Kept'
<1>1. PICK P : Held(Sides, Tops, P, mbused, mbnext, mbtext)
  BY DEF Inductive, Kept
<1>2. Pool(mbused, mbnext, mbtext, mbuse)
  BY DEF Inductive, Pooled
<1>3. con[i].ri # 0 /\ con[i].wi # 0
  BY DEF Inductive, BothOrNone, Open
<1>4. PICK s \in Sides : Tops[s] # 0 /\ consumeMemBufList(Tops[s], len)
  <2>1. /\ <<i, "ri">> \in Sides /\ Tops[<<i, "ri">>] = con[i].ri
        /\ <<i, "wi">> \in Sides /\ Tops[<<i, "wi">>] = con[i].wi
    BY TwoSides
  <2>2. CASE consumeMemBufList(con[i].ri, len)
    <3>1. consumeMemBufList(Tops[<<i, "ri">>], len)
      BY <2>1, <2>2
    <3> QED BY <3>1, <2>1, <1>3
  <2>3. CASE consumeMemBufList(con[i].wi, len)
    <3>1. consumeMemBufList(Tops[<<i, "wi">>], len)
      BY <2>1, <2>3
    <3> QED BY <3>1, <2>1, <1>3
  <2> QED BY <2>2, <2>3
<1> DEFINE top == Tops
<1>5. top' = top
  BY SidesStay
<1>6. Held(Sides, top, P, mbused, mbnext, mbtext) /\ top[s] # 0 /\ consumeMemBufList(top[s], len)
  BY <1>1, <1>4
<1> HIDE DEF top
<1>7. /\ Pool(mbused', mbnext', mbtext', mbuse')
      /\ \E Q : Held(Sides, top, Q, mbused', mbnext', mbtext') /\ Shrunk(Sides, s, P, Q, mbtext, mbtext', len)
  BY <1>2, <1>6, ConsumeKeeps
<1>8. PICK Q : Held(Sides, top, Q, mbused', mbnext', mbtext')
  BY <1>7
<1>9. Held(Sides, Tops, Q, mbused, mbnext, mbtext)'
  BY <1>5, <1>8 DEF top
<1> QED BY <1>7, <1>9 DEF Pooled, Kept

\* The streams of the connection i start at r and w, and the others where they did.
LEMMA SidesChange ==
    ASSUME NEW i \in Conns, NEW c, con' = [con EXCEPT ![i] = c], BothOrNone
    PROVE  /\ Tops'[<<i, "ri">>] = c.ri /\ Tops'[<<i, "wi">>] = c.wi
           /\ \A s \in Sides : s # <<i, "ri">> /\ s # <<i, "wi">> => Tops'[s] = Tops[s]
           /\ Tops' = [s \in Sides |-> Tops'[s]]
<1>1. con'[i] = c /\ \A j \in Conns : j # i => con'[j] = con[j]
  BY DEF BothOrNone
<1>2. Tops' = [s \in Sides |-> IF s[2] = "ri" THEN con'[s[1]].ri ELSE con'[s[1]].wi]
  BY DEF Tops, Sides
<1>3. <<i, "ri">> \in Sides /\ <<i, "wi">> \in Sides
  BY DEF Sides
<1>4. Tops'[<<i, "ri">>] = c.ri
  BY <1>1, <1>2, <1>3
<1>5. Tops'[<<i, "wi">>] = c.wi
  BY <1>1, <1>2, <1>3
<1>6. ASSUME NEW s \in Sides, s # <<i, "ri">>, s # <<i, "wi">> PROVE Tops'[s] = Tops[s]
  <2>1. s[1] # i /\ s[1] \in Conns
    BY <1>6, TwoSides DEF Sides
  <2>2. con'[s[1]] = con[s[1]]
    BY <2>1, <1>1
  <2> QED BY <2>2, <1>2 DEF Tops
<1>7. Tops' = [s \in Sides |-> Tops'[s]]
  BY <1>2
<1> QED BY <1>4, <1>5, <1>6, <1>7

\* A connection is accepted: two free nodes become the first ones of its streams.
LEMMA AcceptStep ==
    ASSUME Inductive, NEW i \in Conns, Accept1(i)
    PROVE  Pooled' /\ Kept'
<1>1. PICK P : Held(Sides, Tops, P, mbused, mbnext, mbtext)
  BY DEF Inductive, Kept
<1>2. Pool(mbused, mbnext, mbtext, mbuse) /\ BothOrNone
  BY DEF Inductive, Pooled
<1>3. PICK new \in BlankMemBufs(2) :
        /\ mbused' = mbused \cup Range(new) /\ mbuse' = mbuse + 2
        /\ con' = [con EXCEPT ![i] = [use |-> TRUE, ri |-> new[1], wi |-> new[2], eof |-> FALSE]]
  BY DEF Accept1
<1> DEFINE m == new[1]
           n == new[2]
           r == <<i, "ri">>
           w == <<i, "wi">>
<1>4. m \in Nodes /\ n \in Nodes /\ m \notin mbused /\ n \notin mbused /\ m # n /\ Range(new) = {m, n}
  <2>1. new \in [1 .. 2 -> Nodes \ mbused] /\ \A j, k \in 1 .. 2 : new[j] = new[k] => j = k
    BY DEF BlankMemBufs, IsInjective
  <2>2. 1 \in 1 .. 2 /\ 2 \in 1 .. 2 /\ \A k \in 1 .. 2 : k = 1 \/ k = 2
    OBVIOUS
  <2>3. m # n
    BY <2>1, <2>2
  <2>4. Range(new) = {m, n}
    BY <2>1, <2>2 DEF Range
  <2> QED BY <2>1, <2>2, <2>3, <2>4
<1>5. mbnext' = mbnext /\ mbtext' = mbtext /\ con[i].ri = 0 /\ con[i].wi = 0
  BY <1>2 DEF Accept1, BothOrNone
<1>6. r \in Sides /\ w \in Sides /\ r # w /\ Tops[r] = 0 /\ Tops[w] = 0
  BY <1>5, TwoSides
<1>7. /\ Tops'[r] = m /\ Tops'[w] = n
      /\ \A s \in Sides : s # r /\ s # w => Tops'[s] = Tops[s]
  <2> DEFINE c == [use |-> TRUE, ri |-> m, wi |-> n, eof |-> FALSE]
  <2>1. con' = [con EXCEPT ![i] = c]
    BY <1>3
  <2>2. c.ri = m /\ c.wi = n
    OBVIOUS
  <2> HIDE DEF c, m, n
  <2>3. Tops'[r] = c.ri /\ Tops'[w] = c.wi /\ \A s \in Sides : s # r /\ s # w => Tops'[s] = Tops[s]
    BY <2>1, <1>2, SidesChange
  <2> QED BY <2>2, <2>3
<1> HIDE DEF m, n, r, w
<1> DEFINE top1 == [Tops EXCEPT ![r] = m]
           used1 == mbused \cup {m}
           used2 == used1 \cup {n}
<1>8. top1[r] = m /\ (\A s \in Sides : s # r => top1[s] = Tops[s]) /\ top1[w] = 0
  BY <1>6 DEF Tops
<1>9. PICK top2 : top2 = Tops'
  OBVIOUS
<1>10. top2[w] = n /\ \A s \in Sides : s # w => top2[s] = top1[s]
  BY <1>7, <1>8, <1>9
<1>11. used1 = mbused \cup {m} /\ used2 = used1 \cup {n} /\ n \notin used1
  BY <1>4
<1> HIDE DEF top1, used1, used2
<1>12. PICK P1 : Held(Sides, top1, P1, used1, mbnext, mbtext)
  <2> DEFINE top == Tops
  <2>1. Held(Sides, top, P, mbused, mbnext, mbtext) /\ top[r] = 0 /\ \A s \in Sides : s # r => top1[s] = top[s]
    BY <1>1, <1>6, <1>8
  <2> HIDE DEF top
  <2>2. \E Q : Held(Sides, top1, Q, used1, mbnext, mbtext)
    BY <2>1, <1>4, <1>6, <1>8, <1>11, StreamStarts
  <2> QED BY <2>2
<1>13. \E Q : Held(Sides, top2, Q, used2, mbnext, mbtext)
  BY <1>4, <1>6, <1>8, <1>10, <1>11, <1>12, StreamStarts
<1>14. mbused' = used2
  BY <1>3, <1>4, <1>11
<1>15. Kept'
  <2>1. PICK Q : Held(Sides, top2, Q, used2, mbnext, mbtext)
    BY <1>13
  <2>2. Held(Sides, Tops, Q, mbused, mbnext, mbtext)'
    BY <2>1, <1>5, <1>9, <1>14
  <2> QED BY <2>2 DEF Kept
<1>16. Pooled'
  <2>1. mbused \in SUBSET Nodes /\ mbuse = Cardinality(mbused)
    BY <1>2 DEF Pool
  <2>2. IsFiniteSet(mbused) /\ IsFiniteSet(used1)
    <3>1. IsFiniteSet(Nodes)
      BY BufferAssumption
    <3>2. IsFiniteSet(mbused)
      BY <3>1, <2>1, FS_Subset
    <3> QED BY <3>2, <1>11, FS_AddElement
  <2>3. Cardinality(used1) = Cardinality(mbused) + 1
    BY <2>2, <1>4, <1>11, FS_AddElement
  <2>4. Cardinality(used2) = Cardinality(used1) + 1
    BY <2>2, <1>11, FS_AddElement
  <2>5. Cardinality(mbused) \in Nat
    BY <2>2, FS_CardinalityType
  <2>6. mbuse' = Cardinality(mbused')
    <3> DEFINE a == Cardinality(mbused)
               b == Cardinality(used1)
               c == Cardinality(used2)
    <3>1. a \in Nat /\ b = a + 1 /\ c = b + 1 /\ mbuse = a
      BY <2>1, <2>3, <2>4, <2>5
    <3>2. mbuse' = mbuse + 2
      BY <1>3
    <3> HIDE DEF a, b, c
    <3>3. mbuse' = c
      BY <3>1, <3>2
    <3> QED BY <3>3, <1>14 DEF c
  <2>7. mbused' \in SUBSET Nodes
    BY <2>1, <1>4, <1>11, <1>14
  <2>8. Pool(mbused', mbnext', mbtext', mbuse')
    BY <2>6, <2>7, <1>2, <1>5 DEF Pool
  <2> QED BY <2>8 DEF Pooled
<1> QED BY <1>15, <1>16

\* A connection is closed: its streams give back all they have.
LEMMA CloseStep ==
    ASSUME Inductive, NEW i \in Conns, CloseStream(i)
    PROVE  Pooled' /\ Kept'
<1>1. PICK P : Held(Sides, Tops, P, mbused, mbnext, mbtext)
  BY DEF Inductive, Kept
<1>2. Pool(mbused, mbnext, mbtext, mbuse) /\ BothOrNone
  BY DEF Inductive, Pooled
<1> DEFINE r == <<i, "ri">>
           w == <<i, "wi">>
           R == NodesOf(P[r])
           W == NodesOf(P[w])
           nodes == Range(Chain(con[i].ri)) \cup Range(Chain(con[i].wi))
<1>3. r \in Sides /\ w \in Sides /\ r # w /\ Tops[r] = con[i].ri /\ Tops[w] = con[i].wi
  BY TwoSides
<1>4. Tops'[r] = 0 /\ Tops'[w] = 0 /\ \A s \in Sides : s # r /\ s # w => Tops'[s] = Tops[s]
  <2> DEFINE c == Free
  <2>1. con' = [con EXCEPT ![i] = c] /\ c.ri = 0 /\ c.wi = 0
    BY DEF CloseStream, Free
  <2> HIDE DEF c
  <2> QED BY <2>1, <1>2, SidesChange
<1> HIDE DEF r, w
<1>5. nodes = R \cup W
  <2> DEFINE top == Tops
  <2>1. Held(Sides, top, P, mbused, mbnext, mbtext)
    BY <1>1
  <2>2. top[r] = con[i].ri /\ top[w] = con[i].wi
    BY <1>3
  <2> HIDE DEF top
  <2>3. Chain(top[r]) = P[r]
    BY <2>1, <1>2, <1>3, WhatAStreamHolds
  <2>4. Chain(top[w]) = P[w]
    BY <2>1, <1>2, <1>3, WhatAStreamHolds
  <2>5. ASSUME NEW s \in Sides PROVE NodesOf(P[s]) = Range(P[s])
    <3>1. P[s] \in Seq(Nodes) /\ Single(P[s])
      BY <1>1 DEF Held, Paths, Leads, Single
    <3> QED BY <3>1, CountNodes
  <2>6. Range(P[r]) = R /\ Range(P[w]) = W
    BY <2>5, <1>3
  <2> QED BY <2>2, <2>3, <2>4, <2>6
<1> DEFINE P1 == [P EXCEPT ![r] = <<>>]
           P2 == [P1 EXCEPT ![w] = <<>>]
           top1 == [Tops EXCEPT ![r] = 0]
           used1 == mbused \ R
           next1 == NextWithout(mbnext, R)
           text1 == TextWithout(mbtext, R)
<1>6. top1[r] = 0 /\ (\A s \in Sides : s # r => top1[s] = Tops[s]) /\ NodesOf(P1[w]) = W
  BY <1>1, <1>3 DEF Tops, Held
<1>7. PICK top2 : top2 = Tops'
  OBVIOUS
<1>8. top2[w] = 0 /\ \A s \in Sides : s # w => top2[s] = top1[s]
  BY <1>4, <1>6, <1>7
<1> HIDE DEF top1, R, W
<1>9. Held(Sides, top1, P1, used1, next1, text1)
  <2> DEFINE top == Tops
             p == P1
  <2>1. Held(Sides, top, P, mbused, mbnext, mbtext) /\ \A s \in Sides : s # r => top1[s] = top[s]
    BY <1>1, <1>6
  <2>2. p = [P EXCEPT ![r] = <<>>] /\ R = NodesOf(P[r])
    BY DEF R
  <2> HIDE DEF top, p
  <2>3. Held(Sides, top1, p, mbused \ R, NextWithout(mbnext, R), TextWithout(mbtext, R))
    BY <2>1, <2>2, <1>3, <1>6, StreamEnds
  <2> QED BY <2>3 DEF p
<1>10. Held(Sides, top2, P2, used1 \ W, NextWithout(next1, W), TextWithout(text1, W))
  <2> DEFINE p == P2
             q == P1
             u == used1
             n == next1
             t == text1
  <2>1. Held(Sides, top1, q, u, n, t)
    BY <1>9
  <2>2. p = [q EXCEPT ![w] = <<>>] /\ W = NodesOf(q[w])
    BY <1>6
  <2> HIDE DEF p, q, u, n, t
  <2>3. Held(Sides, top2, p, u \ W, NextWithout(n, W), TextWithout(t, W))
    BY <2>1, <2>2, <1>3, <1>8, StreamEnds
  <2> QED BY <2>3 DEF p, u, n, t
<1>11. /\ mbused' = mbused \ (R \cup W) /\ mbuse' = mbuse - Cardinality(R \cup W)
       /\ mbtext' = [n \in Nodes |-> IF n \in R \cup W THEN <<>> ELSE mbtext[n]]
       /\ mbnext' = [n \in Nodes |-> IF n \in R \cup W THEN 0 ELSE mbnext[n]]
  BY <1>5 DEF CloseStream
<1>12. mbused' = used1 \ W /\ mbnext' = NextWithout(next1, W) /\ mbtext' = TextWithout(text1, W)
  <2>1. mbused' = used1 \ W
    BY <1>11
  <2>2. mbnext' = NextWithout(next1, W)
    BY <1>11 DEF NextWithout
  <2>3. mbtext' = TextWithout(text1, W)
    BY <1>11 DEF TextWithout
  <2> QED BY <2>1, <2>2, <2>3
<1>13. Kept'
  <2>1. Held(Sides, Tops, P2, mbused, mbnext, mbtext)'
    BY <1>7, <1>10, <1>12
  <2> QED BY <2>1 DEF Kept
<1>14. Pooled'
  <2>1. mbused \in SUBSET Nodes /\ mbuse = Cardinality(mbused) /\ mbnext \in Links
        /\ mbtext \in [Nodes -> Seq(Bytes)] /\ \A n \in Nodes : Len(mbtext[n]) <= Cap
    BY <1>2 DEF Pool
  <2>2. \A n \in R \cup W : n \in mbused
    BY <1>1, <1>3 DEF R, W, NodesOf, Held, Owned
  <2>3. IsFiniteSet(mbused)
    <3>1. IsFiniteSet(Nodes)
      BY BufferAssumption
    <3> QED BY <3>1, <2>1, FS_Subset
  <2>4. mbuse' = Cardinality(mbused')
    <3> DEFINE T == R \cup W
    <3>1. mbused \cap T = T
      BY <2>2
    <3> HIDE DEF T
    <3>2. Cardinality(mbused \ T) = Cardinality(mbused) - Cardinality(mbused \cap T)
      BY <2>3, FS_Difference
    <3> QED BY <3>1, <3>2, <2>1, <1>11 DEF T
  <2>5. mbused' \in SUBSET Nodes /\ mbnext' \in Links
    BY <2>1, <1>11 DEF Links
  <2>6. mbtext' \in [Nodes -> Seq(Bytes)]
    <3>1. <<>> \in Seq(Bytes)
      OBVIOUS
    <3> QED BY <3>1, <2>1, <1>11
  <2>7. \A n \in Nodes : Len(mbtext'[n]) <= Cap
    <3>1. Len(<<>>) <= Cap
      BY BufferAssumption
    <3> QED BY <3>1, <2>1, <1>11
  <2> QED BY <2>4, <2>5, <2>6, <2>7 DEF Pooled, Pool
<1> QED BY <1>13, <1>14

----------------------------------------------------------------------------
\* The steps.

\* At the beginning there is no stream.
LEMMA InitInductive ==
    ASSUME BufferInit
    PROVE  Inductive
<1> USE DEF BufferInit
<1>1. 0 \notin Nodes /\ Cap \in Nat
  BY BufferAssumption
<1>2. Pooled
  <2>1. Cardinality({}) = 0
    BY FS_EmptySet
  <2>2. <<>> \in Seq(Bytes) /\ Len(<<>>) = 0
    OBVIOUS
  <2> QED BY <2>1, <2>2, <1>1 DEF Pooled, Pool, Links
<1>3. Kept
  <2> DEFINE P == [s \in Sides |-> <<>>]
  <2>1. P \in [Sides -> Seq(Nodes)] /\ \A s \in Sides : P[s] = <<>>
    OBVIOUS
  <2>2. \A s \in Sides : Tops[s] = 0
    BY DEF Tops, Sides, Free
  <2> HIDE DEF P
  <2>3. Paths(Sides, Tops, P, mbnext)
    BY <2>1, <2>2 DEF Paths, Leads
  <2>4. \A s \in Sides : \A n \in Nodes : ~ On(P[s], n)
    BY <2>1 DEF On
  <2>5. Filled(Sides, P, mbtext)
    BY <2>1 DEF Filled
  <2>6. Apart(Sides, P) /\ Owned(Sides, P, mbused)
    BY <2>4 DEF Apart, Owned
  <2>7. Clean(mbused, mbnext, mbtext)
    BY DEF Clean
  <2>8. Held(Sides, Tops, P, mbused, mbnext, mbtext)
    BY <2>1, <2>3, <2>5, <2>6, <2>7 DEF Held
  <2> QED BY <2>8 DEF Kept
<1>4. BothOrNone
  BY DEF BothOrNone, Connections, Free
<1>5. Known /\ Unique
  BY DEF Known, Unique, Open, Free
<1> QED BY <1>2, <1>3, <1>4, <1>5 DEF Inductive

\* Steps that change neither the table of connections nor that of game servers.
LEMMA TablesStay ==
    ASSUME Inductive, UNCHANGED <<con, gsuse, gsname>>
    PROVE  (BothOrNone /\ Known /\ Unique)'
BY DEF Inductive, BothOrNone, Known, Unique, Open

\* Steps that leave the pool and the starts of the streams.
LEMMA PoolStays ==
    ASSUME Inductive, UNCHANGED poolVars, Tops' = Tops
    PROVE  Pooled' /\ Kept'
<1>1. UNCHANGED <<mbused, mbnext, mbtext, mbuse>>
  BY DEF poolVars
<1>2. Pooled'
  BY <1>1 DEF Inductive, Pooled, Pool
<1>3. PICK P : Held(Sides, Tops, P, mbused, mbnext, mbtext)
  BY DEF Inductive, Kept
<1>4. Held(Sides, Tops, P, mbused, mbnext, mbtext)'
  BY <1>1, <1>3
<1> QED BY <1>2, <1>4 DEF Kept

\* A connection that is closed, or is not in use.
LEMMA tcpstruct_closeStep ==
    ASSUME Inductive, NEW i \in Conns, tcpstruct_close(i)
    PROVE  /\ Pooled' /\ Kept' /\ BothOrNone'
           /\ con'[i].ri = 0 /\ \A j \in Conns : j # i => con'[j] = con[j]
<1>1. CASE con[i].use
  <2>1. CloseStream(i)
    BY <1>1 DEF tcpstruct_close
  <2>2. con' = [con EXCEPT ![i] = Free]
    BY <2>1 DEF CloseStream
  <2>3. BothOrNone'
    BY <2>2 DEF Inductive, BothOrNone, Connections, Free
  <2>4. con'[i].ri = 0 /\ \A j \in Conns : j # i => con'[j] = con[j]
    BY <2>2 DEF Inductive, BothOrNone, Free
  <2>5. Pooled' /\ Kept'
    BY <2>1, CloseStep
  <2> QED BY <2>3, <2>4, <2>5
<1>2. CASE ~ con[i].use
  <2>1. UNCHANGED poolVars /\ con' = con
    BY <1>2 DEF tcpstruct_close
  <2>2. Pooled' /\ Kept'
    <3>1. Tops' = Tops
      BY <2>1, SidesStay
    <3> QED BY <2>1, <3>1, PoolStays
  <2>3. BothOrNone'
    BY <2>1 DEF Inductive, BothOrNone
  <2>4. con'[i].ri = 0
    BY <2>1, <1>2 DEF Inductive, BothOrNone
  <2> QED BY <2>1, <2>2, <2>3, <2>4
<1> QED BY <1>1, <1>2

\* What is left of the streams when a game server connects.
LEMMA AcceptTables ==
    ASSUME Inductive, NEW i \in Conns, Accept1(i)
    PROVE  (BothOrNone /\ Known /\ Unique)'
<1>1. PICK new \in BlankMemBufs(2) :
        con' = [con EXCEPT ![i] = [use |-> TRUE, ri |-> new[1], wi |-> new[2], eof |-> FALSE]]
  BY DEF Accept1
<1>2. new[1] \in Nodes /\ new[2] \in Nodes
  <2>1. 1 \in 1 .. 2 /\ 2 \in 1 .. 2
    OBVIOUS
  <2> QED BY <2>1 DEF BlankMemBufs
<1>3. 0 \notin Nodes
  BY BufferAssumption
<1>4. gsuse' = [gsuse EXCEPT ![i] = TRUE] /\ gsname' = gsname
  BY DEF Accept1
<1> DEFINE c == [use |-> TRUE, ri |-> new[1], wi |-> new[2], eof |-> FALSE]
<1>5. c \in Connections /\ c.use /\ c.ri # 0 /\ c.wi # 0
  BY <1>2, <1>3 DEF Connections
<1>6. con' = [con EXCEPT ![i] = c]
  BY <1>1
<1> HIDE DEF c
<1>7. con \in [Conns -> Connections] /\ gsuse \in [Conns -> BOOLEAN]
  BY DEF Inductive, BothOrNone, Known
<1>8. con'[i] = c /\ con' \in [Conns -> Connections] /\ \A j \in Conns : j # i => con'[j] = con[j]
  BY <1>5, <1>6, <1>7
<1>9. gsuse'[i] = TRUE /\ gsuse' \in [Conns -> BOOLEAN] /\ \A j \in Conns : j # i => gsuse'[j] = gsuse[j]
  BY <1>4, <1>7
<1>10. BothOrNone'
  BY <1>5, <1>8 DEF Inductive, BothOrNone
<1>11. Known'
  BY <1>4, <1>8, <1>9 DEF Inductive, Known, Open
<1>12. Unique'
  BY <1>4 DEF Inductive, Unique
<1> QED BY <1>10, <1>11, <1>12

\* A connection for which there is no buffer.
LEMMA Accept1_FullStep ==
    ASSUME Inductive, NEW i \in Conns, Accept1_Full(i)
    PROVE  Inductive' /\ Tops' = Tops
<1> DEFINE c == [Free EXCEPT !.use = TRUE, !.eof = TRUE]
<1>1. con' = [con EXCEPT ![i] = c] /\ UNCHANGED <<poolVars, gsuse, gsname>> /\ ~ con[i].use
  BY DEF Accept1_Full
<1>2. c \in Connections /\ c.ri = 0 /\ c.wi = 0
  BY DEF Connections, Free
<1> HIDE DEF c
<1>3. con \in [Conns -> Connections] /\ con[i].ri = 0 /\ con[i].wi = 0 /\ BothOrNone
  BY <1>1 DEF Inductive, BothOrNone
<1>4. con'[i] = c /\ con' \in [Conns -> Connections] /\ \A j \in Conns : j # i => con'[j] = con[j]
  BY <1>1, <1>2, <1>3
<1>5. Tops' = Tops
  <2> DEFINE top == Tops'
  <2>1. /\ top[<<i, "ri">>] = c.ri /\ top[<<i, "wi">>] = c.wi
        /\ \A s \in Sides : s # <<i, "ri">> /\ s # <<i, "wi">> => top[s] = Tops[s]
        /\ top = [s \in Sides |-> top[s]]
    BY <1>1, <1>3, SidesChange
  <2>2. Tops[<<i, "ri">>] = 0 /\ Tops[<<i, "wi">>] = 0
    BY <1>3, TwoSides
  <2>3. Tops = [s \in Sides |-> Tops[s]]
    BY DEF Tops
  <2> HIDE DEF top
  <2>4. \A s \in Sides : top[s] = Tops[s]
    BY <2>1, <2>2, <1>2
  <2> QED BY <2>1, <2>3, <2>4 DEF top
<1>6. Pooled' /\ Kept'
  BY <1>1, <1>5, PoolStays
<1>7. BothOrNone'
  BY <1>2, <1>4 DEF Inductive, BothOrNone
<1>8. Known'
  BY <1>1, <1>2, <1>4 DEF Inductive, Known, Open
<1>9. Unique'
  BY <1>1 DEF Inductive, Unique
<1> QED BY <1>5, <1>6, <1>7, <1>8, <1>9 DEF Inductive

\* The remote end closes.
LEMMA RemoteCloseStep ==
    ASSUME Inductive, NEW i \in Conns, RemoteClose(i)
    PROVE  Inductive' /\ Tops' = Tops
<1> DEFINE c == [con[i] EXCEPT !.eof = TRUE]
<1>1. con' = [con EXCEPT ![i] = c] /\ UNCHANGED <<poolVars, gsuse, gsname>>
  BY DEF RemoteClose
<1>2. con \in [Conns -> Connections] /\ BothOrNone
  BY DEF Inductive, BothOrNone
<1>3. c \in Connections /\ c.ri = con[i].ri /\ c.wi = con[i].wi /\ c.use = con[i].use
  BY <1>2 DEF Connections
<1> HIDE DEF c
<1>4. con'[i] = c /\ con' \in [Conns -> Connections] /\ \A j \in Conns : j # i => con'[j] = con[j]
  BY <1>1, <1>2, <1>3
<1>5. Tops' = Tops
  <2> DEFINE top == Tops'
  <2>1. /\ top[<<i, "ri">>] = c.ri /\ top[<<i, "wi">>] = c.wi
        /\ \A s \in Sides : s # <<i, "ri">> /\ s # <<i, "wi">> => top[s] = Tops[s]
        /\ top = [s \in Sides |-> top[s]]
    BY <1>1, <1>2, SidesChange
  <2>2. Tops[<<i, "ri">>] = con[i].ri /\ Tops[<<i, "wi">>] = con[i].wi
    BY TwoSides
  <2>3. Tops = [s \in Sides |-> Tops[s]]
    BY DEF Tops
  <2> HIDE DEF top
  <2>4. \A s \in Sides : top[s] = Tops[s]
    BY <2>1, <2>2, <1>3
  <2> QED BY <2>1, <2>3, <2>4 DEF top
<1>6. Pooled' /\ Kept'
  BY <1>1, <1>5, PoolStays
<1>7. BothOrNone'
  BY <1>3, <1>4 DEF Inductive, BothOrNone
<1>8. Known'
  BY <1>1, <1>3, <1>4 DEF Inductive, Known, Open
<1>9. Unique'
  BY <1>1 DEF Inductive, Unique
<1> QED BY <1>5, <1>6, <1>7, <1>8, <1>9 DEF Inductive

\* What a stream receives, and what a handler writes.
LEMMA GrowingStep ==
    ASSUME Inductive, NEW i \in Conns, ReadStream(i) \/ netWrite(i)
    PROVE  Inductive'
<1>1. Open(i) /\ UNCHANGED <<con, gsuse, gsname>>
  BY DEF ReadStream, netWrite
<1>2. PICK data \in Seq(Bytes) :
        appendMemBufList(con[i].ri, data) \/ appendMemBufList(con[i].wi, data)
  <2>1. CASE ReadStream(i)
    <3>0. PICK n \in 1 .. MaxPiece : \E data \in [1 .. n -> Bytes] : appendMemBufList(con[i].ri, data)
      BY <2>1 DEF ReadStream
    <3>1. PICK data \in [1 .. n -> Bytes] : appendMemBufList(con[i].ri, data)
      BY <3>0
    <3>2. n \in Nat
      BY BufferAssumption
    <3>3. data \in Seq(Bytes)
      BY <3>2
    <3> QED BY <3>1, <3>3
  <2>2. CASE netWrite(i)
    <3>1. PICK n \in 1 .. MaxPiece : appendMemBufList(con[i].wi, [k \in 1 .. n |-> "x"])
      BY <2>2 DEF netWrite
    <3> DEFINE data == [k \in 1 .. n |-> "x"]
    <3>2. n \in Nat
      BY BufferAssumption
    <3>3. data \in Seq(Bytes)
      BY <3>2 DEF Bytes
    <3> QED BY <3>1, <3>3
  <2> QED BY <2>1, <2>2
<1>3. Pooled' /\ Kept'
  BY <1>1, <1>2, AppendStep
<1> QED BY <1>1, <1>3, TablesStay DEF Inductive

\* What the streams of a connection hold is a text.
LEMMA StreamTexts ==
    ASSUME Inductive, NEW i \in Conns
    PROVE  /\ Text(con[i].ri) \in Seq(Bytes) /\ Len(Text(con[i].ri)) \in Nat
           /\ Text(con[i].wi) \in Seq(Bytes) /\ Len(Text(con[i].wi)) \in Nat
<1>1. PICK P : Held(Sides, Tops, P, mbused, mbnext, mbtext)
  BY DEF Inductive, Kept
<1> DEFINE top == Tops
<1>2. Held(Sides, top, P, mbused, mbnext, mbtext) /\ Pool(mbused, mbnext, mbtext, mbuse)
  BY <1>1 DEF Inductive, Pooled
<1>3. /\ <<i, "ri">> \in Sides /\ top[<<i, "ri">>] = con[i].ri
      /\ <<i, "wi">> \in Sides /\ top[<<i, "wi">>] = con[i].wi
  BY TwoSides
<1> HIDE DEF top
<1>4. ASSUME NEW s \in Sides PROVE Text(top[s]) \in Seq(Bytes) /\ Len(Text(top[s])) \in Nat
  BY <1>2, WhatAStreamHolds
<1> QED BY <1>3, <1>4

\* So are its first line and how long it is.
LEMMA LineLenType ==
    ASSUME Inductive, NEW i \in Conns
    PROVE  LineLen(i) \in Nat
<1> DEFINE t == Text(con[i].ri)
           e == {k \in DOMAIN t : t[k] = "nl"}
<1>1. t \in Seq(Bytes) /\ Len(t) \in Nat
  BY StreamTexts
<1>2. LineLen(i) = IF e = {} THEN Len(t) ELSE (CHOOSE k \in e : \A j \in e : k <= j) - 1
  BY Zenon DEF LineLen
<1> HIDE DEF t
<1>3. e \in SUBSET (1 .. Len(t)) /\ e \in SUBSET Nat
  BY <1>1
<1> HIDE DEF e
<1>4. CASE e # {}
  <2>1. \E k \in e : \A j \in e : k <= j
    BY <1>3, <1>4, FirstOfMany
  <2> DEFINE first == CHOOSE k \in e : \A j \in e : k <= j
  <2>2. first \in e
    BY <2>1, Zenon
  <2> HIDE DEF first
  <2>3. first - 1 \in Nat
    BY <2>2, <1>1, <1>3
  <2> QED BY <2>3, <1>2, <1>4 DEF first
<1> QED BY <1>1, <1>2, <1>4

\* What is sent.
LEMMA WriteStreamStep ==
    ASSUME Inductive, NEW i \in Conns, WriteStream(i)
    PROVE  Inductive'
<1> DEFINE l == Len(Text(con[i].wi))
           len == IF l < SendSize THEN l ELSE SendSize
<1>1. Open(i) /\ UNCHANGED <<con, gsuse, gsname>> /\ consumeMemBufList(con[i].wi, len)
  BY DEF WriteStream
<1>2. len \in Nat
  <2>1. l \in Nat
    BY StreamTexts
  <2> HIDE DEF l
  <2> QED BY <2>1, BufferAssumption
<1> HIDE DEF len
<1>3. Pooled' /\ Kept'
  BY <1>1, <1>2, ConsumeStep
<1> QED BY <1>1, <1>3, TablesStay DEF Inductive

\* A line is read and handled, or the stream breaks at it.
LEMMA ReadLineStep ==
    ASSUME Inductive, NEW i \in Conns, ReadLine(i)
    PROVE  Inductive'
<1>0. gsuse[i] /\ Open(i)
  BY DEF ReadLine
<1>1. CASE /\ consumeMemBufList(con[i].ri, LineLen(i) + 1)
           /\ UNCHANGED gsname \/ \E s \in Names : Named(i, s)
           /\ UNCHANGED <<con, gsuse>>
  <2> DEFINE len == LineLen(i) + 1
  <2>1. len \in Nat
    BY LineLenType
  <2>2. consumeMemBufList(con[i].ri, len)
    BY <1>1
  <2> HIDE DEF len
  <2>3. Pooled' /\ Kept'
    BY <1>0, <1>1, <2>1, <2>2, ConsumeStep
  <2>4. BothOrNone'
    BY <1>1 DEF Inductive, BothOrNone
  <2>5. CASE UNCHANGED gsname
    BY <1>1, <2>3, <2>5, TablesStay DEF Inductive
  <2>6. CASE \E s \in Names : Named(i, s)
    <3>1. PICK s \in Names : Named(i, s)
      BY <2>6
    <3>2. CASE \E j \in Conns : gsuse[j] /\ gsname[j] = s
      <4>1. UNCHANGED gsname
        BY <3>1, <3>2 DEF Named
      <4> QED BY <4>1, <1>1, <2>3, TablesStay DEF Inductive
    <3>3. CASE \A j \in Conns : ~ (gsuse[j] /\ gsname[j] = s)
      <4>1. gsname' = [gsname EXCEPT ![i] = s]
        BY <3>1, <3>3 DEF Named
      <4>2. s # "none"
        BY BufferAssumption
      <4>3. gsname'[i] = s /\ gsname' \in [Conns -> Names \cup {"none"}]
            /\ \A j \in Conns : j # i => gsname'[j] = gsname[j]
        BY <4>1 DEF Inductive, Known
      <4>4. \A j \in Conns : gsname[j] # s
        BY <3>3, <4>2 DEF Inductive, Known
      <4>5. Known'
        BY <4>3, <1>0, <1>1 DEF Inductive, Known, Open
      <4>6. Unique'
        BY <4>3, <4>4 DEF Inductive, Unique
      <4> QED BY <4>5, <4>6, <2>3, <2>4 DEF Inductive
    <3> QED BY <3>2, <3>3
  <2> QED BY <1>1, <2>5, <2>6
<1>2. CASE tcpstruct_close(i) /\ UNCHANGED <<gsuse, gsname>>
  <2>1. /\ Pooled' /\ Kept' /\ BothOrNone'
        /\ con'[i].ri = 0 /\ \A j \in Conns : j # i => con'[j] = con[j]
    BY <1>2, tcpstruct_closeStep
  <2>2. Known'
    BY <2>1, <1>2 DEF Inductive, Known, Open
  <2>3. Unique'
    BY <1>2 DEF Inductive, Unique
  <2> QED BY <2>1, <2>2, <2>3 DEF Inductive
<1> QED BY <1>1, <1>2 DEF ReadLine

\* A game server is forgotten.
LEMMA LogoutGameServerStep ==
    ASSUME Inductive, NEW i \in Conns, LogoutGameServer(i)
    PROVE  Inductive'
<1>1. /\ gsuse' = [gsuse EXCEPT ![i] = FALSE] /\ gsname' = [gsname EXCEPT ![i] = "none"]
      /\ tcpstruct_close(i)
  BY DEF LogoutGameServer, logout_game_server
<1>2. /\ Pooled' /\ Kept' /\ BothOrNone'
      /\ con'[i].ri = 0 /\ \A j \in Conns : j # i => con'[j] = con[j]
  BY <1>1, tcpstruct_closeStep
<1>3. gsuse \in [Conns -> BOOLEAN] /\ gsname \in [Conns -> Names \cup {"none"}]
  BY DEF Inductive, Known
<1>4. /\ gsuse' \in [Conns -> BOOLEAN] /\ gsname' \in [Conns -> Names \cup {"none"}]
      /\ gsname'[i] = "none" /\ \A j \in Conns : j # i => gsuse'[j] = gsuse[j] /\ gsname'[j] = gsname[j]
  BY <1>1, <1>3
<1>5. Known'
  BY <1>2, <1>4 DEF Inductive, Known, Open
<1>6. Unique'
  BY <1>4 DEF Inductive, Unique
<1> QED BY <1>2, <1>5, <1>6 DEF Inductive

\* Every step keeps the invariant.
LEMMA NextInductive ==
    ASSUME Inductive, [BufferNext]_bufferVars
    PROVE  Inductive'
<1>1. ASSUME NEW i \in Conns, Accept1(i) PROVE Inductive'
  BY <1>1, AcceptStep, AcceptTables DEF Inductive
<1>2. ASSUME NEW i \in Conns, Accept1_Full(i) PROVE Inductive'
  BY <1>2, Accept1_FullStep
<1>3. ASSUME NEW i \in Conns, ReadStream(i) \/ netWrite(i) PROVE Inductive'
  BY <1>3, GrowingStep
<1>4. ASSUME NEW i \in Conns, RemoteClose(i) PROVE Inductive'
  BY <1>4, RemoteCloseStep
<1>5. ASSUME NEW i \in Conns, WriteStream(i) PROVE Inductive'
  BY <1>5, WriteStreamStep
<1>6. ASSUME NEW i \in Conns, ReadLine(i) PROVE Inductive'
  BY <1>6, ReadLineStep
<1>7. ASSUME NEW i \in Conns, LogoutGameServer(i) PROVE Inductive'
  BY <1>7, LogoutGameServerStep
<1>8. CASE UNCHANGED bufferVars
  <2>1. UNCHANGED poolVars /\ UNCHANGED <<con, gsuse, gsname>>
    BY <1>8 DEF bufferVars
  <2>2. Tops' = Tops
    BY <2>1, SidesStay
  <2>3. Pooled' /\ Kept'
    BY <2>1, <2>2, PoolStays
  <2> QED BY <2>1, <2>3, TablesStay DEF Inductive
<1> QED BY <1>1, <1>2, <1>3, <1>4, <1>5, <1>6, <1>7, <1>8 DEF BufferNext

\* The invariant holds always.
LEMMA AlwaysInductive == BufferSpec => []Inductive
<1>1. BufferInit => Inductive
  BY InitInductive
<1>2. Inductive /\ [BufferNext]_bufferVars => Inductive'
  BY NextInductive
<1> QED BY <1>1, <1>2, PTL DEF BufferSpec

----------------------------------------------------------------------------
\* What the invariant says of the pool.

\* A list that is open is the list of a side, and of no other.
LEMMA OpenSides ==
    ASSUME Inductive, NEW P, Held(Sides, Tops, P, mbused, mbnext, mbtext), NEW s \in Sides
    PROVE  /\ Chain(Tops[s]) = P[s] /\ Range(P[s]) = NodesOf(P[s])
           /\ Tops[s] # 0 <=> Open(s[1])
           /\ Tops[s] # 0 => Tops[s] \in Nodes /\ On(P[s], Tops[s])
           /\ \A n \in Nodes : On(P[s], n) => Tops[s] # 0
<1> DEFINE top == Tops
<1>1. Held(Sides, top, P, mbused, mbnext, mbtext) /\ Pool(mbused, mbnext, mbtext, mbuse)
  BY DEF Inductive, Pooled
<1> HIDE DEF top
<1>2. Chain(top[s]) = P[s]
  BY <1>1, WhatAStreamHolds
<1>3. P[s] \in Seq(Nodes) /\ Single(P[s]) /\ Leads(mbnext, top[s], P[s])
  BY <1>1 DEF Held, Paths, Leads, Single
<1>4. Range(P[s]) = NodesOf(P[s])
  BY <1>3, CountNodes
<1>5. Tops[s] # 0 <=> Open(s[1])
  <2>1. s[1] \in Conns /\ Tops[s] = IF s[2] = "ri" THEN con[s[1]].ri ELSE con[s[1]].wi
    BY DEF Tops, Sides
  <2> QED BY <2>1 DEF Inductive, BothOrNone, Open
<1>6. top[s] = 0 <=> P[s] = <<>>
  BY <1>3, NoPath
<1>7. ASSUME P[s] # <<>> PROVE top[s] \in Nodes /\ On(P[s], top[s])
  <2>1. Len(P[s]) \in Nat /\ Len(P[s]) # 0
    BY <1>3, <1>7, PathFacts
  <2>2. 1 \in 1 .. Len(P[s])
    BY <2>1
  <2>3. P[s][1] \in Nodes /\ On(P[s], P[s][1])
    BY <1>3, <2>2, PathFacts
  <2>4. P[s][1] = top[s]
    BY <1>3, <1>7 DEF Leads
  <2> QED BY <2>3, <2>4
<1>8. ASSUME NEW n \in Nodes, On(P[s], n) PROVE P[s] # <<>>
  BY <1>8 DEF On
<1> QED BY <1>2, <1>4, <1>5, <1>6, <1>7, <1>8 DEF top

\* There are two lists for every open connection.
LEMMA TwoLists ==
    ASSUME Inductive, NEW O, O = {i \in Conns : Open(i)}
    PROVE  Cardinality({con[i].ri : i \in O} \cup {con[i].wi : i \in O}) = 2 * Cardinality(O)
<1> DEFINE R == {con[i].ri : i \in O}
           W == {con[i].wi : i \in O}
           ri == [i \in O |-> con[i].ri]
           wi == [i \in O |-> con[i].wi]
<1>1. PICK P : Held(Sides, Tops, P, mbused, mbnext, mbtext)
  BY DEF Inductive, Kept
<1>2. ASSUME NEW s \in Sides, NEW t \in Sides, Tops[s] = Tops[t], Tops[s] # 0 PROVE s = t
  <2>1. Tops[s] \in Nodes /\ On(P[s], Tops[s]) /\ On(P[t], Tops[t])
    BY <1>1, <1>2, OpenSides
  <2> QED BY <2>1, <1>1, <1>2 DEF Held, Apart
<1>3. ASSUME NEW i \in O
      PROVE  /\ i \in Conns /\ con[i].ri # 0 /\ con[i].wi # 0
             /\ <<i, "ri">> \in Sides /\ Tops[<<i, "ri">>] = con[i].ri
             /\ <<i, "wi">> \in Sides /\ Tops[<<i, "wi">>] = con[i].wi
  BY TwoSides DEF Inductive, BothOrNone, Open
<1>4. ASSUME NEW i \in O, NEW j \in O
      PROVE  /\ con[i].ri = con[j].ri => i = j
             /\ con[i].wi = con[j].wi => i = j
             /\ con[i].ri # con[j].wi
  <2>1. con[i].ri = con[j].ri => <<i, "ri">> = <<j, "ri">>
    BY <1>2, <1>3
  <2>2. con[i].wi = con[j].wi => <<i, "wi">> = <<j, "wi">>
    BY <1>2, <1>3
  <2>3. con[i].ri = con[j].wi => <<i, "ri">> = <<j, "wi">>
    BY <1>2, <1>3
  <2> QED BY <2>1, <2>2, <2>3
<1>5. IsFiniteSet(O) /\ Cardinality(O) \in Nat
  <2>1. IsFiniteSet(Conns)
    BY BufferAssumption
  <2>2. O \in SUBSET Conns
    OBVIOUS
  <2>3. IsFiniteSet(O)
    BY <2>1, <2>2, FS_Subset
  <2> QED BY <2>3, FS_CardinalityType
<1>6. R \cap W = {}
  BY <1>4
<1>7. ri \in Surjection(O, R) /\ ri \in Injection(O, R)
  BY <1>4 DEF Surjection, Injection, IsInjective
<1>8. wi \in Surjection(O, W) /\ wi \in Injection(O, W)
  BY <1>4 DEF Surjection, Injection, IsInjective
<1> HIDE DEF ri, wi, R, W
<1>9. IsFiniteSet(R) /\ Cardinality(R) = Cardinality(O)
  BY <1>5, <1>7, FS_Surjection
<1>10. IsFiniteSet(W) /\ Cardinality(W) = Cardinality(O)
  BY <1>5, <1>8, FS_Surjection
<1>11. Cardinality(R \cup W) = Cardinality(R) + Cardinality(W) - Cardinality(R \cap W)
  BY <1>9, <1>10, FS_Union
<1>12. Cardinality(R \cap W) = 0
  BY <1>6, FS_EmptySet
<1>13. Cardinality(R \cup W) = 2 * Cardinality(O)
  <2> DEFINE n == Cardinality(O)
             m == Cardinality(R \cup W)
  <2>1. n \in Nat /\ m = n + n - 0
    BY <1>5, <1>9, <1>10, <1>11, <1>12
  <2> HIDE DEF n, m
  <2>2. m = 2 * n
    BY <2>1
  <2> QED BY <2>2 DEF n, m
<1> QED BY <1>13 DEF R, W

\* The invariant says that the pool is accounted for.
LEMMA Accounted ==
    ASSUME Inductive
    PROVE  PoolAccounted
<1> DEFINE O == {i \in Conns : Open(i)}
           lists == {con[i].ri : i \in O} \cup {con[i].wi : i \in O}
<1>1. PICK P : Held(Sides, Tops, P, mbused, mbnext, mbtext)
  BY DEF Inductive, Kept
<1>2. mbuse = Cardinality(mbused)
  BY DEF Inductive, Pooled, Pool
<1>3. ASSUME NEW s \in Sides
      PROVE  /\ Chain(Tops[s]) = P[s] /\ Range(P[s]) = NodesOf(P[s])
             /\ Tops[s] # 0 <=> Open(s[1])
             /\ \A n \in Nodes : On(P[s], n) => Tops[s] # 0
  BY <1>1, OpenSides
<1>4. ASSUME NEW s \in Sides, Tops[s] # 0 PROVE Tops[s] \in lists
  <2>1. s[1] \in O /\ Tops[s] = IF s[2] = "ri" THEN con[s[1]].ri ELSE con[s[1]].wi
    BY <1>3, <1>4 DEF Tops, Sides
  <2> QED BY <2>1
<1>5. ASSUME NEW l \in lists PROVE \E s \in Sides : Tops[s] = l
  <2>1. PICK i \in O : l = con[i].ri \/ l = con[i].wi
    BY <1>5
  <2>2. /\ <<i, "ri">> \in Sides /\ Tops[<<i, "ri">>] = con[i].ri
        /\ <<i, "wi">> \in Sides /\ Tops[<<i, "wi">>] = con[i].wi
    BY TwoSides
  <2> QED BY <2>1, <2>2
<1>6. Cardinality(lists) = 2 * Cardinality(O)
  BY TwoLists
<1> HIDE DEF lists
<1>7. mbused = UNION {Range(Chain(l)) : l \in lists}
  <2>1. ASSUME NEW n \in mbused PROVE \E l \in lists : n \in Range(Chain(l))
    <3>1. n \in Nodes /\ \E s \in Sides : On(P[s], n)
      BY <2>1, <1>1 DEF Held, Owned
    <3>2. PICK s \in Sides : On(P[s], n)
      BY <3>1
    <3>3. Tops[s] \in lists
      BY <3>1, <3>2, <1>3, <1>4
    <3>4. n \in Range(Chain(Tops[s]))
      BY <3>1, <3>2, <1>3 DEF NodesOf
    <3> QED BY <3>3, <3>4
  <2>2. ASSUME NEW l \in lists, NEW n \in Range(Chain(l)) PROVE n \in mbused
    <3>1. PICK s \in Sides : Tops[s] = l
      BY <1>5
    <3>2. n \in Nodes /\ On(P[s], n)
      BY <3>1, <2>2, <1>3 DEF NodesOf
    <3> QED BY <3>2, <1>1 DEF Held, Owned
  <2> QED BY <2>1, <2>2
<1>8. ASSUME NEW l \in lists, NEW m \in lists, l # m PROVE Range(Chain(l)) \cap Range(Chain(m)) = {}
  <2>1. PICK s \in Sides : Tops[s] = l
    BY <1>5
  <2>2. PICK t \in Sides : Tops[t] = m
    BY <1>5
  <2>3. Range(Chain(l)) = NodesOf(P[s]) /\ Range(Chain(m)) = NodesOf(P[t])
    BY <2>1, <2>2, <1>3
  <2>4. s # t
    BY <2>1, <2>2, <1>8
  <2>5. \A n \in Nodes : ~ (On(P[s], n) /\ On(P[t], n))
    BY <2>4, <1>1 DEF Held, Apart
  <2> QED BY <2>3, <2>5 DEF NodesOf
<1> QED BY <1>2, <1>6, <1>7, <1>8 DEF PoolAccounted, lists

----------------------------------------------------------------------------
\* Theorems.

\* The pool, the tables and the streams are of their types, and no node holds
\* more than its Cap bytes (saac/main.c: struct membuf, con and gs).
THEOREM BufferTypes == BufferSpec => []BufferTypeOK
<1>1. ASSUME Inductive PROVE BufferTypeOK
  <2>1. mbused \in SUBSET Nodes /\ mbuse = Cardinality(mbused) /\ mbnext \in Links
        /\ mbtext \in [Nodes -> Seq(Bytes)] /\ \A n \in Nodes : Len(mbtext[n]) <= Cap
    BY <1>1 DEF Inductive, Pooled, Pool
  <2>2. mbuse \in 0 .. Cardinality(Nodes)
    <3>1. IsFiniteSet(Nodes)
      BY BufferAssumption
    <3>2. IsFiniteSet(mbused) /\ Cardinality(mbused) <= Cardinality(Nodes)
      BY <2>1, <3>1, FS_Subset
    <3>3. Cardinality(mbused) \in Nat /\ Cardinality(Nodes) \in Nat
      BY <3>1, <3>2, FS_CardinalityType
    <3> DEFINE a == Cardinality(mbused)
               b == Cardinality(Nodes)
    <3>4. a \in Nat /\ b \in Nat /\ a <= b /\ mbuse = a
      BY <2>1, <3>2, <3>3
    <3> HIDE DEF a, b
    <3>5. mbuse \in 0 .. b
      BY <3>4
    <3> QED BY <3>5 DEF b
  <2>3. con \in [Conns -> [use : BOOLEAN, ri : Nodes \cup {0}, wi : Nodes \cup {0}, eof : BOOLEAN]]
    BY <1>1 DEF Inductive, BothOrNone, Connections
  <2>4. gsuse \in [Conns -> BOOLEAN] /\ gsname \in [Conns -> Names \cup {"none"}]
    BY <1>1 DEF Inductive, Known
  <2> QED BY <2>1, <2>2, <2>3, <2>4 DEF BufferTypeOK, Links
<1>2. Inductive => BufferTypeOK
  BY <1>1
<1> QED BY <1>2, AlwaysInductive, PTL

\* No buffer is lost and none is in two streams, however streams grow, shrink,
\* break and are accepted again, and the counter by which the code decides
\* whether what it has read will fit is right (appendMemBufList,
\* consumeMemBufList, tcpstruct_close and tcpstruct_accept1 of saac/main.c).
THEOREM PoolIsAccounted == BufferSpec => []PoolAccounted
<1>1. Inductive => PoolAccounted
  BY Accounted
<1> QED BY <1>1, AlwaysInductive, PTL

\* The main loop looks at every stream that is open, and no two game servers are
\* logged in by one name (login_game_server, logout_game_server, the main loop).
THEOREM OpenIsServed == BufferSpec => []ServedWhileOpen
<1>1. Inductive => ServedWhileOpen
  BY DEF Inductive, Known, Unique, ServedWhileOpen
<1> QED BY <1>1, AlwaysInductive, PTL

----------------------------------------------------------------------------
\* What streams hold when they grow and shrink.

\* Down from L to 1: what is true of L, and of i when it is of i + 1, is true of all.
\* (G are those of which it is true.)
LEMMA Downward ==
    ASSUME NEW L \in Nat, NEW G, L # 0 => L \in G,
           \A i \in 1 .. L : i # L /\ i + 1 \in G => i \in G
    PROVE  \A i \in 1 .. L : i \in G
<1> DEFINE T == {m \in 0 .. L : m # L /\ L - m \notin G}
<1>1. T = {}
  <2>1. SUFFICES ASSUME T # {} PROVE FALSE
    OBVIOUS
  <2>2. PICK m \in T : \A j \in T : m <= j
    <3> T \in SUBSET Nat
      OBVIOUS
    <3> HIDE DEF T
    <3> QED BY <2>1, FirstOfMany
  <2>3. m \in 0 .. L /\ m # L /\ L - m \notin G /\ L # 0
    BY <2>2
  <2>4. m # 0
    BY <2>3
  <2>5. m - 1 \in 0 .. L /\ m - 1 # L /\ ~ (m <= m - 1)
    BY <2>3, <2>4
  <2>6. L - (m - 1) \in G
    <3>1. m - 1 \notin T
      <4> HIDE DEF T
      <4> QED BY <2>5, <2>2
    <3> QED BY <3>1, <2>5
  <2>7. L - m \in 1 .. L /\ L - m # L /\ (L - m) + 1 = L - (m - 1)
    BY <2>3, <2>4
  <2> QED BY <2>3, <2>6, <2>7
<1>2. ASSUME NEW i \in 1 .. L PROVE i \in G
  <2>1. L - i \in 0 .. L /\ L - i # L /\ L - (L - i) = i
    OBVIOUS
  <2> QED BY <2>1, <1>1
<1> QED BY <1>2

\* Everything that is put down on the way along a path is a text.
LEMMA SpellsTexts ==
    ASSUME NEW put \in [Nodes -> Seq(Bytes)], NEW c \in Seq(Nodes), NEW g, Spells(g, put, c)
    PROVE  \A i \in 1 .. Len(c) + 1 : g[i] \in Seq(Bytes)
<1> DEFINE L == Len(c)
           G == {i \in 1 .. L : g[i] \in Seq(Bytes)}
<1>1. L \in Nat /\ \A k \in 1 .. L : put[c[k]] \in Seq(Bytes)
  <2>1. L \in Nat /\ \A k \in 1 .. L : c[k] \in Nodes
    BY PathFacts
  <2> QED BY <2>1
<1>2. g[L + 1] = <<>> /\ (\A i \in 1 .. L : g[i] = put[c[i]] \o g[i + 1])
  BY DEF Spells
<1>3. <<>> \in Seq(Bytes)
  OBVIOUS
<1>4. ASSUME NEW i \in 1 .. L, g[i + 1] \in Seq(Bytes) PROVE g[i] \in Seq(Bytes)
  <2>1. put[c[i]] \in Seq(Bytes) /\ g[i] = put[c[i]] \o g[i + 1]
    BY <1>1, <1>2
  <2> QED BY <2>1, <1>4, ConcatProperties
<1>5. L # 0 => L \in G
  <2>1. L # 0 => L \in 1 .. L
    BY <1>1
  <2> QED BY <2>1, <1>2, <1>3, <1>4
<1>6. \A i \in 1 .. L : i # L /\ i + 1 \in G => i \in G
  BY <1>4
<1> HIDE DEF G
<1>7. \A i \in 1 .. L : i \in G
  <2> HIDE DEF L
  <2> QED BY <1>1, <1>5, <1>6, Downward
<1>8. ASSUME NEW i \in 1 .. L + 1 PROVE g[i] \in Seq(Bytes)
  <2>1. i = L + 1 \/ i \in 1 .. L
    BY <1>1
  <2> QED BY <2>1, <1>2, <1>3, <1>7 DEF G
<1> QED BY <1>8

\* A path spells one text.
LEMMA SpelledOnce ==
    ASSUME NEW put, NEW c \in Seq(Nodes), NEW x, NEW y, Spelled(put, c, x), Spelled(put, c, y)
    PROVE  x = y
<1> DEFINE L == Len(c)
<1>1. L \in Nat
  BY PathFacts
<1>2. PICK g : Spells(g, put, c) /\ g[1] = x
  BY DEF Spelled
<1>3. PICK h : Spells(h, put, c) /\ h[1] = y
  BY DEF Spelled
<1> DEFINE G == {i \in 1 .. L : g[i] = h[i]}
<1>4. g[L + 1] = h[L + 1] /\ \A i \in 1 .. L : g[i + 1] = h[i + 1] => g[i] = h[i]
  BY <1>2, <1>3 DEF Spells
<1>5. L # 0 => L \in G
  BY <1>1, <1>4
<1>6. \A i \in 1 .. L : i # L /\ i + 1 \in G => i \in G
  BY <1>4
<1> HIDE DEF G
<1>7. \A i \in 1 .. L : i \in G
  <2> HIDE DEF L
  <2> QED BY <1>1, <1>5, <1>6, Downward
<1>8. g[1] = h[1]
  <2>1. CASE L = 0
    BY <2>1, <1>4
  <2>2. CASE L # 0
    <3>1. 1 \in 1 .. L
      BY <2>2, <1>1
    <3> QED BY <3>1, <1>7 DEF G
  <2> QED BY <2>1, <2>2
<1> QED BY <1>2, <1>3, <1>8

\* It spells the same as long as its nodes hold the same.
LEMMA SpelledSame ==
    ASSUME NEW put, NEW put2, NEW c, NEW x, Spelled(put, c, x),
           \A k \in 1 .. Len(c) : put2[c[k]] = put[c[k]]
    PROVE  Spelled(put2, c, x)
<1>1. PICK g : Spells(g, put, c) /\ g[1] = x
  BY DEF Spelled
<1>2. Spells(g, put2, c)
  BY <1>1 DEF Spells
<1> QED BY <1>1, <1>2 DEF Spelled

\* Texts behind one another.
LEMMA Behind ==
    ASSUME NEW t \in Seq(Bytes), NEW p \in Seq(Bytes), NEW w \in Seq(Bytes)
    PROVE  (t \o p) \o w = t \o (p \o w)
BY ConcatAssociative

\* y is the text x, and more behind it.
GoesOn(x, y) == x \in Seq(Bytes) /\ \E z \in Seq(Bytes) : y = x \o z

\* A path that goes on spells what it spelled, and more.
LEMMA SpelledLonger ==
    ASSUME NEW text \in [Nodes -> Seq(Bytes)], NEW text2 \in [Nodes -> Seq(Bytes)],
           NEW c \in Seq(Nodes), c # <<>>, NEW e, NEW d, NEW p, LongerBy(c, e, text, text2, d, p),
           NEW x, Spelled(text, c, x), NEW y, Spelled(text2, e, y)
    PROVE  GoesOn(x, y)
<1> DEFINE L == Len(c)
<1>1. L \in Nat /\ L # 0 /\ (\A k \in 1 .. L : c[k] \in Nodes) /\ d \in Seq(Nodes) /\ Len(d) \in Nat
      /\ p \in Seq(Bytes) /\ e = c \o d
  BY PathFacts DEF LongerBy
<1>2. e \in Seq(Nodes) /\ Len(e) = L + Len(d) /\ \A i \in 1 .. L + Len(d) : e[i] = IF i <= L THEN c[i] ELSE d[i - L]
  BY <1>1, ConcatProperties
<1>3. /\ \A k \in 1 .. L - 1 : text2[c[k]] = text[c[k]]
      /\ text2[c[L]] = text[c[L]] \o p
  BY DEF LongerBy
<1>4. PICK g : Spells(g, text, c) /\ g[1] = x
  BY DEF Spelled
<1>5. PICK h : Spells(h, text2, e) /\ h[1] = y
  BY DEF Spelled
<1>6. g[L + 1] = <<>> /\ (\A i \in 1 .. L : g[i] = text[c[i]] \o g[i + 1])
      /\ \A i \in 1 .. L + 1 : g[i] \in Seq(Bytes)
  BY <1>4, SpellsTexts DEF Spells
<1>7. (\A i \in 1 .. L : h[i] = text2[c[i]] \o h[i + 1])
      /\ \A i \in 1 .. L + 1 : h[i] \in Seq(Bytes)
  <2>1. (\A i \in 1 .. Len(e) : h[i] = text2[e[i]] \o h[i + 1]) /\ \A i \in 1 .. Len(e) + 1 : h[i] \in Seq(Bytes)
    BY <1>2, <1>5, SpellsTexts DEF Spells
  <2>2. \A i \in 1 .. L : i \in 1 .. Len(e) /\ e[i] = c[i]
    BY <1>1, <1>2
  <2>3. \A i \in 1 .. L + 1 : i \in 1 .. Len(e) + 1
    BY <1>1, <1>2
  <2> QED BY <2>1, <2>2, <2>3
<1> DEFINE z == p \o h[L + 1]
           G == {i \in 1 .. L : h[i] = g[i] \o z}
<1>8. h[L + 1] \in Seq(Bytes) /\ z \in Seq(Bytes)
  <2>1. L + 1 \in 1 .. L + 1
    BY <1>1
  <2>2. h[L + 1] \in Seq(Bytes)
    BY <2>1, <1>7
  <2> DEFINE w == h[L + 1]
  <2> HIDE DEF w
  <2>3. w \in Seq(Bytes)
    BY <2>2 DEF w
  <2>4. p \o w \in Seq(Bytes)
    BY <2>3, <1>1, ConcatProperties
  <2> QED BY <2>3, <2>4 DEF w
<1>9. L # 0 => L \in G
  <2> DEFINE t == text[c[L]]
             w == h[L + 1]
  <2>1. L \in 1 .. L /\ c[L] \in Nodes /\ t \in Seq(Bytes) /\ w \in Seq(Bytes)
    <3>1. L \in 1 .. L
      BY <1>1
    <3> QED BY <3>1, <1>1, <1>8
  <2>2. g[L] = t \o <<>> /\ h[L] = (t \o p) \o w
    BY <2>1, <1>3, <1>6, <1>7
  <2> HIDE DEF t, w
  <2>3. t \o <<>> = t /\ (t \o p) \o w = t \o (p \o w)
    <3>1. t \o <<>> = t
      BY <2>1, ConcatEmptySeq
    <3>2. (t \o p) \o w = t \o (p \o w)
      BY <2>1, <1>1, Behind
    <3> QED BY <3>1, <3>2
  <2>4. h[L] = g[L] \o (p \o w)
    BY <2>2, <2>3
  <2> QED BY <2>1, <2>4 DEF w
<1> HIDE DEF z
<1>10. ASSUME NEW i \in 1 .. L, i # L, i + 1 \in G PROVE i \in G
  <2> DEFINE t == text[c[i]]
             w == g[i + 1]
  <2>1. i \in 1 .. L - 1 /\ i + 1 \in 1 .. L + 1 /\ c[i] \in Nodes
    BY <1>1, <1>10
  <2>2. t \in Seq(Bytes) /\ w \in Seq(Bytes)
    BY <2>1, <1>6
  <2>3. h[i + 1] = w \o z /\ g[i] = t \o w /\ h[i] = t \o h[i + 1]
    BY <2>1, <1>3, <1>6, <1>7, <1>10
  <2> HIDE DEF t, w
  <2>4. (t \o w) \o z = t \o (w \o z)
    BY <2>2, <1>8, Behind
  <2> QED BY <2>3, <2>4
<1> HIDE DEF G
<1>11. \A i \in 1 .. L : i \in G
  <2> HIDE DEF L
  <2> QED BY <1>1, <1>9, <1>10, Downward
<1>12. h[1] = g[1] \o z /\ g[1] \in Seq(Bytes)
  <2>1. 1 \in 1 .. L /\ 1 \in 1 .. L + 1
    BY <1>1
  <2> QED BY <2>1, <1>6, <1>11 DEF G
<1> QED BY <1>4, <1>5, <1>8, <1>12 DEF GoesOn

----------------------------------------------------------------------------
\* The text x without its first n bytes.
Drop(x, n) == IF n >= Len(x) THEN <<>> ELSE SubSeq(x, n + 1, Len(x))
Minus(a, b) == IF a <= b THEN 0 ELSE a - b

\* The text without its first bytes, byte by byte.
LEMMA DropFacts ==
    ASSUME NEW x \in Seq(Bytes), NEW n \in Nat
    PROVE  /\ Drop(x, n) \in Seq(Bytes) /\ Len(Drop(x, n)) = Minus(Len(x), n) /\ Len(x) \in Nat
           /\ \A i \in 1 .. Minus(Len(x), n) : Drop(x, n)[i] = x[n + i]
<1> DEFINE L == Len(x)
<1>1. L \in Nat /\ \A i \in 1 .. L : x[i] \in Bytes
  BY LenProperties, ElementOfSeq
<1>2. CASE n >= L
  <2>1. Drop(x, n) = <<>> /\ <<>> \in Seq(Bytes) /\ Len(<<>>) = 0 /\ Minus(L, n) = 0
    BY <1>1, <1>2 DEF Drop, Minus
  <2>2. 1 .. Minus(L, n) = {}
    BY <2>1
  <2> QED BY <2>1, <2>2, <1>1
<1>3. CASE ~ (n >= L)
  <2> DEFINE m == n + 1
  <2>1. m \in Int /\ L \in Int /\ m <= L /\ (\A i \in m .. L : x[i] \in Bytes) /\ L - m + 1 = L - n /\ Minus(L, n) = L - n
    BY <1>1, <1>3 DEF Minus
  <2>2. Drop(x, n) = SubSeq(x, m, L)
    BY <1>3 DEF Drop
  <2> HIDE DEF m, L
  <2>3. /\ SubSeq(x, m, L) \in Seq(Bytes)
        /\ Len(SubSeq(x, m, L)) = IF m <= L THEN L - m + 1 ELSE 0
        /\ \A i \in 1 .. L - m + 1 : SubSeq(x, m, L)[i] = x[m + i - 1]
    BY <2>1, SubSeqProperties
  <2>4. \A i \in 1 .. L - m + 1 : m + i - 1 = n + i
    BY DEF m
  <2> QED BY <2>1, <2>2, <2>3, <2>4, <1>1 DEF L
<1> QED BY <1>2, <1>3

\* Bytes that are taken off two texts in a row are taken off the first one first.
LEMMA MinusFacts ==
    ASSUME NEW W \in Nat, NEW R \in Nat, NEW n \in Nat
    PROVE  /\ Minus(W + R, n) = Minus(W, n) + Minus(R, Minus(n, W))
           /\ Minus(W, n) \in Nat /\ Minus(R, Minus(n, W)) \in Nat /\ Minus(n, W) \in Nat
           /\ \A i \in Nat : i > Minus(W, n) /\ i <= Minus(W + R, n)
                  => Minus(n, W) + (i - Minus(W, n)) = (n + i) - W /\ n + i > W
BY DEF Minus

\* What is taken from two texts, one behind the other.
LEMMA DropConcat ==
    ASSUME NEW w \in Seq(Bytes), NEW r \in Seq(Bytes), NEW n \in Nat
    PROVE  Drop(w \o r, n) = Drop(w, n) \o Drop(r, Minus(n, Len(w)))
<1> DEFINE x == w \o r
           m == Minus(n, Len(w))
           a == Drop(w, n)
           b == Drop(r, m)
           u == Drop(x, n)
           v == a \o b
<1>1. Len(w) \in Nat /\ Len(r) \in Nat
  BY LenProperties
<1>2. m \in Nat
  BY <1>1 DEF Minus
<1>3. x \in Seq(Bytes) /\ Len(x) = Len(w) + Len(r)
      /\ \A i \in 1 .. Len(w) + Len(r) : x[i] = IF i <= Len(w) THEN w[i] ELSE r[i - Len(w)]
  BY ConcatProperties
<1> HIDE DEF x, m
<1>4. a \in Seq(Bytes) /\ Len(a) = Minus(Len(w), n) /\ \A i \in 1 .. Minus(Len(w), n) : a[i] = w[n + i]
  BY DropFacts
<1>5. b \in Seq(Bytes) /\ Len(b) = Minus(Len(r), m) /\ \A i \in 1 .. Minus(Len(r), m) : b[i] = r[m + i]
  BY <1>2, DropFacts
<1>6. u \in Seq(Bytes) /\ Len(u) = Minus(Len(x), n) /\ \A i \in 1 .. Minus(Len(x), n) : u[i] = x[n + i]
  BY <1>3, DropFacts
<1> HIDE DEF a, b, u
<1>7. v \in Seq(Bytes) /\ Len(v) = Len(a) + Len(b)
      /\ \A i \in 1 .. Len(a) + Len(b) : v[i] = IF i <= Len(a) THEN a[i] ELSE b[i - Len(a)]
  BY <1>4, <1>5, ConcatProperties
<1> HIDE DEF v
<1>8. Len(u) = Len(v) /\ Len(u) \in Nat /\ Len(a) \in Nat /\ Len(b) \in Nat
  <2> DEFINE W == Len(w)
             R == Len(r)
  <2>1. W \in Nat /\ R \in Nat
    BY <1>1
  <2>2. /\ Len(x) = W + R /\ Len(a) = Minus(W, n) /\ Len(b) = Minus(R, Minus(n, W))
        /\ Len(u) = Minus(Len(x), n) /\ Len(v) = Len(a) + Len(b)
    BY <1>3, <1>4, <1>5, <1>6, <1>7 DEF m
  <2> HIDE DEF W, R
  <2>3. Minus(W + R, n) = Minus(W, n) + Minus(R, Minus(n, W))
        /\ Minus(W, n) \in Nat /\ Minus(R, Minus(n, W)) \in Nat
    BY <2>1, MinusFacts
  <2> QED BY <2>2, <2>3
<1>9. ASSUME NEW i \in 1 .. Len(u) PROVE u[i] = v[i]
  <2>1. u[i] = x[n + i] /\ n + i \in 1 .. Len(w) + Len(r)
    BY <1>1, <1>3, <1>6 DEF Minus
  <2>2. CASE i <= Len(a)
    <3>1. v[i] = a[i] /\ i \in 1 .. Minus(Len(w), n)
      BY <2>2, <1>4, <1>7, <1>8
    <3>2. n + i <= Len(w)
      BY <3>1, <1>1 DEF Minus
    <3> QED BY <3>1, <3>2, <2>1, <1>3, <1>4
  <2>3. CASE ~ (i <= Len(a))
    <3> DEFINE j == i - Len(a)
    <3>1. v[i] = b[j] /\ j \in 1 .. Minus(Len(r), m)
      BY <2>3, <1>5, <1>7, <1>8
    <3>2. m + j = (n + i) - Len(w) /\ ~ (n + i <= Len(w))
      <4> DEFINE W == Len(w)
                 R == Len(r)
      <4>1. W \in Nat /\ R \in Nat /\ Len(x) = W + R /\ Len(u) = Minus(Len(x), n) /\ Len(a) = Minus(W, n)
        BY <1>1, <1>3, <1>4, <1>6
      <4>2. i \in Nat /\ i <= Len(u) /\ i > Len(a)
        BY <2>3, <1>8
      <4>3. m = Minus(n, W)
        BY DEF m
      <4> HIDE DEF W, R
      <4>4. i > Minus(W, n) /\ i <= Minus(W + R, n)
        BY <4>1, <4>2
      <4>5. Minus(n, W) + (i - Minus(W, n)) = (n + i) - W /\ n + i > W
        BY <4>1, <4>2, <4>4, MinusFacts
      <4>6. W \in Nat /\ n + i > W => ~ (n + i <= W)
        BY <4>2
      <4> QED BY <4>1, <4>3, <4>5, <4>6 DEF W
    <3> HIDE DEF j
    <3>3. b[j] = r[m + j]
      BY <3>1, <1>5
    <3> QED BY <3>1, <3>2, <3>3, <2>1, <1>3
  <2> QED BY <2>2, <2>3
<1>10. u = v
  BY <1>6, <1>7, <1>8, <1>9, SeqEqual
<1> QED BY <1>10 DEF u, v, a, b, x, m

\* A path that loses empty nodes, and len bytes at its front, spells what is left.
LEMMA SpelledShorter ==
    ASSUME NEW text \in [Nodes -> Seq(Bytes)], NEW text2, NEW c \in Seq(Nodes), NEW e, NEW len \in Nat,
           NEW m, ShorterBy(c, e, text, text2, len, m),
           NEW x, Spelled(text, c, x), NEW y, Spelled(text2, e, y)
    PROVE  x \in Seq(Bytes) /\ y = Drop(x, len)
<1> DEFINE L == Len(c)
           N == L - m + 1
           left(k) == Left(c, text, len, k)
           rest(k) == Minus(len, Before(c, text, k))
<1>1. L \in Nat /\ (\A k \in 1 .. L : c[k] \in Nodes) /\ m \in 1 .. L
      /\ (\A k \in 1 .. L : text2[c[k]] = left(k)) /\ \A k \in 2 .. m : left(k) = <<>>
  BY PathFacts DEF ShorterBy
<1>2. N \in Nat /\ N # 0 /\ Len(e) = N /\ e \in Seq(Nodes)
      /\ e[1] = c[1] /\ \A k \in 2 .. N : e[k] = c[k + m - 1]
  <2>1. N \in Nat /\ N # 0 /\ 1 \in 1 .. L
    BY <1>1
  <2>2. e = [k \in 1 .. N |-> IF k = 1 THEN c[1] ELSE c[k + m - 1]]
    BY DEF ShorterBy, Without
  <2>3. \A k \in 1 .. N : k # 1 => k + m - 1 \in 1 .. L
    BY <1>1
  <2>4. \A k \in 1 .. N : (IF k = 1 THEN c[1] ELSE c[k + m - 1]) \in Nodes
    BY <1>1, <2>1, <2>3
  <2> HIDE DEF N
  <2>5. e \in Seq(Nodes) /\ Len(e) = N
    <3> DEFINE val(k) == IF k = 1 THEN c[1] ELSE c[k + m - 1]
    <3>1. N \in Nat /\ e = [k \in 1 .. N |-> val(k)] /\ \A k \in 1 .. N : val(k) \in Nodes
      BY <2>1, <2>2, <2>4
    <3> HIDE DEF val
    <3> QED BY <3>1
  <2>6. e[1] = c[1] /\ \A k \in 2 .. N : e[k] = c[k + m - 1]
    BY <2>1, <2>2
  <2> QED BY <2>1, <2>5, <2>6
<1>3. PICK g : Spells(g, text, c) /\ g[1] = x
  BY DEF Spelled
<1>4. g[L + 1] = <<>> /\ (\A i \in 1 .. L : g[i] = text[c[i]] \o g[i + 1])
      /\ \A i \in 1 .. L + 1 : g[i] \in Seq(Bytes)
  BY <1>3, SpellsTexts DEF Spells
<1>5. ASSUME NEW k \in 1 .. L
      PROVE  /\ Before(c, text, k) \in Nat /\ Before(c, text, k + 1) = Before(c, text, k) + Len(text[c[k]])
             /\ Len(text[c[k]]) \in Nat /\ rest(k) \in Nat
             /\ rest(k + 1) = Minus(rest(k), Len(text[c[k]]))
             /\ left(k) = Drop(text[c[k]], rest(k))
  <2>1. Before(c, text, k) \in Nat /\ Len(text[c[k]]) \in Nat
        /\ Before(c, text, k + 1) = Before(c, text, k) + Len(text[c[k]])
    BY BeforeFacts
  <2> DEFINE b == Before(c, text, k)
             w == Len(text[c[k]])
  <2>2. rest(k) = Minus(len, b) /\ rest(k + 1) = Minus(len, b + w) /\ b \in Nat /\ w \in Nat
    BY <2>1
  <2> HIDE DEF b, w
  <2>3. Minus(len, b) \in Nat /\ Minus(len, b + w) = Minus(Minus(len, b), w)
    BY <2>2 DEF Minus
  <2>4. left(k) = Drop(text[c[k]], rest(k))
    BY DEF Left, Drop, Minus
  <2> QED BY <2>1, <2>2, <2>3, <2>4 DEF b, w
<1> HIDE DEF left, rest
<1> DEFINE h(k) == Drop(g[k], rest(k))
<1>6. h(L + 1) = <<>>
  <2> DEFINE r == rest(L + 1)
  <2>1. g[L + 1] = <<>> /\ Len(<<>>) = 0
    BY <1>4
  <2>2. r \in Nat
    <3>1. CASE L = 0
      <4>1. FALSE
        BY <3>1, <1>1
      <4> QED BY <4>1
    <3>2. CASE L # 0
      <4>1. L \in 1 .. L
        BY <3>2, <1>1
      <4>2. rest(L + 1) = Minus(rest(L), Len(text[c[L]])) /\ rest(L) \in Nat /\ Len(text[c[L]]) \in Nat
        BY <4>1, <1>5
      <4> QED BY <4>2 DEF Minus
    <3> QED BY <3>1, <3>2
  <2> HIDE DEF r
  <2>3. Drop(<<>>, r) = <<>>
    BY <2>1, <2>2 DEF Drop
  <2> QED BY <2>1, <2>3 DEF r
<1>7. ASSUME NEW k \in 1 .. L PROVE h(k) = left(k) \o h(k + 1)
  <2> DEFINE w == text[c[k]]
             r == g[k + 1]
             n == rest(k)
  <2>1. w \in Seq(Bytes) /\ r \in Seq(Bytes) /\ n \in Nat /\ g[k] = w \o r
    <3>1. k + 1 \in 1 .. L + 1
      BY <1>1
    <3>2. c[k] \in Nodes
      BY <1>1
    <3> QED BY <3>1, <3>2, <1>4, <1>5
  <2>2. rest(k + 1) = Minus(n, Len(w)) /\ left(k) = Drop(w, n)
    BY <1>5
  <2> HIDE DEF w, r, n
  <2>3. Drop(w \o r, n) = Drop(w, n) \o Drop(r, Minus(n, Len(w)))
    BY <2>1, DropConcat
  <2>4. h(k) = Drop(w \o r, n) /\ h(k + 1) = Drop(r, Minus(n, Len(w)))
    BY <2>1, <2>2 DEF r, n
  <2> QED BY <2>2, <2>3, <2>4
<1>8. ASSUME NEW k \in 1 .. L + 1 PROVE h(k) \in Seq(Bytes)
  <2>1. rest(k) \in Nat \/ k = L + 1
    <3>1. k = L + 1 \/ k \in 1 .. L
      BY <1>1
    <3> QED BY <3>1, <1>5
  <2>2. CASE rest(k) \in Nat
    <3> DEFINE w == g[k]
               r == rest(k)
    <3>1. w \in Seq(Bytes) /\ r \in Nat
      BY <2>2, <1>4
    <3> HIDE DEF w, r
    <3>2. Drop(w, r) \in Seq(Bytes)
      BY <3>1, DropFacts
    <3> QED BY <3>2 DEF w, r
  <2>3. CASE k = L + 1
    <3>1. <<>> \in Seq(Bytes)
      OBVIOUS
    <3> QED BY <3>1, <2>3, <1>6
  <2> QED BY <2>1, <2>2, <2>3
<1> HIDE DEF h
<1>9. h(2) = h(m + 1)
  <2> DEFINE G == {i \in 1 .. m : h(i + 1) = h(m + 1)}
  <2>0. m \in Nat /\ m # 0 /\ m \in 1 .. m /\ 1 \in 1 .. m
    BY <1>1
  <2>1. m # 0 => m \in G
    BY <2>0
  <2>2. ASSUME NEW i \in 1 .. m, i # m, i + 1 \in G PROVE i \in G
    <3> DEFINE k == i + 1
    <3>1. k \in 2 .. m /\ k \in 1 .. L /\ k + 1 \in 1 .. L + 1
      BY <2>2, <1>1
    <3>2. h(k) = left(k) \o h(k + 1) /\ left(k) = <<>> /\ h(k + 1) \in Seq(Bytes) /\ h(k + 1) = h(m + 1)
      BY <3>1, <2>2, <1>1, <1>7, <1>8
    <3> HIDE DEF k
    <3> DEFINE w == h(k + 1)
    <3>3. w \in Seq(Bytes) /\ h(k) = <<>> \o w /\ w = h(m + 1)
      BY <3>2
    <3> HIDE DEF w
    <3>4. <<>> \o w = w
      BY <3>3, ConcatEmptySeq
    <3>5. h(k) = h(m + 1)
      BY <3>3, <3>4
    <3> QED BY <3>5 DEF k
  <2> HIDE DEF G
  <2>3. \A i \in 1 .. m : i \in G
    BY <2>0, <2>1, <2>2, Downward
  <2>4. 1 \in G
    BY <2>0, <2>3
  <2>5. h(1 + 1) = h(m + 1)
    BY <2>4 DEF G
  <2> QED BY <2>5
<1> DEFINE f == [i \in 1 .. N + 1 |-> IF i = 1 THEN h(1) ELSE h(i + m - 1)]
<1>10. Spells(f, text2, e)
  <2>1. f[N + 1] = <<>>
    <3>1. N + 1 \in 1 .. N + 1 /\ N + 1 # 1 /\ (N + 1) + m - 1 = L + 1
      BY <1>1, <1>2
    <3>2. f[N + 1] = h((N + 1) + m - 1)
      BY <3>1
    <3> QED BY <3>1, <3>2, <1>6 DEF h
  <2>2. ASSUME NEW i \in 1 .. N PROVE f[i] = text2[e[i]] \o f[i + 1]
    <3>1. i \in 1 .. N + 1 /\ i + 1 \in 1 .. N + 1 /\ i + 1 # 1 /\ (i + 1) + m - 1 = i + m
      BY <1>1, <1>2
    <3>2. f[i + 1] = h(i + m)
      BY <3>1
    <3>3. CASE i = 1
      <4>1. f[i] = h(1) /\ e[i] = c[1] /\ 1 \in 1 .. L /\ 1 + 1 = 2 /\ i + m = m + 1
        BY <3>1, <3>3, <1>1, <1>2
      <4>2. h(1) = left(1) \o h(1 + 1) /\ text2[c[1]] = left(1)
        BY <4>1, <1>1, <1>7
      <4> QED BY <4>1, <4>2, <3>2, <1>9
    <3>4. CASE i # 1
      <4> DEFINE k == i + m - 1
      <4>1. f[i] = h(k) /\ e[i] = c[k] /\ k \in 1 .. L /\ k + 1 = i + m
        <5>1. i \in 2 .. N /\ k \in 1 .. L /\ k + 1 = i + m
          BY <3>4, <1>1, <1>2
        <5>2. f[i] = h(i + m - 1)
          BY <3>1, <3>4
        <5> QED BY <5>1, <5>2, <1>2
      <4> HIDE DEF k
      <4>2. h(k) = left(k) \o h(k + 1) /\ text2[c[k]] = left(k)
        BY <4>1, <1>1, <1>7
      <4> QED BY <4>1, <4>2, <3>2
    <3> QED BY <3>3, <3>4
  <2> HIDE DEF f
  <2> QED BY <2>1, <2>2, <1>2 DEF Spells
<1>11. f[1] = h(1) /\ h(1) = Drop(x, len) /\ x \in Seq(Bytes)
  <2>1. 1 \in 1 .. N + 1 /\ 1 \in 1 .. L + 1
    BY <1>1, <1>2
  <2>2. rest(1) = len
    <3>1. Before(c, text, 1) = 0
      BY BeforeFacts
    <3> QED BY <3>1 DEF rest, Minus
  <2>3. h(1) = Drop(x, len)
    BY <2>2, <1>3 DEF h
  <2> QED BY <2>1, <2>3, <1>3, <1>4
<1> HIDE DEF f
<1>12. Spelled(text2, e, Drop(x, len))
  BY <1>10, <1>11 DEF Spelled
<1>13. y = Drop(x, len)
  <2> DEFINE z == Drop(x, len)
  <2> HIDE DEF z
  <2>1. Spelled(text2, e, z)
    BY <1>12 DEF z
  <2>2. y = z
    BY <2>1, <1>2, SpelledOnce
  <2> QED BY <2>2 DEF z
<1> QED BY <1>11, <1>13

----------------------------------------------------------------------------
\* What the streams hold, step by step.

Holds(s) == Text(Tops[s])

\* It is what is spelled by the nodes of the stream.
LEMMA HoldsBy ==
    ASSUME NEW s
    PROVE  Holds(s) = TextBy(mbnext, mbtext, Tops[s]) /\ Holds(s)' = TextBy(mbnext', mbtext', Tops'[s])
<1>1. Holds(s) = TextBy(mbnext, mbtext, Tops[s])
  BY Zenon DEF Holds, Text, TextBy
<1>2. Holds(s)' = TextBy(mbnext', mbtext', Tops'[s])
  BY Zenon DEF Holds, Text, TextBy
<1> QED BY <1>1, <1>2

\* A stream that has no node holds nothing.
LEMMA NothingHeld ==
    ASSUME NEW next \in Links, NEW text
    PROVE  TextBy(next, text, 0) = <<>>
<1> DEFINE z == 0
           c == <<>>
<1>1. Leads(next, z, c) /\ Len(c) = 0
  BY DEF Leads
<1> DEFINE x == TextBy(next, text, z)
<1> HIDE DEF z, c
<1>2. Spelled(text, c, x)
  BY <1>1, TextSpelled
<1> HIDE DEF x
<1>3. x = <<>>
  BY <1>1, <1>2 DEF Spelled, Spells
<1> QED BY <1>3 DEF x, z

\* A stream whose nodes and what they hold stay as they are holds what it held.
LEMMA HeldAsBefore ==
    ASSUME NEW next \in Links, NEW text, NEW next2 \in Links, NEW text2, NEW top, NEW c, Leads(next, top, c),
           \A n \in Nodes : On(c, n) => next2[n] = next[n] /\ text2[n] = text[n]
    PROVE  TextBy(next2, text2, top) = TextBy(next, text, top)
<1> DEFINE x == TextBy(next, text, top)
           y == TextBy(next2, text2, top)
<1>1. c \in Seq(Nodes) /\ \A k \in 1 .. Len(c) : c[k] \in Nodes /\ On(c, c[k])
  BY PathFacts DEF Leads
<1>2. Leads(next2, top, c)
  BY LeadsOn
<1>3. Spelled(text, c, x)
  BY TextSpelled
<1>4. Spelled(text2, c, y)
  BY <1>2, TextSpelled
<1> HIDE DEF x, y
<1>5. \A k \in 1 .. Len(c) : text2[c[k]] = text[c[k]]
  BY <1>1
<1>6. Spelled(text2, c, x)
  BY <1>3, <1>5, SpelledSame
<1>7. x = y
  BY <1>1, <1>4, <1>6, SpelledOnce
<1> QED BY <1>7 DEF x, y

\* The stream that grows holds what it held and more behind it.
LEMMA AppendHolds ==
    ASSUME Inductive, NEW s \in Sides, Tops[s] # 0, NEW data \in Seq(Bytes),
           appendMemBufList(Tops[s], data), UNCHANGED con
    PROVE  /\ GoesOn(Holds(s), Holds(s)')
           /\ \A t \in Sides : t # s => Holds(t)' = Holds(t)
<1> DEFINE top == Tops
<1>1. PICK P : Held(Sides, top, P, mbused, mbnext, mbtext)
  BY DEF Inductive, Kept
<1>2. Pool(mbused, mbnext, mbtext, mbuse) /\ top[s] # 0 /\ appendMemBufList(top[s], data)
  BY DEF Inductive, Pooled
<1>3. top' = top
  BY SidesStay
<1>4. \A t \in Sides : Holds(t) = TextBy(mbnext, mbtext, top[t]) /\ Holds(t)' = TextBy(mbnext', mbtext', top[t])
  BY <1>3, HoldsBy
<1> HIDE DEF top
<1>5. Pool(mbused', mbnext', mbtext', mbuse')
      /\ \E Q : Held(Sides, top, Q, mbused', mbnext', mbtext') /\ Grown(Sides, s, P, Q, mbtext, mbtext')
  BY <1>1, <1>2, AppendKeeps
<1>6. PICK Q : Held(Sides, top, Q, mbused', mbnext', mbtext') /\ Grown(Sides, s, P, Q, mbtext, mbtext')
  BY <1>5
<1>7. mbnext \in Links /\ mbtext \in [Nodes -> Seq(Bytes)] /\ mbnext' \in Links /\ mbtext' \in [Nodes -> Seq(Bytes)]
  BY <1>2, <1>5 DEF Pool
<1>8. ASSUME NEW t \in Sides
      PROVE  /\ P[t] \in Seq(Nodes) /\ Spelled(mbtext, P[t], TextBy(mbnext, mbtext, top[t]))
             /\ Q[t] \in Seq(Nodes) /\ Spelled(mbtext', Q[t], TextBy(mbnext', mbtext', top[t]))
  <2>1. Leads(mbnext, top[t], P[t]) /\ Leads(mbnext', top[t], Q[t])
    BY <1>1, <1>6 DEF Held, Paths
  <2>2. Spelled(mbtext, P[t], TextBy(mbnext, mbtext, top[t]))
    BY <2>1, <1>7, TextSpelled
  <2>3. Spelled(mbtext', Q[t], TextBy(mbnext', mbtext', top[t]))
    BY <2>1, <1>7, TextSpelled
  <2> QED BY <2>1, <2>2, <2>3 DEF Leads
<1>9. ASSUME NEW t \in Sides, t # s PROVE Holds(t)' = Holds(t)
  <2>1. Q[t] = P[t] /\ \A k \in 1 .. Len(P[t]) : mbtext'[P[t][k]] = mbtext[P[t][k]]
    BY <1>6, <1>9 DEF Grown, Others
  <2> DEFINE x == TextBy(mbnext, mbtext, top[t])
             y == TextBy(mbnext', mbtext', top[t])
             c == P[t]
  <2>2. c \in Seq(Nodes) /\ Spelled(mbtext, c, x) /\ Spelled(mbtext', c, y)
        /\ \A k \in 1 .. Len(c) : mbtext'[c[k]] = mbtext[c[k]]
    BY <2>1, <1>8
  <2> HIDE DEF x, y, c
  <2>3. Spelled(mbtext', c, x)
    BY <2>2, SpelledSame
  <2>4. x = y
    BY <2>2, <2>3, SpelledOnce
  <2> QED BY <2>4, <1>4 DEF x, y
<1>10. GoesOn(Holds(s), Holds(s)')
  <2> DEFINE x == TextBy(mbnext, mbtext, top[s])
             y == TextBy(mbnext', mbtext', top[s])
             c == P[s]
             e == Q[s]
  <2>1. PICK d, p : LongerBy(c, e, mbtext, mbtext', d, p)
    BY <1>6 DEF Grown
  <2>2. c # <<>>
    <3>1. Leads(mbnext, top[s], c)
      BY <1>1 DEF Held, Paths
    <3> QED BY <3>1, <1>2 DEF Leads
  <2>3. c \in Seq(Nodes) /\ Spelled(mbtext, c, x) /\ Spelled(mbtext', e, y)
    BY <1>8
  <2> HIDE DEF x, y, c, e
  <2>4. GoesOn(x, y)
    BY <2>1, <2>2, <2>3, <1>7, SpelledLonger
  <2> QED BY <2>4, <1>4 DEF x, y
<1> QED BY <1>9, <1>10

\* The stream that is consumed holds what it held without its first len bytes.
LEMMA ConsumeHolds ==
    ASSUME Inductive, NEW s \in Sides, Tops[s] # 0, NEW len \in Nat,
           consumeMemBufList(Tops[s], len), UNCHANGED con
    PROVE  /\ Holds(s) \in Seq(Bytes) /\ Holds(s)' = Drop(Holds(s), len)
           /\ \A t \in Sides : t # s => Holds(t)' = Holds(t)
<1> DEFINE top == Tops
<1>1. PICK P : Held(Sides, top, P, mbused, mbnext, mbtext)
  BY DEF Inductive, Kept
<1>2. Pool(mbused, mbnext, mbtext, mbuse) /\ top[s] # 0 /\ consumeMemBufList(top[s], len)
  BY DEF Inductive, Pooled
<1>3. top' = top
  BY SidesStay
<1>4. \A t \in Sides : Holds(t) = TextBy(mbnext, mbtext, top[t]) /\ Holds(t)' = TextBy(mbnext', mbtext', top[t])
  BY <1>3, HoldsBy
<1> HIDE DEF top
<1>5. Pool(mbused', mbnext', mbtext', mbuse')
      /\ \E Q : Held(Sides, top, Q, mbused', mbnext', mbtext') /\ Shrunk(Sides, s, P, Q, mbtext, mbtext', len)
  BY <1>1, <1>2, ConsumeKeeps
<1>6. PICK Q : Held(Sides, top, Q, mbused', mbnext', mbtext') /\ Shrunk(Sides, s, P, Q, mbtext, mbtext', len)
  BY <1>5
<1>7. mbnext \in Links /\ mbtext \in [Nodes -> Seq(Bytes)] /\ mbnext' \in Links
  BY <1>2, <1>5 DEF Pool
<1>8. ASSUME NEW t \in Sides
      PROVE  /\ P[t] \in Seq(Nodes) /\ Spelled(mbtext, P[t], TextBy(mbnext, mbtext, top[t]))
             /\ Q[t] \in Seq(Nodes) /\ Spelled(mbtext', Q[t], TextBy(mbnext', mbtext', top[t]))
  <2>1. Leads(mbnext, top[t], P[t]) /\ Leads(mbnext', top[t], Q[t])
    BY <1>1, <1>6 DEF Held, Paths
  <2>2. Spelled(mbtext, P[t], TextBy(mbnext, mbtext, top[t]))
    BY <2>1, <1>7, TextSpelled
  <2>3. Spelled(mbtext', Q[t], TextBy(mbnext', mbtext', top[t]))
    BY <2>1, <1>7, TextSpelled
  <2> QED BY <2>1, <2>2, <2>3 DEF Leads
<1>9. ASSUME NEW t \in Sides, t # s PROVE Holds(t)' = Holds(t)
  <2>1. Q[t] = P[t] /\ \A k \in 1 .. Len(P[t]) : mbtext'[P[t][k]] = mbtext[P[t][k]]
    BY <1>6, <1>9 DEF Shrunk, Others
  <2> DEFINE x == TextBy(mbnext, mbtext, top[t])
             y == TextBy(mbnext', mbtext', top[t])
             c == P[t]
  <2>2. c \in Seq(Nodes) /\ Spelled(mbtext, c, x) /\ Spelled(mbtext', c, y)
        /\ \A k \in 1 .. Len(c) : mbtext'[c[k]] = mbtext[c[k]]
    BY <2>1, <1>8
  <2> HIDE DEF x, y, c
  <2>3. Spelled(mbtext', c, x)
    BY <2>2, SpelledSame
  <2>4. x = y
    BY <2>2, <2>3, SpelledOnce
  <2> QED BY <2>4, <1>4 DEF x, y
<1>10. Holds(s) \in Seq(Bytes) /\ Holds(s)' = Drop(Holds(s), len)
  <2> DEFINE x == TextBy(mbnext, mbtext, top[s])
             y == TextBy(mbnext', mbtext', top[s])
             c == P[s]
             e == Q[s]
  <2>1. PICK m : ShorterBy(c, e, mbtext, mbtext', len, m)
    BY <1>6 DEF Shrunk
  <2>2. c \in Seq(Nodes) /\ Spelled(mbtext, c, x) /\ Spelled(mbtext', e, y)
    BY <1>8
  <2> HIDE DEF x, y, c, e
  <2>3. x \in Seq(Bytes) /\ y = Drop(x, len)
    BY <2>1, <2>2, <1>7, SpelledShorter
  <2> QED BY <2>3, <1>4 DEF x, y
<1> QED BY <1>9, <1>10

\* The streams of a connection that is closed hold nothing, the others what they held.
LEMMA CloseHolds ==
    ASSUME Inductive, NEW i \in Conns, CloseStream(i)
    PROVE  /\ Holds(<<i, "ri">>)' = <<>> /\ Holds(<<i, "wi">>)' = <<>>
           /\ \A s \in Sides : s # <<i, "ri">> /\ s # <<i, "wi">> => Holds(s)' = Holds(s)
<1> DEFINE r == <<i, "ri">>
           w == <<i, "wi">>
<1>1. PICK P : Held(Sides, Tops, P, mbused, mbnext, mbtext)
  BY DEF Inductive, Kept
<1>2. Pool(mbused, mbnext, mbtext, mbuse) /\ BothOrNone /\ mbnext \in Links
  BY DEF Inductive, Pooled, Pool
<1>3. mbnext' \in Links
  BY CloseStep DEF Pooled, Pool
<1>4. Tops'[r] = 0 /\ Tops'[w] = 0 /\ \A s \in Sides : s # r /\ s # w => Tops'[s] = Tops[s]
  <2> DEFINE c == Free
  <2>1. con' = [con EXCEPT ![i] = c] /\ c.ri = 0 /\ c.wi = 0
    BY DEF CloseStream, Free
  <2> HIDE DEF c
  <2> QED BY <2>1, <1>2, SidesChange
<1>5. r \in Sides /\ w \in Sides /\ Tops[r] = con[i].ri /\ Tops[w] = con[i].wi
  BY TwoSides
<1> HIDE DEF r, w
<1>6. TextBy(mbnext', mbtext', 0) = <<>>
  BY <1>3, NothingHeld
<1>7. Holds(r)' = <<>> /\ Holds(w)' = <<>>
  <2>1. Holds(r)' = TextBy(mbnext', mbtext', Tops'[r])
    BY HoldsBy
  <2>2. Holds(w)' = TextBy(mbnext', mbtext', Tops'[w])
    BY HoldsBy
  <2> QED BY <2>1, <2>2, <1>4, <1>6
<1>8. ASSUME NEW s \in Sides, s # r, s # w PROVE Holds(s)' = Holds(s)
  <2> DEFINE top == Tops[s]
             c == P[s]
  <2>1. Leads(mbnext, top, c)
    BY <1>1 DEF Held, Paths
  <2>2. ASSUME NEW n \in Nodes, On(c, n) PROVE mbnext'[n] = mbnext[n] /\ mbtext'[n] = mbtext[n]
    <3> DEFINE nodes == Range(Chain(con[i].ri)) \cup Range(Chain(con[i].wi))
    <3>1. Chain(Tops[r]) = P[r] /\ Range(P[r]) = NodesOf(P[r])
          /\ Chain(Tops[w]) = P[w] /\ Range(P[w]) = NodesOf(P[w])
      BY <1>1, <1>5, OpenSides
    <3>2. ~ On(P[r], n) /\ ~ On(P[w], n)
      BY <2>2, <1>1, <1>5, <1>8 DEF Held, Apart
    <3>3. n \notin nodes
      BY <3>1, <3>2, <1>5 DEF NodesOf
    <3>4. mbtext' = [m \in Nodes |-> IF m \in nodes THEN <<>> ELSE mbtext[m]]
          /\ mbnext' = [m \in Nodes |-> IF m \in nodes THEN 0 ELSE mbnext[m]]
      BY DEF CloseStream
    <3> HIDE DEF nodes
    <3> QED BY <3>3, <3>4
  <2> HIDE DEF top, c
  <2>3. TextBy(mbnext', mbtext', top) = TextBy(mbnext, mbtext, top)
    BY <2>1, <2>2, <1>2, <1>3, HeldAsBefore
  <2>4. Tops'[s] = top
    BY <1>4, <1>8 DEF top
  <2>5. Holds(s) = TextBy(mbnext, mbtext, Tops[s]) /\ Holds(s)' = TextBy(mbnext', mbtext', Tops'[s])
    BY HoldsBy
  <2> QED BY <2>3, <2>4, <2>5 DEF top
<1> QED BY <1>7, <1>8 DEF r, w

\* The streams of a connection that is accepted hold nothing yet.
LEMMA AcceptHolds ==
    ASSUME Inductive, NEW i \in Conns, Accept1(i)
    PROVE  \A s \in Sides : Holds(s)' = Holds(s)
<1> DEFINE r == <<i, "ri">>
           w == <<i, "wi">>
<1>1. PICK new \in BlankMemBufs(2) :
        con' = [con EXCEPT ![i] = [use |-> TRUE, ri |-> new[1], wi |-> new[2], eof |-> FALSE]]
  BY DEF Accept1
<1> DEFINE m == new[1]
           n == new[2]
<1>2. m \in Nodes /\ n \in Nodes /\ m \notin mbused /\ n \notin mbused
  <2>1. 1 \in 1 .. 2 /\ 2 \in 1 .. 2
    OBVIOUS
  <2> QED BY <2>1 DEF BlankMemBufs
<1>3. mbnext' = mbnext /\ mbtext' = mbtext /\ con[i].ri = 0 /\ con[i].wi = 0
      /\ mbnext \in Links /\ BothOrNone
  BY DEF Accept1, Inductive, BothOrNone, Pooled, Pool
<1>4. r \in Sides /\ w \in Sides /\ Tops[r] = 0 /\ Tops[w] = 0
  BY <1>3, TwoSides
<1>5. /\ Tops'[r] = m /\ Tops'[w] = n
      /\ \A s \in Sides : s # r /\ s # w => Tops'[s] = Tops[s]
  <2> DEFINE c == [use |-> TRUE, ri |-> m, wi |-> n, eof |-> FALSE]
  <2>1. con' = [con EXCEPT ![i] = c]
    BY <1>1
  <2>2. c.ri = m /\ c.wi = n
    OBVIOUS
  <2> HIDE DEF c, m, n
  <2>3. Tops'[r] = c.ri /\ Tops'[w] = c.wi /\ \A s \in Sides : s # r /\ s # w => Tops'[s] = Tops[s]
    BY <2>1, <1>3, SidesChange
  <2> QED BY <2>2, <2>3
<1> HIDE DEF m, n, r, w
<1>6. ASSUME NEW k \in Nodes, k \notin mbused PROVE TextBy(mbnext, mbtext, k) = <<>>
  <2> DEFINE c == <<k>>
             x == TextBy(mbnext, mbtext, k)
  <2>1. mbnext[k] = 0 /\ mbtext[k] = <<>>
    BY <1>6 DEF Inductive, Kept, Held, Clean
  <2>2. Leads(mbnext, k, c) /\ Len(c) = 1 /\ c[1] = k
    BY <2>1 DEF Leads
  <2> HIDE DEF c, x
  <2>3. Spelled(mbtext, c, x)
    BY <2>2, <1>3, TextSpelled DEF x
  <2>4. PICK g : Spells(g, mbtext, c) /\ g[1] = x
    BY <2>3 DEF Spelled
  <2>5. g[2] = <<>> /\ g[1] = mbtext[k] \o g[2]
    <3>1. 1 \in 1 .. 1 /\ 1 + 1 = 2
      OBVIOUS
    <3> QED BY <3>1, <2>2, <2>4 DEF Spells
  <2>6. g[1] = <<>> \o <<>>
    BY <2>1, <2>5
  <2>7. <<>> \o <<>> = <<>>
    OBVIOUS
  <2> QED BY <2>4, <2>6, <2>7 DEF x
<1>7. TextBy(mbnext, mbtext, 0) = <<>>
  BY <1>3, NothingHeld
<1>8. ASSUME NEW s \in Sides PROVE Holds(s)' = Holds(s)
  <2>1. Holds(s) = TextBy(mbnext, mbtext, Tops[s]) /\ Holds(s)' = TextBy(mbnext, mbtext, Tops'[s])
    BY <1>3, HoldsBy
  <2>2. CASE s = r
    BY <2>1, <2>2, <1>2, <1>4, <1>5, <1>6, <1>7
  <2>3. CASE s = w
    BY <2>1, <2>3, <1>2, <1>4, <1>5, <1>6, <1>7
  <2>4. CASE s # r /\ s # w
    BY <2>1, <2>4, <1>5
  <2> QED BY <2>2, <2>3, <2>4
<1> QED BY <1>8

----------------------------------------------------------------------------
\* The streams, as StreamsOf sees them.

Received == [i \in Conns |-> IF Open(i) THEN Text(con[i].ri) ELSE <<>>]
Written  == [i \in Conns |-> IF Open(i) THEN Text(con[i].wi) ELSE <<>>]

\* What has been received or written of a connection is what its stream holds.
LEMMA WhatIsHeld ==
    ASSUME Inductive, NEW i \in Conns
    PROVE  Received[i] = Holds(<<i, "ri">>) /\ Written[i] = Holds(<<i, "wi">>)
<1>1. Tops[<<i, "ri">>] = con[i].ri /\ Tops[<<i, "wi">>] = con[i].wi
  BY TwoSides
<1>2. Received[i] = (IF Open(i) THEN Text(con[i].ri) ELSE <<>>)
      /\ Written[i] = (IF Open(i) THEN Text(con[i].wi) ELSE <<>>)
  BY DEF Received, Written
<1>3. CASE Open(i)
  BY <1>1, <1>2, <1>3 DEF Holds
<1>4. CASE ~ Open(i)
  <2>1. con[i].ri = 0 /\ con[i].wi = 0 /\ mbnext \in Links
    BY <1>4 DEF Inductive, BothOrNone, Open, Pooled, Pool
  <2>2. TextBy(mbnext, mbtext, 0) = <<>>
    BY <2>1, NothingHeld
  <2>3. Holds(<<i, "ri">>) = <<>>
    <3>1. Holds(<<i, "ri">>) = TextBy(mbnext, mbtext, Tops[<<i, "ri">>])
      BY HoldsBy
    <3> QED BY <3>1, <1>1, <2>1, <2>2
  <2>4. Holds(<<i, "wi">>) = <<>>
    <3>1. Holds(<<i, "wi">>) = TextBy(mbnext, mbtext, Tops[<<i, "wi">>])
      BY HoldsBy
    <3> QED BY <3>1, <1>1, <2>1, <2>2
  <2> QED BY <2>3, <2>4, <1>2, <1>4
<1> QED BY <1>3, <1>4

\* The same of the next state.
LEMMA WhatWillBeHeld ==
    ASSUME Inductive', NEW i \in Conns
    PROVE  Received'[i] = Holds(<<i, "ri">>)' /\ Written'[i] = Holds(<<i, "wi">>)'
<1>0. <<i, "ri">> \in Sides /\ <<i, "wi">> \in Sides
  BY TwoSides
<1>1. Tops'[<<i, "ri">>] = con'[i].ri /\ Tops'[<<i, "wi">>] = con'[i].wi
  BY <1>0 DEF Tops
<1>2. Received'[i] = (IF Open(i)' THEN Text(con[i].ri)' ELSE <<>>)
      /\ Written'[i] = (IF Open(i)' THEN Text(con[i].wi)' ELSE <<>>)
  BY DEF Received, Written
<1>3. CASE Open(i)'
  <2>1. Holds(<<i, "ri">>)' = TextBy(mbnext', mbtext', Tops'[<<i, "ri">>])
    BY HoldsBy
  <2>2. Holds(<<i, "wi">>)' = TextBy(mbnext', mbtext', Tops'[<<i, "wi">>])
    BY HoldsBy
  <2>3. Text(con[i].ri)' = TextBy(mbnext', mbtext', con'[i].ri)
    BY Zenon DEF Text, TextBy
  <2>4. Text(con[i].wi)' = TextBy(mbnext', mbtext', con'[i].wi)
    BY Zenon DEF Text, TextBy
  <2> QED BY <2>1, <2>2, <2>3, <2>4, <1>1, <1>2, <1>3
<1>4. CASE ~ Open(i)'
  <2>1. con'[i].ri = 0 /\ con'[i].wi = 0 /\ mbnext' \in Links
    BY <1>4 DEF Inductive, BothOrNone, Open, Pooled, Pool
  <2>2. TextBy(mbnext', mbtext', 0) = <<>>
    BY <2>1, NothingHeld
  <2>3. Holds(<<i, "ri">>)' = <<>>
    <3>1. Holds(<<i, "ri">>)' = TextBy(mbnext', mbtext', Tops'[<<i, "ri">>])
      BY HoldsBy
    <3> QED BY <3>1, <1>1, <2>1, <2>2
  <2>4. Holds(<<i, "wi">>)' = <<>>
    <3>1. Holds(<<i, "wi">>)' = TextBy(mbnext', mbtext', Tops'[<<i, "wi">>])
      BY HoldsBy
    <3> QED BY <3>1, <1>1, <2>1, <2>2
  <2> QED BY <2>3, <2>4, <1>2, <1>4
<1> QED BY <1>3, <1>4

\* What stays as it is, but for one stream.
LEMMA OnlyOne ==
    ASSUME NEW q, NEW r, q = [j \in Conns |-> q[j]], r = [j \in Conns |-> r[j]], NEW i \in Conns,
           \A j \in Conns : j # i => r[j] = q[j]
    PROVE  r = [q EXCEPT ![i] = r[i]] /\ StreamsOf!Only(q, r, i)
<1>1. r = [q EXCEPT ![i] = r[i]]
  OBVIOUS
<1> QED BY <1>1 DEF StreamsOf!Only

\* Both are functions.
LEMMA AsFunctions ==
           /\ Received = [j \in Conns |-> Received[j]] /\ Received' = [j \in Conns |-> Received'[j]]
           /\ Written = [j \in Conns |-> Written[j]] /\ Written' = [j \in Conns |-> Written'[j]]
BY DEF Received, Written

\* All streams hold what they held.
LEMMA NothingChanges ==
    ASSUME Inductive, Inductive', \A s \in Sides : Holds(s)' = Holds(s)
    PROVE  Received' = Received /\ Written' = Written
<1>1. ASSUME NEW i \in Conns PROVE Received'[i] = Received[i] /\ Written'[i] = Written[i]
  <2>1. <<i, "ri">> \in Sides /\ <<i, "wi">> \in Sides
    BY TwoSides
  <2> QED BY <2>1, WhatIsHeld, WhatWillBeHeld
<1> DEFINE q == Received
           r == Received'
           v == Written
           w == Written'
<1>2. q = [j \in Conns |-> q[j]] /\ r = [j \in Conns |-> r[j]]
      /\ v = [j \in Conns |-> v[j]] /\ w = [j \in Conns |-> w[j]]
  BY AsFunctions
<1>3. \A j \in Conns : r[j] = q[j] /\ w[j] = v[j]
  BY <1>1
<1> HIDE DEF q, r, v, w
<1>4. r = q /\ w = v
  BY <1>2, <1>3
<1> QED BY <1>4 DEF q, r, v, w

\* One stream changes: what is received, or what is written.
LEMMA OneChangesIn ==
    ASSUME Inductive, Inductive', NEW i \in Conns,
           \A s \in Sides : s # <<i, "ri">> => Holds(s)' = Holds(s)
    PROVE  Written' = Written /\ StreamsOf!Only(Received, Received', i)
<1>1. ASSUME NEW j \in Conns PROVE Written'[j] = Written[j] /\ (j # i => Received'[j] = Received[j])
  <2>1. <<j, "ri">> \in Sides /\ <<j, "wi">> \in Sides /\ <<j, "wi">> # <<i, "ri">> /\ (j # i => <<j, "ri">> # <<i, "ri">>)
    BY TwoSides
  <2> QED BY <2>1, WhatIsHeld, WhatWillBeHeld
<1> DEFINE q == Received
           r == Received'
           v == Written
           w == Written'
<1>2. q = [j \in Conns |-> q[j]] /\ r = [j \in Conns |-> r[j]]
      /\ v = [j \in Conns |-> v[j]] /\ w = [j \in Conns |-> w[j]]
  BY AsFunctions
<1>3. \A j \in Conns : w[j] = v[j] /\ (j # i => r[j] = q[j])
  BY <1>1
<1> HIDE DEF q, r, v, w
<1>4. w = v
  BY <1>2, <1>3
<1>5. \A j \in Conns : j # i => r[j] = q[j]
  BY <1>3
<1>6. StreamsOf!Only(q, r, i)
  BY <1>2, <1>5, OnlyOne
<1> QED BY <1>4, <1>6 DEF q, r, v, w

\* When one outgoing stream changes, nothing received changes, nor what others have written.
LEMMA OneChangesOut ==
    ASSUME Inductive, Inductive', NEW i \in Conns,
           \A s \in Sides : s # <<i, "wi">> => Holds(s)' = Holds(s)
    PROVE  Received' = Received /\ StreamsOf!Only(Written, Written', i)
<1>1. ASSUME NEW j \in Conns PROVE Received'[j] = Received[j] /\ (j # i => Written'[j] = Written[j])
  <2>1. <<j, "ri">> \in Sides /\ <<j, "wi">> \in Sides /\ <<j, "ri">> # <<i, "wi">> /\ (j # i => <<j, "wi">> # <<i, "wi">>)
    BY TwoSides
  <2> QED BY <2>1, WhatIsHeld, WhatWillBeHeld
<1> DEFINE q == Received
           r == Received'
           v == Written
           w == Written'
<1>2. q = [j \in Conns |-> q[j]] /\ r = [j \in Conns |-> r[j]]
      /\ v = [j \in Conns |-> v[j]] /\ w = [j \in Conns |-> w[j]]
  BY AsFunctions
<1>3. \A j \in Conns : r[j] = q[j] /\ (j # i => w[j] = v[j])
  BY <1>1
<1> HIDE DEF q, r, v, w
<1>4. r = q
  BY <1>2, <1>3
<1>5. \A j \in Conns : j # i => w[j] = v[j]
  BY <1>3
<1>6. StreamsOf!Only(v, w, i)
  BY <1>2, <1>5, OnlyOne
<1> QED BY <1>4, <1>6 DEF q, r, v, w

\* Both streams of a connection are emptied.
LEMMA BothEmpty ==
    ASSUME Inductive, Inductive', NEW i \in Conns,
           Holds(<<i, "ri">>)' = <<>>, Holds(<<i, "wi">>)' = <<>>,
           \A s \in Sides : s # <<i, "ri">> /\ s # <<i, "wi">> => Holds(s)' = Holds(s)
    PROVE  StreamsOf!Empties(Received, Received', i) /\ StreamsOf!Empties(Written, Written', i)
<1>1. ASSUME NEW j \in Conns
      PROVE  IF j = i THEN Received'[j] = <<>> /\ Written'[j] = <<>>
             ELSE Received'[j] = Received[j] /\ Written'[j] = Written[j]
  <2>1. <<j, "ri">> \in Sides /\ <<j, "wi">> \in Sides
        /\ (j # i => <<j, "ri">> # <<i, "ri">> /\ <<j, "ri">> # <<i, "wi">>
                  /\ <<j, "wi">> # <<i, "ri">> /\ <<j, "wi">> # <<i, "wi">>)
    BY TwoSides
  <2> QED BY <2>1, WhatIsHeld, WhatWillBeHeld
<1> DEFINE q == Received
           r == Received'
           v == Written
           w == Written'
<1>2. q = [j \in Conns |-> q[j]] /\ r = [j \in Conns |-> r[j]]
      /\ v = [j \in Conns |-> v[j]] /\ w = [j \in Conns |-> w[j]]
  BY AsFunctions
<1>3. \A j \in Conns : IF j = i THEN r[j] = <<>> /\ w[j] = <<>> ELSE r[j] = q[j] /\ w[j] = v[j]
  BY <1>1
<1> HIDE DEF q, r, v, w
<1>4. r = [q EXCEPT ![i] = <<>>]
  BY <1>2, <1>3
<1>5. w = [v EXCEPT ![i] = <<>>]
  BY <1>2, <1>3
<1> QED BY <1>4, <1>5 DEF StreamsOf!Empties, q, r, v, w

----------------------------------------------------------------------------
\* How texts grow and shrink, as Streams says it.

\* A text that goes on has the former one in front of it.
LEMMA GoesOnIsPrefix ==
    ASSUME NEW x, NEW y, GoesOn(x, y)
    PROVE  IsPrefix(x, y)
<1>1. PICK z \in Seq(Bytes) : y = x \o z
  BY DEF GoesOn
<1>2. x \in Seq(Bytes) /\ Len(x) \in Nat /\ Len(z) \in Nat
  BY LenProperties DEF GoesOn
<1>3. y \in Seq(Bytes) /\ Len(y) = Len(x) + Len(z)
      /\ \A i \in 1 .. Len(x) + Len(z) : y[i] = IF i <= Len(x) THEN x[i] ELSE z[i - Len(x)]
  BY <1>1, <1>2, ConcatProperties
<1>4. Len(x) <= Len(y)
  BY <1>2, <1>3
<1>5. SubSeq(x, 1, Len(x)) = x
  BY <1>2, SubSeqFull
<1> DEFINE u == SubSeq(y, 1, Len(x))
           n == Len(x)
           one == 1
<1>6. u \in Seq(Bytes) /\ Len(u) = Len(x) /\ \A i \in 1 .. Len(x) : u[i] = x[i]
  <2>1. n \in Nat /\ one \in Int /\ one = 1 /\ (\A i \in one .. n : y[i] \in Bytes /\ y[i] = x[i])
    <3>1. \A i \in 1 .. Len(x) : x[i] \in Bytes
      BY <1>2, ElementOfSeq
    <3> QED BY <3>1, <1>2, <1>3
  <2> HIDE DEF n, one
  <2>2. /\ SubSeq(y, one, n) \in Seq(Bytes)
        /\ Len(SubSeq(y, one, n)) = IF one <= n THEN n - one + 1 ELSE 0
        /\ \A i \in 1 .. n - one + 1 : SubSeq(y, one, n)[i] = y[one + i - 1]
    BY <2>1, SubSeqProperties
  <2>3. /\ SubSeq(y, 1, n) \in Seq(Bytes) /\ Len(SubSeq(y, 1, n)) = n
        /\ \A i \in 1 .. n : SubSeq(y, 1, n)[i] = x[i]
    BY <2>1, <2>2
  <2> QED BY <2>3 DEF n
<1> HIDE DEF u
<1>7. u = x
  BY <1>2, <1>6, SeqEqual
<1> QED BY <1>4, <1>5, <1>7 DEF IsPrefix, u

\* What is left is a suffix.
LEMMA DropIsSuffix ==
    ASSUME NEW x \in Seq(Bytes), NEW n \in Nat
    PROVE  IsSuffix(Drop(x, n), x)
<1> DEFINE y == Drop(x, n)
           M == Len(y)
           L == Len(x)
           a == Reverse(y)
           b == Reverse(x)
           u == SubSeq(b, 1, M)
<1>1. y \in Seq(Bytes) /\ M = Minus(L, n) /\ L \in Nat /\ \A i \in 1 .. Minus(L, n) : y[i] = x[n + i]
  BY DropFacts
<1>2. (\A i \in 1 .. L : x[i] \in Bytes) /\ M \in Nat /\ M <= L /\ (M # 0 => L = n + M)
  BY <1>1, ElementOfSeq DEF Minus
<1>3. \A i \in 1 .. M : y[i] \in Bytes
  BY <1>1, <1>2, ElementOfSeq
<1> HIDE DEF y, M, L
<1>4. a \in Seq(Bytes) /\ Len(a) = M /\ \A i \in 1 .. M : a[i] = y[(M - i) + 1]
  <2>1. a = [i \in 1 .. M |-> y[(M - i) + 1]]
    BY DEF Reverse, M
  <2>2. \A i \in 1 .. M : (M - i) + 1 \in 1 .. M
    BY <1>2
  <2>3. \A i \in 1 .. M : y[(M - i) + 1] \in Bytes
    BY <2>2, <1>3
  <2>4. M \in Nat
    BY <1>2
  <2> HIDE DEF a
  <2> QED BY <2>1, <2>3, <2>4
<1>5. b \in Seq(Bytes) /\ Len(b) = L /\ \A i \in 1 .. L : b[i] = x[(L - i) + 1]
  <2>1. b = [i \in 1 .. L |-> x[(L - i) + 1]]
    BY DEF Reverse, L
  <2>2. \A i \in 1 .. L : (L - i) + 1 \in 1 .. L
    BY <1>1
  <2>3. \A i \in 1 .. L : x[(L - i) + 1] \in Bytes
    BY <2>2, <1>2
  <2> HIDE DEF b
  <2> QED BY <2>1, <2>3, <1>1
<1> HIDE DEF a, b
<1>6. u \in Seq(Bytes) /\ Len(u) = M /\ \A i \in 1 .. M : u[i] = b[i]
  <2> DEFINE one == 1
  <2>1. M \in Int /\ one \in Int /\ one = 1 /\ \A i \in one .. M : b[i] \in Bytes
    BY <1>1, <1>2, <1>5, ElementOfSeq
  <2> HIDE DEF one
  <2>2. /\ SubSeq(b, one, M) \in Seq(Bytes)
        /\ Len(SubSeq(b, one, M)) = IF one <= M THEN M - one + 1 ELSE 0
        /\ \A i \in 1 .. M - one + 1 : SubSeq(b, one, M)[i] = b[one + i - 1]
    BY <2>1, SubSeqProperties
  <2> QED BY <2>1, <2>2, <1>2
<1> HIDE DEF u
<1>7. ASSUME NEW i \in 1 .. M PROVE u[i] = a[i]
  <2>0. M \in Nat /\ M # 0 /\ M <= L /\ L \in Nat
    BY <1>1, <1>2
  <2>01. L = n + M
    BY <1>2, <2>0
  <2>1. (M - i) + 1 \in 1 .. M /\ i \in 1 .. L /\ n + ((M - i) + 1) = (L - i) + 1
    BY <2>0, <2>01
  <2>2. y[(M - i) + 1] = x[n + ((M - i) + 1)]
    BY <2>1, <1>1 DEF M, L
  <2> QED BY <2>1, <2>2, <1>4, <1>5, <1>6
<1>8. u = a
  BY <1>4, <1>6, <1>7, SeqEqual
<1>9. SubSeq(a, 1, Len(a)) = a
  BY <1>4, SubSeqFull
<1>10. IsPrefix(a, b)
  BY <1>2, <1>4, <1>5, <1>8, <1>9 DEF IsPrefix, u
<1> QED BY <1>10 DEF IsSuffix, a, b, y

----------------------------------------------------------------------------
\* Every step is one of the streams.

StreamStep == StreamsOf!Step(Received, Received', Written, Written')

\* One stream that goes on, and no other that changes, is growth as Streams says it.
LEMMA GrowsIn ==
    ASSUME NEW q, NEW r, NEW i, StreamsOf!Only(q, r, i), IsPrefix(q[i], r[i])
    PROVE  StreamsOf!Grows(q, r, i)
BY DEF StreamsOf!Grows, StreamsOf!IsPrefix, IsPrefix

\* One stream that loses bytes in front, and no other that changes, is Shrinks of Streams.
LEMMA ShrinksIn ==
    ASSUME NEW q, NEW r, NEW i, StreamsOf!Only(q, r, i), IsSuffix(r[i], q[i])
    PROVE  StreamsOf!Shrinks(q, r, i)
BY DEF StreamsOf!Shrinks, StreamsOf!IsSuffix, StreamsOf!IsPrefix, StreamsOf!Reverse, IsSuffix, IsPrefix, Reverse

\* Both streams of one connection are emptied.
LEMMA EmptiesBoth ==
    ASSUME NEW q, NEW r, NEW v, NEW w, NEW i \in Conns, StreamsOf!Empties(q, r, i), StreamsOf!Empties(v, w, i)
    PROVE  StreamsOf!Step(q, r, v, w)
BY DEF StreamsOf!Step

\* Something is received.
LEMMA ReadStreamHolds ==
    ASSUME Inductive, Inductive', NEW i \in Conns, ReadStream(i)
    PROVE  StreamStep
<1> DEFINE s == <<i, "ri">>
<1>1. s \in Sides /\ Tops[s] = con[i].ri /\ Tops[s] # 0 /\ UNCHANGED con
  BY TwoSides DEF ReadStream, Open
<1>2. PICK data \in Seq(Bytes) : appendMemBufList(Tops[s], data)
  <2>1. PICK n \in 1 .. MaxPiece : \E data \in [1 .. n -> Bytes] : appendMemBufList(con[i].ri, data)
    BY DEF ReadStream
  <2>2. PICK data \in [1 .. n -> Bytes] : appendMemBufList(con[i].ri, data)
    BY <2>1
  <2>3. n \in Nat
    BY BufferAssumption
  <2>4. data \in Seq(Bytes)
    BY <2>3
  <2>5. appendMemBufList(Tops[s], data)
    BY <2>2, <1>1
  <2> QED BY <2>4, <2>5
<1> HIDE DEF s
<1>3. GoesOn(Holds(s), Holds(s)') /\ \A t \in Sides : t # s => Holds(t)' = Holds(t)
  BY <1>1, <1>2, AppendHolds
<1>4. Written' = Written /\ StreamsOf!Only(Received, Received', i)
  BY <1>3, OneChangesIn DEF s
<1>5. Received[i] = Holds(s) /\ Received'[i] = Holds(s)'
  BY WhatIsHeld, WhatWillBeHeld DEF s
<1>6. IsPrefix(Received[i], Received'[i])
  <2> DEFINE x == Received[i]
             y == Received'[i]
  <2>1. GoesOn(x, y)
    BY <1>3, <1>5
  <2> HIDE DEF x, y
  <2>2. IsPrefix(x, y)
    BY <2>1, GoesOnIsPrefix
  <2> QED BY <2>2 DEF x, y
<1>7. StreamsOf!Grows(Received, Received', i)
  BY <1>4, <1>6, GrowsIn
<1> QED BY <1>4, <1>7 DEF StreamStep, StreamsOf!Step

\* Something is written.
LEMMA netWriteHolds ==
    ASSUME Inductive, Inductive', NEW i \in Conns, netWrite(i)
    PROVE  StreamStep
<1> DEFINE s == <<i, "wi">>
<1>1. s \in Sides /\ Tops[s] = con[i].wi /\ Tops[s] # 0 /\ UNCHANGED con
  BY TwoSides DEF netWrite, Open, Inductive, BothOrNone
<1>2. PICK data \in Seq(Bytes) : appendMemBufList(Tops[s], data)
  <2>1. PICK n \in 1 .. MaxPiece : appendMemBufList(con[i].wi, [k \in 1 .. n |-> "x"])
    BY DEF netWrite
  <2> DEFINE data == [k \in 1 .. n |-> "x"]
  <2>2. n \in Nat
    BY BufferAssumption
  <2>3. data \in Seq(Bytes)
    BY <2>2 DEF Bytes
  <2>4. appendMemBufList(Tops[s], data)
    BY <2>1, <1>1
  <2> QED BY <2>3, <2>4
<1> HIDE DEF s
<1>3. GoesOn(Holds(s), Holds(s)') /\ \A t \in Sides : t # s => Holds(t)' = Holds(t)
  BY <1>1, <1>2, AppendHolds
<1>4. Received' = Received /\ StreamsOf!Only(Written, Written', i)
  BY <1>3, OneChangesOut DEF s
<1>5. Written[i] = Holds(s) /\ Written'[i] = Holds(s)'
  BY WhatIsHeld, WhatWillBeHeld DEF s
<1>6. IsPrefix(Written[i], Written'[i])
  <2> DEFINE x == Written[i]
             y == Written'[i]
  <2>1. GoesOn(x, y)
    BY <1>3, <1>5
  <2> HIDE DEF x, y
  <2>2. IsPrefix(x, y)
    BY <2>1, GoesOnIsPrefix
  <2> QED BY <2>2 DEF x, y
<1>7. StreamsOf!Grows(Written, Written', i)
  BY <1>4, <1>6, GrowsIn
<1> QED BY <1>4, <1>7 DEF StreamStep, StreamsOf!Step

\* Something is sent.
LEMMA WriteStreamHolds ==
    ASSUME Inductive, Inductive', NEW i \in Conns, WriteStream(i)
    PROVE  StreamStep
<1> DEFINE s == <<i, "wi">>
           l == Len(Text(con[i].wi))
           len == IF l < SendSize THEN l ELSE SendSize
<1>1. s \in Sides /\ Tops[s] = con[i].wi /\ Tops[s] # 0 /\ UNCHANGED con
  BY TwoSides DEF WriteStream, Open, Inductive, BothOrNone
<1>2. consumeMemBufList(con[i].wi, len)
  BY DEF WriteStream
<1>3. len \in Nat
  <2>1. l \in Nat
    BY StreamTexts
  <2> HIDE DEF l
  <2> QED BY <2>1, BufferAssumption
<1> HIDE DEF s, len
<1>4. consumeMemBufList(Tops[s], len)
  BY <1>1, <1>2
<1>5. Holds(s) \in Seq(Bytes) /\ Holds(s)' = Drop(Holds(s), len)
      /\ \A t \in Sides : t # s => Holds(t)' = Holds(t)
  BY <1>1, <1>3, <1>4, ConsumeHolds
<1>6. Received' = Received /\ StreamsOf!Only(Written, Written', i)
  BY <1>5, OneChangesOut DEF s
<1>7. Written[i] = Holds(s) /\ Written'[i] = Holds(s)'
  BY WhatIsHeld, WhatWillBeHeld DEF s
<1>8. IsSuffix(Written'[i], Written[i])
  <2> DEFINE x == Holds(s)
  <2>1. x \in Seq(Bytes)
    BY <1>5
  <2> HIDE DEF x
  <2>2. IsSuffix(Drop(x, len), x)
    BY <2>1, <1>3, DropIsSuffix
  <2> QED BY <2>2, <1>5, <1>7 DEF x
<1>9. StreamsOf!Shrinks(Written, Written', i)
  BY <1>6, <1>8, ShrinksIn
<1> QED BY <1>6, <1>9 DEF StreamStep, StreamsOf!Step

\* A connection is closed, or was.
LEMMA tcpstruct_closeHolds ==
    ASSUME Inductive, Inductive', NEW i \in Conns, tcpstruct_close(i)
    PROVE  StreamStep \/ (Received' = Received /\ Written' = Written)
<1>1. CASE con[i].use
  <2>1. CloseStream(i)
    BY <1>1 DEF tcpstruct_close
  <2>2. /\ Holds(<<i, "ri">>)' = <<>> /\ Holds(<<i, "wi">>)' = <<>>
        /\ \A s \in Sides : s # <<i, "ri">> /\ s # <<i, "wi">> => Holds(s)' = Holds(s)
    BY <2>1, CloseHolds
  <2>3. StreamsOf!Empties(Received, Received', i) /\ StreamsOf!Empties(Written, Written', i)
    BY <2>2, BothEmpty
  <2>4. StreamStep
    <3> DEFINE q == Received
               r == Received'
               v == Written
               w == Written'
    <3>1. StreamsOf!Empties(q, r, i) /\ StreamsOf!Empties(v, w, i)
      BY <2>3
    <3> HIDE DEF q, r, v, w
    <3>2. StreamsOf!Step(q, r, v, w)
      BY <3>1, EmptiesBoth
    <3> QED BY <3>2 DEF StreamStep, q, r, v, w
  <2> QED BY <2>4
<1>2. CASE ~ con[i].use
  <2>1. UNCHANGED <<mbused, mbtext, mbnext, mbuse>> /\ con' = con
    BY <1>2 DEF tcpstruct_close, poolVars
  <2>2. Tops' = Tops
    BY <2>1, SidesStay
  <2>3. \A s \in Sides : Holds(s)' = Holds(s)
    BY <2>1, <2>2, HoldsBy
  <2> QED BY <2>3, NothingChanges
<1> QED BY <1>1, <1>2

\* A line is read.
LEMMA ReadLineHolds ==
    ASSUME Inductive, Inductive', NEW i \in Conns, ReadLine(i)
    PROVE  StreamStep \/ (Received' = Received /\ Written' = Written)
<1>1. CASE tcpstruct_close(i)
  BY <1>1, tcpstruct_closeHolds
<1>2. CASE consumeMemBufList(con[i].ri, LineLen(i) + 1) /\ UNCHANGED con
  <2> DEFINE s == <<i, "ri">>
             len == LineLen(i) + 1
             t == Text(con[i].ri)
             e == {k \in DOMAIN t : t[k] = "nl"}
             first == CHOOSE k \in e : \A j \in e : k <= j
  <2>1. s \in Sides /\ Tops[s] = con[i].ri /\ Tops[s] # 0
    BY TwoSides DEF ReadLine, Open
  <2>2. t \in Seq(Bytes) /\ Len(t) \in Nat /\ "nl" \in Range(t)
    BY StreamTexts DEF ReadLine, HasLine
  <2>3. LineLen(i) = IF e = {} THEN Len(t) ELSE first - 1
    BY Zenon DEF LineLen
  <2>4. Holds(s) = t
    BY <2>1 DEF Holds
  <2> HIDE DEF t
  <2>5. e # {} /\ e \in SUBSET (1 .. Len(t)) /\ e \in SUBSET Nat
    BY <2>2 DEF Range
  <2>6. \A k \in 1 .. Len(t) : t[k] = "nl" <=> k \in e
    BY <2>2
  <2> HIDE DEF e
  <2>7. first \in e /\ \A j \in e : first <= j
    <3>1. \E k \in e : \A j \in e : k <= j
      BY <2>5, FirstOfMany
    <3> QED BY <3>1, Zenon
  <2> HIDE DEF first
  <2>8. len = first /\ len \in 1 .. Len(t) /\ len \in Nat
    BY <2>3, <2>5, <2>7
  <2>9. consumeMemBufList(Tops[s], len)
    BY <1>2, <2>1
  <2> HIDE DEF s, len
  <2>10. Holds(s)' = Drop(Holds(s), len) /\ \A u \in Sides : u # s => Holds(u)' = Holds(u)
    BY <1>2, <2>1, <2>8, <2>9, ConsumeHolds
  <2>11. Written' = Written /\ StreamsOf!Only(Received, Received', i)
    BY <2>10, OneChangesIn DEF s
  <2>12. Received[i] = t /\ Received'[i] = Drop(t, len)
    BY <2>4, <2>10, WhatIsHeld, WhatWillBeHeld DEF s
  <2>13. Drop(t, len) = SubSeq(t, len + 1, Len(t))
    <3>1. CASE len = Len(t)
      <4> DEFINE m == len + 1
                 n == Len(t)
      <4>1. m \in Int /\ n \in Int /\ n < m
        BY <3>1, <2>8
      <4> HIDE DEF m, n
      <4>2. SubSeq(t, m, n) = <<>>
        BY <4>1, SubSeqEmpty
      <4> QED BY <4>2, <3>1, <2>8 DEF Drop, m, n
    <3>2. CASE len # Len(t)
      BY <3>2, <2>2, <2>8 DEF Drop
    <3> QED BY <3>1, <3>2
  <2>14. t[len] = "nl" /\ \A m \in 1 .. len - 1 : t[m] # "nl"
    <3>1. t[len] = "nl"
      BY <2>6, <2>7, <2>8
    <3>2. ASSUME NEW m \in 1 .. len - 1 PROVE t[m] # "nl"
      <4>1. m \in 1 .. Len(t) /\ ~ (len <= m)
        BY <2>2, <2>8
      <4> QED BY <4>1, <2>6, <2>7, <2>8
    <3> QED BY <3>1, <3>2
  <2>15. StreamsOf!TakesLine(Received, Received', i)
    BY <2>8, <2>11, <2>12, <2>13, <2>14 DEF StreamsOf!TakesLine
  <2> QED BY <2>11, <2>15 DEF StreamStep, StreamsOf!Step
<1> QED BY <1>1, <1>2 DEF ReadLine

\* Every step is one of the streams, or changes none.
LEMMA NextIsStreamStep ==
    ASSUME Inductive, Inductive', [BufferNext]_bufferVars
    PROVE  StreamStep \/ (Received' = Received /\ Written' = Written)
<1>1. ASSUME UNCHANGED <<mbused, mbtext, mbnext, mbuse>>, Tops' = Tops
      PROVE  Received' = Received /\ Written' = Written
  <2>1. \A s \in Sides : Holds(s)' = Holds(s)
    BY <1>1, HoldsBy
  <2> QED BY <2>1, NothingChanges
<1>2. ASSUME NEW i \in Conns, Accept1(i) PROVE Received' = Received /\ Written' = Written
  <2>1. \A s \in Sides : Holds(s)' = Holds(s)
    BY <1>2, AcceptHolds
  <2> QED BY <2>1, NothingChanges
<1>3. ASSUME NEW i \in Conns, Accept1_Full(i) PROVE Received' = Received /\ Written' = Written
  <2>1. UNCHANGED <<mbused, mbtext, mbnext, mbuse>> /\ Tops' = Tops
    BY <1>3, Accept1_FullStep DEF Accept1_Full, poolVars
  <2> QED BY <2>1, <1>1
<1>4. ASSUME NEW i \in Conns, RemoteClose(i) PROVE Received' = Received /\ Written' = Written
  <2>1. UNCHANGED <<mbused, mbtext, mbnext, mbuse>> /\ Tops' = Tops
    BY <1>4, RemoteCloseStep DEF RemoteClose, poolVars
  <2> QED BY <2>1, <1>1
<1>5. ASSUME NEW i \in Conns, LogoutGameServer(i) PROVE StreamStep \/ (Received' = Received /\ Written' = Written)
  BY <1>5, tcpstruct_closeHolds DEF LogoutGameServer, logout_game_server
<1>6. CASE UNCHANGED bufferVars
  <2>1. UNCHANGED <<mbused, mbtext, mbnext, mbuse>> /\ con' = con
    BY <1>6 DEF bufferVars, poolVars
  <2> QED BY <2>1, <1>1, SidesStay
<1>7. ASSUME NEW i \in Conns, ReadStream(i) PROVE StreamStep
  BY <1>7, ReadStreamHolds
<1>8. ASSUME NEW i \in Conns, netWrite(i) PROVE StreamStep
  BY <1>8, netWriteHolds
<1>9. ASSUME NEW i \in Conns, WriteStream(i) PROVE StreamStep
  BY <1>9, WriteStreamHolds
<1>10. ASSUME NEW i \in Conns, ReadLine(i) PROVE StreamStep \/ (Received' = Received /\ Written' = Written)
  BY <1>10, ReadLineHolds
<1> DEFINE Fine == StreamStep \/ (Received' = Received /\ Written' = Written)
<1>11. CASE BufferNext
  <2>1. PICK i \in Conns : \/ Accept1(i) \/ Accept1_Full(i) \/ ReadStream(i) \/ RemoteClose(i)
                           \/ WriteStream(i) \/ netWrite(i) \/ ReadLine(i) \/ LogoutGameServer(i)
    BY <1>11, Zenon DEF BufferNext
  <2>2. Fine
    <3>1. CASE Accept1(i)
      BY <3>1, <1>2
    <3>2. CASE Accept1_Full(i)
      BY <3>2, <1>3
    <3>3. CASE ReadStream(i)
      BY <3>3, <1>7
    <3>4. CASE RemoteClose(i)
      BY <3>4, <1>4
    <3>5. CASE WriteStream(i)
      BY <3>5, <1>9
    <3>6. CASE netWrite(i)
      BY <3>6, <1>8
    <3>7. CASE ReadLine(i)
      BY <3>7, <1>10
    <3>8. CASE LogoutGameServer(i)
      BY <3>8, <1>5
    <3> QED BY <2>1, <3>1, <3>2, <3>3, <3>4, <3>5, <3>6, <3>7, <3>8
  <2> QED BY <2>2
<1> QED BY <1>6, <1>11

\* Bytes come out of a stream in the order in which they went in, lines at a time
\* on the way in, and no stream gets those of another, though all of them are cut
\* to pieces and kept in buffers of one pool.
THEOREM StreamsAreKept == BufferSpec => ImplementsStreams
<1>1. BufferInit => StreamsOf!StreamsInit
  <2>1. ASSUME BufferInit PROVE \A i \in Conns : ~ Open(i)
    BY <2>1 DEF BufferInit, Open, Free
  <2> QED BY <2>1 DEF StreamsOf!StreamsInit
<1>2. Inductive /\ Inductive' /\ [BufferNext]_bufferVars => [StreamsOf!StreamsNext]_(StreamsOf!streamVars)
  <2>1. ASSUME Inductive, Inductive', [BufferNext]_bufferVars
        PROVE  [StreamsOf!StreamsNext]_(StreamsOf!streamVars)
    <3>1. StreamStep \/ (Received' = Received /\ Written' = Written)
      BY <2>1, NextIsStreamStep
    <3>2. CASE StreamStep
      BY <3>2 DEF StreamStep, StreamsOf!StreamsNext, Received, Written
    <3>3. CASE Received' = Received /\ Written' = Written
      BY <3>3 DEF StreamsOf!streamVars, Received, Written
    <3> QED BY <3>1, <3>2, <3>3
  <2> QED BY <2>1
<1> QED BY <1>1, <1>2, AlwaysInductive, PTL DEF BufferSpec, ImplementsStreams, StreamsOf!StreamsSpec
==============================================================================

------------------------- MODULE BookAndMail_proofs --------------------------
(***************************************************************************)
(* Proofs about address books, for every number of characters, cards and   *)
(* game servers: when the messages are through, every card shows what the  *)
(* table of the account server says, or what its own server knows better.  *)
(*                                                                         *)
(* And about the mail between characters, for every number of characters,  *)
(* game servers and mails: nobody online waits for mail that the account   *)
(* server keeps, and none is dropped before it has arrived.                *)
(***************************************************************************)
EXTENDS AddressBook, Mail, FiniteSetTheorems, SequenceTheorems, TLAPS

USE BookAssumption DEF BookAssumption, Gone, Mark

Has(q, m) == \E i \in DOMAIN q : q[i] = m

Changes == {"update", "delete"}

\* Every change of the table is followed, in the same stream, by the broadcast
\* that tells of it.
Followed(q) ==
    \A i \in DOMAIN q : q[i].t \in Changes =>
        \E j \in DOMAIN q : j > i /\ q[j] = Msg("cast", q[i].of)

AnswersAbout(q, d, i) == q[i].t = "answer" /\ q[i].of = d
NoAnswer(q, d) == \A i \in DOMAIN q : ~ AnswersAbout(q, d, i)

\* The last answer about d that is under way says v.
LastAnswer(q, d, v) ==
    \E i \in DOMAIN q : /\ AnswersAbout(q, d, i) /\ q[i].mark = v
                        /\ \A j \in DOMAIN q : j > i => ~ AnswersAbout(q, d, j)

\* Someone will tell all servers about d.
CastPending(d) == \E s \in Numbers : Has(toAc[s], Msg("cast", d))

\* Server s will ask the table about d, or has asked.
Hears(s, d) == Has(toGs[s], Msg("cast", d)) \/ Has(toAc[s], Msg("ask", d))

RightCard(c, d) ==
    \/ cards[c][d] = online[d] /\ (online[d] = playsOn[c] => playsOn[d] = playsOn[c])
    \/ cards[c][d] = playsOn[c] /\ playsOn[d] = playsOn[c]
    \/ cards[c][d] = 0 /\ online[d] = playsOn[c] /\ playsOn[d] # playsOn[c]

RightOn(s, d) == \A c \in Fellows : playsOn[c] = s /\ d \in DOMAIN cards[c] => RightCard(c, d)

\* The cards of d on server s are right, or a message will set them right.
Settled(s, d) ==
    \/ CastPending(d) \/ Hears(s, d)
    \/ LastAnswer(toGs[s], d, online[d])
    \/ NoAnswer(toGs[s], d) /\ RightOn(s, d)

Books ==
    /\ DOMAIN cards = Fellows
    /\ \A c \in Fellows : /\ DOMAIN cards[c] \subseteq Fellows \ {c}
                          /\ \A d \in DOMAIN cards[c] : cards[c][d] \in Mark
                          /\ playsOn[c] = 0 => DOMAIN cards[c] = {}
                          /\ savedCards[c] \subseteq Fellows \ {c}

TypeInv ==
    /\ playsOn \in [Fellows -> Mark] /\ held \subseteq Fellows
    /\ online \in [Fellows -> Mark \cup {Gone}]
    /\ savedCards \in [Fellows -> SUBSET Fellows]
    /\ toAc \in [Numbers -> Seq(AcMessage)] /\ toGs \in [Numbers -> Seq(GsMessage)]
    /\ cutOff \subseteq Fellows /\ moves \in 0 .. MaxMoves

ChangesAreTold == \A s \in Numbers : Followed(toAc[s])
AllSettled == \A s \in Numbers, d \in Fellows \ cutOff : Settled(s, d)

IInv == TypeInv /\ Books /\ ChangesAreTold /\ AllSettled
----------------------------------------------------------------------------
(* Streams. *)

\* What one stream holds is followed by what another holds.
LEMMA HasConcat ==
    ASSUME NEW S, NEW q \in Seq(S), NEW r \in Seq(S), NEW m
    PROVE  q \o r \in Seq(S) /\ (Has(q \o r, m) <=> Has(q, m) \/ Has(r, m))
<1>1. /\ q \o r \in Seq(S) /\ Len(q \o r) = Len(q) + Len(r)
      /\ \A i \in 1 .. Len(q) + Len(r) : (q \o r)[i] = IF i <= Len(q) THEN q[i] ELSE r[i - Len(q)]
  BY ConcatProperties
<1>2. /\ DOMAIN q = 1 .. Len(q) /\ DOMAIN r = 1 .. Len(r) /\ Len(q) \in Nat /\ Len(r) \in Nat
      /\ DOMAIN (q \o r) = 1 .. Len(q) + Len(r)
  BY <1>1, LenProperties
<1>3. ASSUME NEW i \in DOMAIN r PROVE i + Len(q) \in DOMAIN (q \o r) /\ (q \o r)[i + Len(q)] = r[i]
  BY <1>1, <1>2
<1>4. Has(r, m) => Has(q \o r, m)
  BY <1>3 DEF Has
<1>5. ASSUME NEW i \in DOMAIN (q \o r)
      PROVE  \/ i \in DOMAIN q /\ (q \o r)[i] = q[i]
             \/ i - Len(q) \in DOMAIN r /\ (q \o r)[i] = r[i - Len(q)]
  BY <1>1, <1>2
<1>6. ASSUME NEW i \in DOMAIN q PROVE i \in DOMAIN (q \o r) /\ (q \o r)[i] = q[i]
  BY <1>1, <1>2
<1>7. Has(q \o r, m) => Has(q, m) \/ Has(r, m)
  BY <1>5 DEF Has
<1>8. Has(q, m) => Has(q \o r, m)
  BY <1>6 DEF Has
<1>9. QED
  BY <1>1, <1>4, <1>7, <1>8

\* A message that is put behind a stream is in it, with all that was there.
LEMMA HasAppend ==
    ASSUME NEW S, NEW q \in Seq(S), NEW e \in S, NEW m
    PROVE  Append(q, e) \in Seq(S) /\ (Has(Append(q, e), m) <=> Has(q, m) \/ m = e)
<1>1. /\ Append(q, e) \in Seq(S) /\ Len(Append(q, e)) = Len(q) + 1
      /\ \A i \in 1 .. Len(q) : Append(q, e)[i] = q[i]
      /\ Append(q, e)[Len(q) + 1] = e
  BY AppendProperties
<1>2. /\ DOMAIN q = 1 .. Len(q) /\ Len(q) \in Nat /\ DOMAIN Append(q, e) = 1 .. Len(q) + 1
  BY <1>1, LenProperties
<1>3. QED
  BY <1>1, <1>2 DEF Has

\* What is in a stream is its head or stays.
LEMMA HasTail ==
    ASSUME NEW S, NEW q \in Seq(S), q # <<>>, NEW m
    PROVE  /\ Tail(q) \in Seq(S) /\ Head(q) \in S
           /\ Has(q, m) => m = Head(q) \/ Has(Tail(q), m)
           /\ Has(Tail(q), m) => Has(q, m)
<1>1. /\ Tail(q) \in Seq(S) /\ Head(q) \in S /\ Head(q) = q[1] /\ Len(Tail(q)) = Len(q) - 1
      /\ \A i \in 1 .. Len(Tail(q)) : Tail(q)[i] = q[i + 1]
  BY HeadTailProperties
<1>2. /\ DOMAIN q = 1 .. Len(q) /\ Len(q) \in Nat /\ DOMAIN Tail(q) = 1 .. Len(q) - 1
  BY <1>1, LenProperties
<1>3. ASSUME NEW i \in DOMAIN q PROVE i = 1 \/ (i - 1 \in DOMAIN Tail(q) /\ Tail(q)[i - 1] = q[i])
  BY <1>1, <1>2
<1>4. ASSUME NEW i \in DOMAIN Tail(q) PROVE i + 1 \in DOMAIN q /\ Tail(q)[i] = q[i + 1]
  BY <1>1, <1>2
<1>5. ASSUME Has(q, m), m # Head(q) PROVE Has(Tail(q), m)
  <2>1. PICK i \in DOMAIN q : q[i] = m
    BY <1>5 DEF Has
  <2>2. i - 1 \in DOMAIN Tail(q) /\ Tail(q)[i - 1] = m
    BY <1>1, <1>3, <1>5, <2>1
  <2>3. QED
    BY <2>2 DEF Has
<1>6. Has(Tail(q), m) => Has(q, m)
  BY <1>4 DEF Has
<1>7. QED
  BY <1>1, <1>5, <1>6

\* Streams whose changes are told stay so one behind the other.
LEMMA FollowedConcat ==
    ASSUME NEW q \in Seq(AcMessage), NEW r \in Seq(AcMessage), Followed(q), Followed(r)
    PROVE  Followed(q \o r)
<1>1. /\ Len(q \o r) = Len(q) + Len(r) /\ q \o r \in Seq(AcMessage)
      /\ \A i \in 1 .. Len(q) + Len(r) : (q \o r)[i] = IF i <= Len(q) THEN q[i] ELSE r[i - Len(q)]
  BY ConcatProperties
<1>2. /\ DOMAIN q = 1 .. Len(q) /\ DOMAIN r = 1 .. Len(r) /\ Len(q) \in Nat /\ Len(r) \in Nat
      /\ DOMAIN (q \o r) = 1 .. Len(q) + Len(r)
  BY <1>1, LenProperties
<1>3. SUFFICES ASSUME NEW i \in DOMAIN (q \o r), (q \o r)[i].t \in Changes
               PROVE  \E j \in DOMAIN (q \o r) : j > i /\ (q \o r)[j] = Msg("cast", (q \o r)[i].of)
  BY DEF Followed
<1>4. CASE i \in DOMAIN q
  <2>1. PICK j \in DOMAIN q : j > i /\ q[j] = Msg("cast", q[i].of)
    BY <1>1, <1>2, <1>3, <1>4 DEF Followed
  <2>2. QED
    BY <1>1, <1>2, <1>4, <2>1
<1>5. CASE i - Len(q) \in DOMAIN r
  <2>1. PICK j \in DOMAIN r : j > i - Len(q) /\ r[j] = Msg("cast", r[i - Len(q)].of)
    BY <1>1, <1>2, <1>3, <1>5 DEF Followed
  <2>2. j + Len(q) \in DOMAIN (q \o r) /\ j + Len(q) > i /\ (q \o r)[j + Len(q)] = r[j]
    BY <1>1, <1>2, <2>1
  <2>3. (q \o r)[i] = r[i - Len(q)]
    BY <1>1, <1>2, <1>5
  <2>4. QED
    BY <2>1, <2>2, <2>3
<1>6. QED
  BY <1>2, <1>4, <1>5

\* The broadcast that tells of the head of a stream is behind it.
LEMMA FollowedTail ==
    ASSUME NEW q \in Seq(AcMessage), q # <<>>, Followed(q)
    PROVE  /\ Followed(Tail(q))
           /\ Head(q).t \in Changes => Has(Tail(q), Msg("cast", Head(q).of))
<1>1. /\ Tail(q) \in Seq(AcMessage) /\ Head(q) = q[1] /\ Len(Tail(q)) = Len(q) - 1
      /\ \A i \in 1 .. Len(Tail(q)) : Tail(q)[i] = q[i + 1]
  BY HeadTailProperties
<1>2. /\ DOMAIN q = 1 .. Len(q) /\ Len(q) \in Nat /\ DOMAIN Tail(q) = 1 .. Len(q) - 1
  BY <1>1, LenProperties
<1>3. Len(q) # 0
  BY EmptySeq
<1>4. ASSUME NEW j \in DOMAIN q, j > 1 PROVE j - 1 \in DOMAIN Tail(q) /\ Tail(q)[j - 1] = q[j]
  BY <1>1, <1>2, <1>4
<1>5. ASSUME NEW i \in DOMAIN Tail(q), Tail(q)[i].t \in Changes
      PROVE  \E j \in DOMAIN Tail(q) : j > i /\ Tail(q)[j] = Msg("cast", Tail(q)[i].of)
  <2>1. i + 1 \in DOMAIN q /\ Tail(q)[i] = q[i + 1]
    BY <1>1, <1>2
  <2>2. PICK j \in DOMAIN q : j > i + 1 /\ q[j] = Msg("cast", q[i + 1].of)
    BY <1>5, <2>1 DEF Followed
  <2>3. j - 1 \in DOMAIN Tail(q) /\ Tail(q)[j - 1] = q[j] /\ j - 1 > i
    BY <1>2, <1>4, <2>2
  <2>4. QED
    BY <2>1, <2>2, <2>3
<1>6. ASSUME Head(q).t \in Changes PROVE Has(Tail(q), Msg("cast", Head(q).of))
  <2>1. 1 \in DOMAIN q
    BY <1>2, <1>3
  <2>2. PICK j \in DOMAIN q : j > 1 /\ q[j] = Msg("cast", q[1].of)
    BY <1>1, <1>6, <2>1 DEF Followed
  <2>3. QED
    BY <1>1, <1>4, <2>2 DEF Has
<1>7. QED
  BY <1>5, <1>6 DEF Followed

\* A message about something else does not change which answer is the last.
LEMMA OtherBehind ==
    ASSUME NEW q \in Seq(GsMessage), NEW e \in GsMessage, NEW d, NEW v,
           ~ (e.t = "answer" /\ e.of = d)
    PROVE  /\ NoAnswer(q, d) => NoAnswer(Append(q, e), d)
           /\ LastAnswer(q, d, v) => LastAnswer(Append(q, e), d, v)
<1>1. /\ Append(q, e) \in Seq(GsMessage) /\ Len(Append(q, e)) = Len(q) + 1
      /\ \A i \in 1 .. Len(q) : Append(q, e)[i] = q[i]
      /\ Append(q, e)[Len(q) + 1] = e
  BY AppendProperties
<1>2. /\ DOMAIN q = 1 .. Len(q) /\ Len(q) \in Nat /\ DOMAIN Append(q, e) = 1 .. Len(q) + 1
  BY <1>1, LenProperties
<1>3. QED
  BY <1>1, <1>2 DEF NoAnswer, LastAnswer, AnswersAbout

\* An answer behind all others is the last.
LEMMA AnswerBehind ==
    ASSUME NEW q \in Seq(GsMessage), NEW e \in GsMessage, e.t = "answer"
    PROVE  LastAnswer(Append(q, e), e.of, e.mark)
<1>1. /\ Append(q, e) \in Seq(GsMessage) /\ Len(Append(q, e)) = Len(q) + 1
      /\ Append(q, e)[Len(q) + 1] = e
  BY AppendProperties
<1>2. /\ Len(q) \in Nat /\ DOMAIN Append(q, e) = 1 .. Len(q) + 1
  BY <1>1, LenProperties
<1>3. QED
  BY <1>1, <1>2 DEF LastAnswer, AnswersAbout

\* The last answer stays the last one, or it is the head.
LEMMA AnswersTail ==
    ASSUME NEW q \in Seq(GsMessage), q # <<>>, NEW d, NEW v
    PROVE  /\ NoAnswer(q, d) => NoAnswer(Tail(q), d) /\ ~ (Head(q).t = "answer" /\ Head(q).of = d)
           /\ LastAnswer(q, d, v) =>
                \/ LastAnswer(Tail(q), d, v)
                \/ /\ Head(q).t = "answer" /\ Head(q).of = d /\ Head(q).mark = v
                   /\ NoAnswer(Tail(q), d)
<1>1. /\ Tail(q) \in Seq(GsMessage) /\ Head(q) = q[1] /\ Len(Tail(q)) = Len(q) - 1
      /\ \A i \in 1 .. Len(Tail(q)) : Tail(q)[i] = q[i + 1]
  BY HeadTailProperties
<1>2. /\ DOMAIN q = 1 .. Len(q) /\ Len(q) \in Nat /\ DOMAIN Tail(q) = 1 .. Len(q) - 1
  BY <1>1, LenProperties
<1>3. ASSUME NEW i \in DOMAIN Tail(q) PROVE i + 1 \in DOMAIN q /\ Tail(q)[i] = q[i + 1]
  BY <1>1, <1>2
<1>4. NoAnswer(q, d) => NoAnswer(Tail(q), d) /\ ~ (Head(q).t = "answer" /\ Head(q).of = d)
  <2>1. 1 \in DOMAIN q
    BY <1>2, EmptySeq
  <2>2. QED
    BY <1>1, <1>3, <2>1 DEF NoAnswer, AnswersAbout
<1>5. ASSUME LastAnswer(q, d, v), ~ LastAnswer(Tail(q), d, v)
      PROVE  /\ Head(q).t = "answer" /\ Head(q).of = d /\ Head(q).mark = v
             /\ NoAnswer(Tail(q), d)
  <2>1. PICK i \in DOMAIN q : /\ AnswersAbout(q, d, i) /\ q[i].mark = v
                              /\ \A j \in DOMAIN q : j > i => ~ AnswersAbout(q, d, j)
    BY <1>5 DEF LastAnswer
  <2>2. CASE i = 1
    <3>1. ASSUME NEW j \in DOMAIN Tail(q) PROVE ~ AnswersAbout(Tail(q), d, j)
      <4>1. j + 1 \in DOMAIN q /\ j + 1 > i /\ Tail(q)[j] = q[j + 1]
        BY <1>2, <1>3, <2>2
      <4>2. QED
        BY <2>1, <4>1 DEF AnswersAbout
    <3>2. QED
      BY <1>1, <2>1, <2>2, <3>1 DEF NoAnswer, AnswersAbout
  <2>3. CASE i # 1
    <3>1. i - 1 \in DOMAIN Tail(q) /\ Tail(q)[i - 1] = q[i]
      BY <1>1, <1>2, <2>3
    <3>2. ASSUME NEW j \in DOMAIN Tail(q), j > i - 1 PROVE ~ AnswersAbout(Tail(q), d, j)
      <4>1. j + 1 \in DOMAIN q /\ j + 1 > i /\ Tail(q)[j] = q[j + 1]
        BY <1>2, <1>3, <3>2
      <4>2. QED
        BY <2>1, <4>1 DEF AnswersAbout
    <3>3. LastAnswer(Tail(q), d, v)
      BY <2>1, <3>1, <3>2 DEF LastAnswer, AnswersAbout
    <3>4. QED
      BY <1>5, <3>3
  <2>4. QED
    BY <2>2, <2>3
<1>6. QED
  BY <1>4, <1>5
----------------------------------------------------------------------------
(* What the messages say. *)

\* A message to the account server is known by its kind and its character.
LEMMA AcKinds ==
    ASSUME NEW m \in AcMessage
    PROVE  /\ m.of \in Fellows
           /\ m.t \in {"save", "delete", "ask", "cast", "update", "castOthers"}
           /\ m.t = "update" => m.mark \in Mark
           /\ m.t # "update" => m = Msg(m.t, m.of)
  BY DEF AcMessage, Msg

\* Messages to the account server are told apart by their kind.
LEMMA AcSorts ==
    ASSUME NEW c \in Fellows, NEW m \in Mark
    PROVE  /\ \A k \in {"save", "delete", "ask", "cast", "castOthers"} :
                Msg(k, c) \in AcMessage /\ Msg(k, c).t = k /\ Msg(k, c).of = c
           /\ Update(c, m) \in AcMessage /\ Update(c, m).t = "update" /\ Update(c, m).of = c
  BY DEF AcMessage, Msg, Update

\* So are messages to game servers.
LEMMA GsKinds ==
    ASSUME NEW m \in GsMessage
    PROVE  /\ m.of \in Fellows /\ m.t \in {"cast", "answer"}
           /\ m.t = "cast" => m = Msg("cast", m.of)
           /\ m.t = "answer" => m.mark \in Mark \cup {Gone}
  BY DEF GsMessage, Msg

\* Messages that change nothing need not be told.
LEMMA FollowedPlain ==
    ASSUME NEW q \in Seq(AcMessage), \A i \in DOMAIN q : q[i].t \notin Changes
    PROVE  Followed(q)
  BY DEF Followed

\* One request that changes nothing
LEMMA OneRequest ==
    ASSUME NEW k \in {"save", "ask", "cast", "castOthers"}, NEW c \in Fellows
    PROVE  /\ <<Msg(k, c)>> \in Seq(AcMessage) /\ Followed(<<Msg(k, c)>>)
           /\ Has(<<Msg(k, c)>>, Msg(k, c))
<1>1. Msg(k, c) \in AcMessage /\ Msg(k, c).t = k
  BY 0 \in Mark, AcSorts
<1> DEFINE m == Msg(k, c)
           q == <<m>>
<1>2. m \in AcMessage /\ m.t \notin Changes
  BY <1>1 DEF Changes
<1> HIDE DEF m
<1>3. q \in Seq(AcMessage) /\ DOMAIN q = {1} /\ q[1] = m
  BY <1>2
<1>4. Followed(q)
  BY <1>2, <1>3, FollowedPlain
<1>5. Has(q, m)
  BY <1>3 DEF Has
<1>6. QED
  BY <1>3, <1>4, <1>5 DEF m

\* A change and the broadcast that tells of it
LEMMA ChangeAndCast ==
    ASSUME NEW c \in Fellows, NEW u \in AcMessage, u.of = c
    PROVE  /\ <<u, Msg("cast", c)>> \in Seq(AcMessage)
           /\ Followed(<<u, Msg("cast", c)>>)
           /\ Has(<<u, Msg("cast", c)>>, Msg("cast", c))
<1> DEFINE m == Msg("cast", c)
           q == <<u, m>>
<1>1. m \in AcMessage /\ m.t = "cast"
  BY 0 \in Mark, AcSorts
<1> HIDE DEF m
<1>2. q \in Seq(AcMessage) /\ DOMAIN q = {1, 2} /\ q[1] = u /\ q[2] = m
  BY <1>1
<1>3. Has(q, m)
  BY <1>2 DEF Has
<1>4. m = Msg("cast", u.of)
  BY DEF m
<1>5. Followed(q)
  <2>1. SUFFICES ASSUME NEW i \in DOMAIN q, q[i].t \in Changes
                 PROVE  \E j \in DOMAIN q : j > i /\ q[j] = Msg("cast", q[i].of)
    BY DEF Followed
  <2>2. i = 1
    BY <1>1, <1>2, <2>1 DEF Changes
  <2>3. QED
    BY <1>2, <1>4, <2>2
<1>6. QED
  BY <1>2, <1>3, <1>5 DEF m

\* The table, then the broadcast
LEMMA DpDBUpdateTells ==
    ASSUME NEW c \in Fellows, NEW m \in Mark
    PROVE  /\ DpDBUpdate(c, m) \in Seq(AcMessage) /\ Followed(DpDBUpdate(c, m))
           /\ Has(DpDBUpdate(c, m), Msg("cast", c))
<1>1. Update(c, m) \in AcMessage /\ Update(c, m).of = c
  BY AcSorts
<1>2. QED
  BY <1>1, ChangeAndCast DEF DpDBUpdate

\* The questions of a login ask for everyone on another server.
LEMMA QuestionsAsk ==
    ASSUME NEW s \in Numbers, NEW c \in Fellows, savedCards[c] \subseteq Fellows, NEW q \in Questions(s, c)
    PROVE  /\ q \in Seq(AcMessage) /\ Followed(q)
           /\ \A d \in savedCards[c] : playsOn[d] # s => Has(q, Msg("ask", d))
<1> DEFINE asked == {Msg("ask", d) : d \in {e \in savedCards[c] : playsOn[e] # s}}
           n == Cardinality(asked)
       S == {e \in savedCards[c] : playsOn[e] # s}
<1>1. q \in [1 .. n -> asked] /\ asked = {q[i] : i \in DOMAIN q}
  BY DEF Questions
<1>2. ASSUME NEW m \in asked PROVE m \in AcMessage /\ m.t = "ask"
  BY 0 \in Mark, AcSorts
<1>3. n \in Nat
  <2>1. IsFiniteSet(S)
    BY S \in SUBSET Fellows, FS_Subset
  <2>2. [d \in S |-> Msg("ask", d)] \in Surjection(S, asked)
    BY DEF Surjection
  <2>3. IsFiniteSet(asked)
    BY <2>1, <2>2, FS_Surjection
  <2>4. QED
    BY <2>3, FS_CardinalityType
<1>4. q \in Seq(AcMessage)
  <2>1. q \in [1 .. n -> AcMessage]
    BY <1>1, <1>2
  <2>2. QED
    BY <1>3, <2>1, SeqDef
<1>5. \A i \in DOMAIN q : q[i].t \notin Changes
  BY <1>1, <1>2 DEF Changes
<1>6. ASSUME NEW d \in savedCards[c], playsOn[d] # s PROVE Has(q, Msg("ask", d))
  <2>1. Msg("ask", d) \in asked
    BY <1>6
  <2>2. QED
    BY <1>1, <2>1 DEF Has
<1>7. QED
  BY <1>4, <1>5, <1>6, FollowedPlain
----------------------------------------------------------------------------
(* What steps have in common. *)

\* Requests are put behind those under way; what is asked or told stays so.
LEMMA Sent ==
    ASSUME TypeInv, ChangesAreTold, NEW s \in Numbers, NEW q \in Seq(AcMessage), Followed(q), Send(s, q)
    PROVE  /\ toAc' \in [Numbers -> Seq(AcMessage)] /\ ChangesAreTold'
           /\ \A d \in Fellows : /\ CastPending(d) => CastPending(d)'
                                 /\ Has(q, Msg("cast", d)) => CastPending(d)'
                                 /\ Has(q, Msg("ask", d)) => Has(toAc'[s], Msg("ask", d))
           /\ \A t \in Numbers, d \in Fellows :
                Has(toAc[t], Msg("ask", d)) => Has(toAc'[t], Msg("ask", d))
<1>1. /\ toAc \in [Numbers -> Seq(AcMessage)]
      /\ toAc' = [toAc EXCEPT ![s] = toAc[s] \o q]
  BY DEF TypeInv, Send
<1>2. toAc[s] \o q \in Seq(AcMessage) /\ Followed(toAc[s] \o q)
  BY <1>1, FollowedConcat, ConcatProperties DEF ChangesAreTold
<1>3. toAc' \in [Numbers -> Seq(AcMessage)] /\ toAc'[s] = toAc[s] \o q
  BY <1>1, <1>2
<1>4. ChangesAreTold'
  BY <1>1, <1>2 DEF ChangesAreTold
<1>5. ASSUME NEW t \in Numbers, NEW m
      PROVE  Has(toAc[t], m) \/ (t = s /\ Has(q, m)) => Has(toAc'[t], m)
  <2>1. CASE t = s
    BY <1>1, <1>3, <2>1, HasConcat
  <2>2. CASE t # s
    BY <1>1, <2>2
  <2>3. QED
    BY <2>1, <2>2
<1>6. QED
  BY <1>3, <1>4, <1>5 DEF CastPending

\* Where neither the table nor the answers change, what was settled stays so
\* if the cards that were right stay right.
LEMMA Unmoved ==
    ASSUME NEW s \in Numbers, NEW d \in Fellows, Settled(s, d),
           online'[d] = online[d], toGs'[s] = toGs[s],
           CastPending(d) => CastPending(d)',
           Has(toAc[s], Msg("ask", d)) => Has(toAc'[s], Msg("ask", d)),
           RightOn(s, d) => RightOn(s, d)'
    PROVE  Settled(s, d)'
  BY DEF Settled, Hears

\* A card that stays where it was is right if it was.
LEMMA SameCards ==
    ASSUME NEW s \in Numbers, NEW d \in Fellows, RightOn(s, d), online'[d] = online[d],
           \A c \in Fellows : playsOn'[c] = s /\ d \in DOMAIN cards'[c] =>
                /\ playsOn[c] = s /\ d \in DOMAIN cards[c] /\ cards'[c][d] = cards[c][d]
                /\ playsOn'[d] = playsOn[d] \/ (playsOn[d] # s /\ playsOn'[d] # s)
    PROVE  RightOn(s, d)'
<1>1. SUFFICES ASSUME NEW c \in Fellows, playsOn'[c] = s, d \in DOMAIN cards'[c]
               PROVE  RightCard(c, d)'
  BY DEF RightOn
<1>2. RightCard(c, d) /\ playsOn[c] = s
  BY <1>1 DEF RightOn
<1>3. QED
  BY <1>1, <1>2 DEF RightCard

\* Only the cards of c in the books of one server are marked.
LEMMA MarkedBooks ==
    ASSUME TypeInv, Books, NEW s \in Numbers, NEW c \in Fellows, NEW m \in Mark \cup {Gone}
    PROVE  /\ DOMAIN Marked(cards, s, c, m) = Fellows
           /\ \A e \in Fellows :
                /\ DOMAIN Marked(cards, s, c, m)[e] \subseteq DOMAIN cards[e]
                /\ \A d \in DOMAIN Marked(cards, s, c, m)[e] :
                     /\ Marked(cards, s, c, m)[e][d] \in Mark
                     /\ d # c \/ playsOn[e] # s => Marked(cards, s, c, m)[e][d] = cards[e][d]
                     /\ d = c /\ playsOn[e] = s => m # Gone /\ Marked(cards, s, c, m)[e][d] = m
<1> DEFINE M == Marked(cards, s, c, m)
<1>1. DOMAIN M = Fellows
  BY DEF Marked
<1>2. SUFFICES ASSUME NEW e \in Fellows
               PROVE  /\ DOMAIN M[e] \subseteq DOMAIN cards[e]
                      /\ \A d \in DOMAIN M[e] :
                           /\ M[e][d] \in Mark
                           /\ d # c \/ playsOn[e] # s => M[e][d] = cards[e][d]
                           /\ d = c /\ playsOn[e] = s => m # Gone /\ M[e][d] = m
  BY <1>1
<1>3. c \notin DOMAIN cards[c] /\ \A d \in DOMAIN cards[e] : cards[e][d] \in Mark
  BY DEF Books
<1>4. CASE playsOn[e] # s \/ e = c \/ c \notin DOMAIN cards[e]
  <2>1. M[e] = cards[e]
    BY <1>4 DEF Marked
  <2>2. QED
    BY <1>3, <1>4, <2>1
<1>5. CASE ~ (playsOn[e] # s \/ e = c \/ c \notin DOMAIN cards[e]) /\ m = Gone
  <2>1. M[e] = [x \in DOMAIN cards[e] \ {c} |-> cards[e][x]]
    BY <1>5 DEF Marked
  <2>2. QED
    BY <1>3, <1>5, <2>1
<1>6. CASE ~ (playsOn[e] # s \/ e = c \/ c \notin DOMAIN cards[e]) /\ m # Gone
  <2>1. M[e] = [cards[e] EXCEPT ![c] = m]
    BY <1>6 DEF Marked
  <2>2. m \in Mark
    BY <1>6
  <2>3. QED
    BY <1>3, <1>6, <2>1, <2>2
<1>7. QED
  BY <1>4, <1>5, <1>6
----------------------------------------------------------------------------
(* The steps. *)

\* At first nothing is under way and every card is right.
LEMMA InitIInv == BookInit => IInv
<1> SUFFICES ASSUME BookInit PROVE IInv
  OBVIOUS
<1>1. /\ playsOn \in [Fellows -> Numbers] /\ held = Fellows /\ online = playsOn
      /\ cards = [c \in Fellows |-> [d \in Fellows \ {c} |-> playsOn[d]]]
      /\ savedCards = [c \in Fellows |-> Fellows \ {c}]
      /\ toAc = [s \in Numbers |-> <<>>] /\ toGs = [s \in Numbers |-> <<>>]
      /\ cutOff = {} /\ moves = 0
  BY DEF BookInit
<1>2. TypeInv
  BY <1>1 DEF TypeInv
<1>3. Books
  BY <1>1 DEF Books
<1>4. ChangesAreTold
  BY <1>1 DEF ChangesAreTold, Followed
<1>5. ASSUME NEW s \in Numbers, NEW d \in Fellows PROVE Settled(s, d)
  <2>1. NoAnswer(toGs[s], d)
    BY <1>1 DEF NoAnswer
  <2>2. ASSUME NEW c \in Fellows, d \in DOMAIN cards[c] PROVE RightCard(c, d)
    BY <1>1, <2>2 DEF RightCard
  <2>3. QED
    BY <2>1, <2>2 DEF Settled, RightOn
<1>6. QED
  BY <1>2, <1>3, <1>4, <1>5 DEF IInv, AllSettled

\* A login asks for everyone elsewhere and has itself told to all.
LEMMA LoginStep ==
    ASSUME IInv, NEW s \in Numbers, NEW c \in Fellows, notifyLogin(s, c)
    PROVE  IInv'
<1> USE DEF IInv
<1>1. PICK q \in Questions(s, c) : Send(s, DpDBUpdate(c, s) \o q \o <<Msg("castOthers", c)>>)
  BY DEF notifyLogin
<1>2. /\ held' = held \cup {c}
      /\ playsOn' = [playsOn EXCEPT ![c] = s]
      /\ cards' = [Marked(cards, s, c, s) EXCEPT ![c] = [d \in savedCards[c] |-> IF playsOn[d] = s THEN s ELSE 0]]
      /\ moves < MaxMoves /\ moves' = moves + 1
      /\ UNCHANGED <<online, savedCards, toGs, cutOff>>
  BY DEF notifyLogin, Move
<1> DEFINE u == DpDBUpdate(c, s)
           r == <<Msg("castOthers", c)>>
           all == u \o q \o r
<1>3. /\ u \in Seq(AcMessage) /\ Followed(u) /\ Has(u, Msg("cast", c))
  BY DpDBUpdateTells
<1>4. /\ q \in Seq(AcMessage) /\ Followed(q)
      /\ \A d \in savedCards[c] : playsOn[d] # s => Has(q, Msg("ask", d))
  BY QuestionsAsk DEF Books
<1>5. r \in Seq(AcMessage) /\ Followed(r)
  BY OneRequest
<1> HIDE DEF u, r
<1>6. /\ all \in Seq(AcMessage) /\ Followed(all) /\ Has(all, Msg("cast", c))
      /\ \A d \in savedCards[c] : playsOn[d] # s => Has(all, Msg("ask", d))
  <2>1. u \o q \in Seq(AcMessage) /\ Followed(u \o q)
    BY <1>3, <1>4, FollowedConcat, ConcatProperties
  <2>2. ASSUME NEW m PROVE Has(u, m) \/ Has(q, m) => Has(all, m)
    BY <1>3, <1>4, <1>5, <2>1, HasConcat
  <2>3. all \in Seq(AcMessage) /\ Followed(all)
    BY <1>5, <2>1, FollowedConcat, ConcatProperties
  <2>4. QED
    BY <1>3, <1>4, <2>2, <2>3
<1>7. Send(s, all)
  BY <1>1 DEF u, r
<1> HIDE DEF all
<1>8. /\ toAc' \in [Numbers -> Seq(AcMessage)] /\ ChangesAreTold'
      /\ \A d \in Fellows : CastPending(d) => CastPending(d)'
      /\ CastPending(c)'
      /\ \A d \in savedCards[c] : playsOn[d] # s => Has(toAc'[s], Msg("ask", d))
      /\ \A t \in Numbers, d \in Fellows : Has(toAc[t], Msg("ask", d)) => Has(toAc'[t], Msg("ask", d))
  BY <1>6, <1>7, Sent DEF TypeInv
<1>9. TypeInv'
  BY <1>2, <1>8 DEF TypeInv
<1>10. /\ DOMAIN cards' = Fellows
       /\ cards'[c] = [d \in savedCards[c] |-> IF playsOn[d] = s THEN s ELSE 0]
       /\ \A e \in Fellows \ {c} : /\ cards'[e] = Marked(cards, s, c, s)[e]
                                   /\ DOMAIN cards'[e] \subseteq DOMAIN cards[e]
       /\ \A e \in Fellows \ {c} : \A d \in DOMAIN cards'[e] :
            cards'[e][d] \in Mark /\ (d # c => cards'[e][d] = cards[e][d])
  BY <1>2, MarkedBooks
<1>11. Books'
  BY <1>2, <1>10 DEF Books, TypeInv
<1>12. ASSUME NEW t \in Numbers, NEW d \in Fellows \ cutOff PROVE Settled(t, d)'
  <2>1. CASE d = c
    BY <1>8, <2>1 DEF Settled
  <2>2. CASE d # c /\ t = s /\ d \in savedCards[c] /\ playsOn[d] # s
    BY <1>8, <2>2 DEF Settled, Hears
  <2>3. CASE d # c /\ ~ (t = s /\ d \in savedCards[c] /\ playsOn[d] # s)
    <3>1. ASSUME RightOn(t, d) PROVE RightOn(t, d)'
      <4>1. SUFFICES ASSUME NEW e \in Fellows, playsOn'[e] = t, d \in DOMAIN cards'[e]
                     PROVE  RightCard(e, d)'
        BY DEF RightOn
      <4>2. playsOn'[d] = playsOn[d] /\ online' = online
        BY <1>2, <2>3 DEF TypeInv
      <4>3. CASE e = c
        <5>1. t = s /\ d \in savedCards[c]
          BY <1>2, <1>10, <4>1, <4>3 DEF TypeInv
        <5>2. playsOn[d] = s /\ cards'[e][d] = s
          BY <1>10, <2>3, <4>3, <5>1
        <5>3. QED
          BY <4>1, <4>2, <5>1, <5>2 DEF RightCard
      <4>4. CASE e # c
        <5>1. /\ playsOn'[e] = playsOn[e] /\ d \in DOMAIN cards[e] /\ cards'[e][d] = cards[e][d]
          BY <1>2, <1>10, <2>3, <4>1, <4>4 DEF TypeInv
        <5>2. RightCard(e, d)
          BY <3>1, <4>1, <5>1 DEF RightOn
        <5>3. QED
          BY <4>2, <5>1, <5>2 DEF RightCard
      <4>5. QED
        BY <4>3, <4>4
    <3>2. Settled(t, d)
      BY DEF AllSettled
    <3>3. QED
      BY <1>2, <1>8, <3>1, <3>2, Unmoved
  <2>4. QED
    BY <2>1, <2>2, <2>3
<1>13. QED
  BY <1>2, <1>8, <1>9, <1>11, <1>12 DEF AllSettled

\* A logout saves, leaves an empty book behind and has itself told to all.
LEMMA LogoutStep ==
    ASSUME IInv, NEW c \in Fellows, notifyLogout(c)
    PROVE  IInv'
<1> USE DEF IInv
<1> DEFINE s == playsOn[c]
           f == <<Msg("save", c)>>
           u == DpDBUpdate(c, 0)
           r == <<Msg("castOthers", c)>>
           all == f \o u \o r
<1>1. /\ s # 0
      /\ playsOn' = [playsOn EXCEPT ![c] = 0]
      /\ savedCards' = [savedCards EXCEPT ![c] = DOMAIN cards[c]]
      /\ cards' = [Marked(cards, s, c, 0) EXCEPT ![c] = <<>>]
      /\ Send(s, all)
      /\ moves < MaxMoves /\ moves' = moves + 1
      /\ UNCHANGED <<held, online, toGs, cutOff>>
  BY DEF notifyLogout, Move
<1>2. s \in Numbers
  BY <1>1 DEF TypeInv
<1>3. f \in Seq(AcMessage) /\ Followed(f) /\ r \in Seq(AcMessage) /\ Followed(r)
  BY OneRequest
<1>4. u \in Seq(AcMessage) /\ Followed(u) /\ Has(u, Msg("cast", c))
  BY DpDBUpdateTells
<1> HIDE DEF f, u, r
<1>5. all \in Seq(AcMessage) /\ Followed(all) /\ Has(all, Msg("cast", c))
  <2>1. f \o u \in Seq(AcMessage) /\ Followed(f \o u)
    BY <1>3, <1>4, FollowedConcat, ConcatProperties
  <2>2. Has(f \o u, Msg("cast", c))
    BY <1>3, <1>4, HasConcat
  <2>3. QED
    BY <1>3, <2>1, <2>2, FollowedConcat, HasConcat
<1> HIDE DEF all
<1>6. PICK z : z = s
  OBVIOUS
<1>7. /\ toAc' \in [Numbers -> Seq(AcMessage)] /\ ChangesAreTold'
      /\ \A d \in Fellows : CastPending(d) => CastPending(d)'
      /\ CastPending(c)'
      /\ \A t \in Numbers, d \in Fellows : Has(toAc[t], Msg("ask", d)) => Has(toAc'[t], Msg("ask", d))
  <2>1. Send(z, all) /\ z \in Numbers
    BY <1>1, <1>2, <1>6
  <2>2. QED
    BY <1>5, <2>1, Sent DEF TypeInv
<1>8. TypeInv'
  BY <1>1, <1>7 DEF TypeInv, Books
<1>9. /\ DOMAIN cards' = Fellows
      /\ DOMAIN cards'[c] = {}
      /\ \A e \in Fellows \ {c} : DOMAIN cards'[e] \subseteq DOMAIN cards[e]
      /\ \A e \in Fellows \ {c} : \A d \in DOMAIN cards'[e] :
           cards'[e][d] \in Mark /\ (d # c => cards'[e][d] = cards[e][d])
  <2>1. cards' = [Marked(cards, z, c, 0) EXCEPT ![c] = <<>>] /\ z \in Numbers
    BY <1>1, <1>2, <1>6
  <2>2. DOMAIN Marked(cards, z, c, 0) = Fellows
    BY <2>1, MarkedBooks
  <2>3. /\ DOMAIN cards' = Fellows /\ cards'[c] = <<>>
        /\ \A e \in Fellows \ {c} : cards'[e] = Marked(cards, z, c, 0)[e]
    BY <2>1, <2>2
  <2>4. DOMAIN cards'[c] = {}
    BY <2>3
  <2>5. QED
    BY <2>1, <2>3, <2>4, MarkedBooks
<1>10. Books'
  BY <1>1, <1>9 DEF Books, TypeInv
<1>11. ASSUME NEW t \in Numbers, NEW d \in Fellows \ cutOff PROVE Settled(t, d)'
  <2>1. CASE d = c
    BY <1>7, <2>1 DEF Settled
  <2>2. CASE d # c
    <3>1. ASSUME RightOn(t, d), NEW e \in Fellows, playsOn'[e] = t, d \in DOMAIN cards'[e]
          PROVE  playsOn[e] = t /\ d \in DOMAIN cards[e] /\ cards'[e][d] = cards[e][d]
                 /\ playsOn'[d] = playsOn[d]
      BY <1>1, <1>9, <2>2, <3>1 DEF TypeInv
    <3>2. RightOn(t, d) => RightOn(t, d)'
      BY <1>1, <3>1, SameCards
    <3>3. Settled(t, d)
      BY DEF AllSettled
    <3>4. QED
      BY <1>1, <1>7, <3>2, <3>3, Unmoved
  <2>3. QED
    BY <2>1, <2>2
<1>12. QED
  BY <1>1, <1>7, <1>8, <1>10, <1>11 DEF AllSettled

\* A deletion tells all of itself; the books stay.
LEMMA DeleteStep ==
    ASSUME IInv, NEW s \in Numbers, NEW c \in Fellows, DeleteChar(s, c)
    PROVE  IInv'
<1> USE DEF IInv
<1> DEFINE u == <<Msg("delete", c), Msg("cast", c)>>
<1>1. /\ savedCards' = [savedCards EXCEPT ![c] = {}]
      /\ Send(s, u)
      /\ moves < MaxMoves /\ moves' = moves + 1
      /\ UNCHANGED <<playsOn, held, online, cards, toGs, cutOff>>
  BY DEF DeleteChar, Move
<1>2. u \in Seq(AcMessage) /\ Followed(u) /\ Has(u, Msg("cast", c))
  <2>1. Msg("delete", c) \in AcMessage /\ Msg("delete", c).of = c
    BY 0 \in Mark, AcSorts
  <2>2. QED
    BY <2>1, ChangeAndCast
<1> HIDE DEF u
<1>3. /\ toAc' \in [Numbers -> Seq(AcMessage)] /\ ChangesAreTold'
      /\ \A d \in Fellows : CastPending(d) => CastPending(d)'
      /\ CastPending(c)'
      /\ \A t \in Numbers, d \in Fellows : Has(toAc[t], Msg("ask", d)) => Has(toAc'[t], Msg("ask", d))
  BY <1>1, <1>2, Sent DEF TypeInv
<1>4. TypeInv' /\ Books'
  BY <1>1, <1>3 DEF TypeInv, Books
<1>5. ASSUME NEW t \in Numbers, NEW d \in Fellows \ cutOff PROVE Settled(t, d)'
  <2>1. RightOn(t, d) => RightOn(t, d)'
    BY <1>1, SameCards
  <2>2. Settled(t, d)
    BY DEF AllSettled
  <2>3. QED
    BY <1>1, <1>3, <2>1, <2>2, Unmoved
<1>6. QED
  BY <1>1, <1>3, <1>4, <1>5 DEF AllSettled

\* Where no message is sent or taken, right cards have to stay right.
LEMMA QuietStep ==
    ASSUME IInv, TypeInv', Books', toAc' = toAc, toGs' = toGs, online' = online, cutOff' = cutOff,
           \A t \in Numbers, d \in Fellows : RightOn(t, d) => RightOn(t, d)'
    PROVE  IInv'
<1>1. ChangesAreTold'
  BY DEF IInv, ChangesAreTold
<1>2. ASSUME NEW t \in Numbers, NEW d \in Fellows \ cutOff PROVE Settled(t, d)'
  <2>1. Settled(t, d)
    BY DEF IInv, AllSettled
  <2>2. CastPending(d) => CastPending(d)'
    BY DEF CastPending
  <2>3. QED
    BY <2>1, <2>2, Unmoved
<1>3. QED
  BY <1>1, <1>2 DEF IInv, AllSettled

\* A new card shows that its owner plays here.
LEMMA AddStep ==
    ASSUME IInv, NEW c \in Fellows, NEW d \in Fellows, addAddressBook(c, d)
    PROVE  IInv'
<1> USE DEF IInv
<1>1. /\ c # d /\ playsOn[c] # 0 /\ playsOn[d] = playsOn[c]
      /\ cards' = [cards EXCEPT ![c] = WithCard(cards[c], d, playsOn[c]), ![d] = WithCard(cards[d], c, playsOn[c])]
      /\ UNCHANGED <<playsOn, held, online, savedCards, toAc, toGs, cutOff, moves>>
  BY DEF addAddressBook
<1>2. TypeInv'
  BY <1>1 DEF TypeInv
<1>3. /\ DOMAIN cards' = Fellows
      /\ cards'[c] = WithCard(cards[c], d, playsOn[c]) /\ cards'[d] = WithCard(cards[d], c, playsOn[c])
      /\ \A e \in Fellows \ {c, d} : cards'[e] = cards[e]
  BY <1>1 DEF Books
<1>4. ASSUME NEW e \in Fellows, NEW g \in DOMAIN cards'[e]
      PROVE  \/ g \in DOMAIN cards[e] /\ cards'[e][g] = cards[e][g]
             \/ /\ e \in {c, d} /\ g \in {c, d} /\ e # g
                /\ cards'[e][g] = playsOn[e] /\ playsOn[g] = playsOn[e] /\ playsOn[e] # 0
  <2>1. ASSUME NEW book, NEW o, NEW m, NEW x \in DOMAIN WithCard(book, o, m)
        PROVE  \/ x \in DOMAIN book /\ WithCard(book, o, m)[x] = book[x]
               \/ x = o /\ WithCard(book, o, m)[x] = m
    BY DEF WithCard
  <2>2. CASE e = c
    <3>1. \/ g \in DOMAIN cards[c] /\ cards'[c][g] = cards[c][g]
          \/ g = d /\ cards'[c][g] = playsOn[c]
      BY <1>3, <2>1, <2>2
    <3>2. QED
      BY <1>1, <2>2, <3>1
  <2>3. CASE e = d
    <3>1. \/ g \in DOMAIN cards[d] /\ cards'[d][g] = cards[d][g]
          \/ g = c /\ cards'[d][g] = playsOn[c]
      BY <1>3, <2>1, <2>3
    <3>2. QED
      BY <1>1, <2>3, <3>1
  <2>4. CASE e \notin {c, d}
    BY <1>3, <2>4
  <2>5. QED
    BY <2>2, <2>3, <2>4
<1>5. Books'
  <2>1. ASSUME NEW e \in Fellows, playsOn[e] = 0 PROVE cards'[e] = cards[e]
    BY <1>1, <1>3, <2>1
  <2>2. ASSUME NEW e \in Fellows, NEW g \in DOMAIN cards'[e]
        PROVE  g \in Fellows \ {e} /\ cards'[e][g] \in Mark
    BY <1>1, <1>4 DEF Books, TypeInv
  <2>3. QED
    BY <1>1, <1>3, <2>1, <2>2 DEF Books
<1>6. ASSUME NEW t \in Numbers, NEW g \in Fellows, RightOn(t, g) PROVE RightOn(t, g)'
  <2>1. SUFFICES ASSUME NEW e \in Fellows, playsOn[e] = t, g \in DOMAIN cards'[e]
                 PROVE  RightCard(e, g)'
    BY <1>1 DEF RightOn
  <2>2. QED
    BY <1>1, <1>4, <1>6, <2>1 DEF RightOn, RightCard
<1>7. QED
  BY <1>1, <1>2, <1>5, <1>6, QuietStep

\* A card that is thrown away
LEMMA DeleteEntryStep ==
    ASSUME IInv, NEW c \in Fellows, NEW d \in Fellows, deleteEntry(c, d)
    PROVE  IInv'
<1> USE DEF IInv
<1>1. /\ cards' = [cards EXCEPT ![c] = [e \in DOMAIN cards[c] \ {d} |-> cards[c][e]]]
      /\ UNCHANGED <<playsOn, held, online, savedCards, toAc, toGs, cutOff, moves>>
  BY DEF deleteEntry
<1>2. TypeInv'
  BY <1>1 DEF TypeInv
<1>3. /\ DOMAIN cards' = Fellows
      /\ \A e \in Fellows : /\ DOMAIN cards'[e] \subseteq DOMAIN cards[e]
                            /\ \A g \in DOMAIN cards'[e] : cards'[e][g] = cards[e][g]
  BY <1>1 DEF Books
<1>4. Books'
  BY <1>1, <1>3 DEF Books
<1>5. ASSUME NEW t \in Numbers, NEW g \in Fellows PROVE RightOn(t, g) => RightOn(t, g)'
  BY <1>1, <1>3, SameCards
<1>6. QED
  BY <1>1, <1>2, <1>4, <1>5, QuietStep

\* A server that hears of c asks about c.
LEMMA BroadcastStep ==
    ASSUME IInv, NEW s \in Numbers, Broadcast_recv(s)
    PROVE  IInv'
<1> USE DEF IInv
<1>1. PICK q : q = toGs[s]
  OBVIOUS
<1>2. PICK c : c = Head(q).of
  OBVIOUS
<1> DEFINE u == <<Msg("ask", c)>>
<1>3. /\ q # <<>> /\ Head(q).t = "cast" /\ Send(s, u)
      /\ toGs' = [toGs EXCEPT ![s] = Tail(q)]
      /\ UNCHANGED <<playsOn, held, online, cards, savedCards, cutOff, moves>>
  BY <1>1, <1>2 DEF Broadcast_recv
<1>4. q \in Seq(GsMessage) /\ Head(q) \in GsMessage /\ Tail(q) \in Seq(GsMessage)
  BY <1>1, <1>3, HeadTailProperties DEF TypeInv
<1>5. c \in Fellows /\ Head(q) = Msg("cast", c)
  BY <1>2, <1>3, <1>4, GsKinds
<1>6. u \in Seq(AcMessage) /\ Followed(u) /\ Has(u, Msg("ask", c))
  BY <1>5, OneRequest
<1> HIDE DEF u
<1>7. /\ toAc' \in [Numbers -> Seq(AcMessage)] /\ ChangesAreTold'
      /\ \A d \in Fellows : CastPending(d) => CastPending(d)'
      /\ Has(toAc'[s], Msg("ask", c))
      /\ \A t \in Numbers, d \in Fellows : Has(toAc[t], Msg("ask", d)) => Has(toAc'[t], Msg("ask", d))
  BY <1>3, <1>5, <1>6, Sent DEF TypeInv
<1>8. toGs \in [Numbers -> Seq(GsMessage)]
  BY DEF TypeInv
<1>9. TypeInv' /\ Books'
  BY <1>3, <1>4, <1>7 DEF TypeInv, Books
<1>10. ASSUME NEW t \in Numbers, NEW d \in Fellows \ cutOff PROVE Settled(t, d)'
  <2>1. RightOn(t, d) => RightOn(t, d)'
    BY <1>3, SameCards
  <2>2. Settled(t, d)
    BY DEF AllSettled
  <2>3. CASE t # s
    <3>1. toGs'[t] = toGs[t]
      BY <1>3, <1>8, <2>3
    <3>2. QED
      BY <1>3, <1>7, <2>1, <2>2, <3>1, Unmoved
  <2>4. CASE t = s /\ d = c
    BY <1>7, <2>4 DEF Settled, Hears
  <2>5. CASE t = s /\ d # c
    <3>1. toGs'[s] = Tail(q)
      BY <1>3, <1>8
    <3>2. ~ (Head(q).t = "answer" /\ Head(q).of = d)
      BY <1>3
    <3>3. PICK v : v = online[d]
      OBVIOUS
    <3>4. /\ NoAnswer(q, d) => NoAnswer(Tail(q), d)
          /\ LastAnswer(q, d, v) => LastAnswer(Tail(q), d, v)
      BY <1>3, <1>4, <3>2, AnswersTail
    <3>5. Msg("cast", d) # Head(q)
      BY <1>5, <2>5 DEF Msg
    <3>6. Has(q, Msg("cast", d)) => Has(Tail(q), Msg("cast", d))
      BY <1>3, <1>4, <3>5, HasTail
    <3>7. QED
      BY <1>1, <1>3, <1>7, <2>1, <2>2, <2>5, <3>1, <3>3, <3>4, <3>6 DEF Settled, Hears
  <2>6. QED
    BY <2>3, <2>4, <2>5
<1>11. QED
  BY <1>3, <1>7, <1>9, <1>10 DEF AllSettled

\* An answer that says what the table says makes the cards right.
LEMMA AnswerMakesRight ==
    ASSUME TypeInv, Books, NEW s \in Numbers, NEW c \in Fellows, NEW v \in Mark \cup {Gone}, v = online[c],
           NEW w, w = IF v = s /\ playsOn[c] # s THEN 0 ELSE v,
           cards' = Marked(cards, s, c, w), playsOn' = playsOn, online' = online
    PROVE  RightOn(s, c)'
<1>1. w \in Mark \cup {Gone}
  OBVIOUS
<1>2. SUFFICES ASSUME NEW e \in Fellows, playsOn[e] = s, c \in DOMAIN cards'[e]
               PROVE  RightCard(e, c)'
  BY DEF RightOn
<1>3. w # Gone /\ cards'[e][c] = w
  <2>1. \A d \in DOMAIN Marked(cards, s, c, w)[e] :
          d = c /\ playsOn[e] = s => w # Gone /\ Marked(cards, s, c, w)[e][d] = w
    BY <1>1, MarkedBooks
  <2>2. PICK book : book = cards'[e]
    OBVIOUS
  <2>3. book = Marked(cards, s, c, w)[e]
    BY <2>2
  <2>4. QED
    BY <1>2, <2>1, <2>2, <2>3
<1>4. QED
  BY <1>2, <1>3 DEF RightCard

\* An answer marks the cards of c; if it claims that c plays here it is passed on.
LEMMA AnswerStep ==
    ASSUME IInv, NEW s \in Numbers, DBGetEntryString_recv(s)
    PROVE  IInv'
<1> USE DEF IInv
<1>1. PICK q : q = toGs[s]
  OBVIOUS
<1>2. PICK c, v : c = Head(q).of /\ v = Head(q).mark
  OBVIOUS
<1>3. PICK w : w = IF v = s /\ playsOn[c] # s THEN 0 ELSE v
  OBVIOUS
<1>4. /\ q # <<>> /\ Head(q).t = "answer"
      /\ toGs' = [toGs EXCEPT ![s] = Tail(q)]
      /\ cards' = Marked(cards, s, c, w)
      /\ \E u \in {<<>>, <<Msg("castOthers", c)>>} : Send(s, u)
      /\ UNCHANGED <<playsOn, held, online, savedCards, cutOff, moves>>
  BY <1>1, <1>2, <1>3 DEF DBGetEntryString_recv
<1>5. q \in Seq(GsMessage) /\ Head(q) \in GsMessage /\ Tail(q) \in Seq(GsMessage)
  BY <1>1, <1>4, HeadTailProperties DEF TypeInv
<1>6. c \in Fellows /\ v \in Mark \cup {Gone} /\ w \in Mark \cup {Gone}
  BY <1>2, <1>3, <1>4, <1>5, GsKinds
<1>7. PICK u \in {<<>>, <<Msg("castOthers", c)>>} : Send(s, u)
  BY <1>4
<1>8. u \in Seq(AcMessage) /\ Followed(u)
  <2>1. <<Msg("castOthers", c)>> \in Seq(AcMessage) /\ Followed(<<Msg("castOthers", c)>>)
    BY <1>6, OneRequest
  <2>2. <<>> \in Seq(AcMessage) /\ Followed(<<>>)
    BY DEF Followed
  <2>3. QED
    BY <1>7, <2>1, <2>2
<1>9. /\ toAc' \in [Numbers -> Seq(AcMessage)] /\ ChangesAreTold'
      /\ \A d \in Fellows : CastPending(d) => CastPending(d)'
      /\ \A t \in Numbers, d \in Fellows : Has(toAc[t], Msg("ask", d)) => Has(toAc'[t], Msg("ask", d))
  BY <1>7, <1>8, Sent
<1>10. toGs \in [Numbers -> Seq(GsMessage)]
  BY DEF TypeInv
<1>11. TypeInv'
  BY <1>4, <1>5, <1>9 DEF TypeInv
<1>12. /\ DOMAIN cards' = Fellows
       /\ \A e \in Fellows : DOMAIN cards'[e] \subseteq DOMAIN cards[e]
       /\ \A e \in Fellows : \A d \in DOMAIN cards'[e] :
            /\ cards'[e][d] \in Mark
            /\ d # c \/ playsOn[e] # s => cards'[e][d] = cards[e][d]
  BY <1>4, <1>6, MarkedBooks
<1>13. Books'
  BY <1>4, <1>12 DEF Books
<1>14. ASSUME NEW t \in Numbers, NEW d \in Fellows \ cutOff PROVE Settled(t, d)'
  <2>1. Settled(t, d)
    BY DEF AllSettled
  <2>2. ASSUME t # s \/ d # c PROVE RightOn(t, d) => RightOn(t, d)'
    BY <1>4, <1>12, <2>2, SameCards
  <2>3. CASE t # s
    <3>1. toGs'[t] = toGs[t]
      BY <1>4, <1>10, <2>3
    <3>2. QED
      BY <1>4, <1>9, <2>1, <2>2, <2>3, <3>1, Unmoved
  <2>4. CASE t = s
    <3>1. toGs'[s] = Tail(q)
      BY <1>4, <1>10
    <3>2. PICK o : o = online[d]
      OBVIOUS
    <3>3. /\ NoAnswer(q, d) => NoAnswer(Tail(q), d) /\ d # c
          /\ LastAnswer(q, d, o) => \/ LastAnswer(Tail(q), d, o)
                                    \/ d = c /\ v = o /\ NoAnswer(Tail(q), d)
      BY <1>2, <1>4, <1>5, AnswersTail
    <3>4. Msg("cast", d) # Head(q)
      BY <1>4 DEF Msg
    <3>5. Has(q, Msg("cast", d)) => Has(Tail(q), Msg("cast", d))
      BY <1>4, <1>5, <3>4, HasTail
    <3>6. d = c /\ v = o => RightOn(s, d)'
      BY <1>3, <1>4, <1>6, <3>2, AnswerMakesRight
    <3>7. QED
      BY <1>1, <1>4, <1>9, <2>1, <2>2, <2>4, <3>1, <3>2, <3>3, <3>5, <3>6 DEF Settled, Hears
  <2>5. QED
    BY <2>3, <2>4
<1>15. QED
  BY <1>4, <1>9, <1>11, <1>13, <1>14 DEF AllSettled

\* A crash takes the characters of its server out of the game, and what it
\* would have told.
LEMMA CrashStep ==
    ASSUME IInv, NEW s \in Numbers, GsCrash(s)
    PROVE  IInv'
<1> USE DEF IInv
<1> DEFINE lost == {c \in Fellows : playsOn[c] = s}
<1>1. /\ held' \subseteq held
      /\ playsOn' = [c \in Fellows |-> IF c \in lost THEN 0 ELSE playsOn[c]]
      /\ cards' = [c \in Fellows |-> IF c \in lost THEN <<>> ELSE cards[c]]
      /\ cutOff' = cutOff \cup {c \in Fellows : Has(toAc[s], Msg("cast", c))}
      /\ toAc' = [toAc EXCEPT ![s] = <<>>] /\ toGs' = [toGs EXCEPT ![s] = <<>>]
      /\ moves < MaxMoves /\ moves' = moves + 1
      /\ UNCHANGED <<online, savedCards>>
  BY DEF GsCrash, Move, Has
<1>2. TypeInv'
  BY <1>1 DEF TypeInv
<1>3. /\ DOMAIN cards' = Fellows
      /\ \A c \in lost : DOMAIN cards'[c] = {}
      /\ \A c \in Fellows \ lost : cards'[c] = cards[c] /\ playsOn'[c] = playsOn[c]
  BY <1>1
<1>4. Books'
  BY <1>1, <1>3 DEF Books
<1>5. /\ toAc'[s] = <<>> /\ toGs'[s] = <<>>
      /\ \A t \in Numbers \ {s} : toAc'[t] = toAc[t] /\ toGs'[t] = toGs[t]
  BY <1>1 DEF TypeInv
<1>6. ChangesAreTold'
  BY <1>5 DEF ChangesAreTold, Followed
<1>7. ASSUME NEW t \in Numbers, NEW d \in Fellows \ cutOff' PROVE Settled(t, d)'
  <2>1. d \notin cutOff /\ ~ Has(toAc[s], Msg("cast", d))
    BY <1>1
  <2>2. CASE t = s
    <3>1. NoAnswer(toGs'[s], d)
      BY <1>5 DEF NoAnswer
    <3>2. RightOn(s, d)'
      <4>1. ASSUME NEW e \in Fellows PROVE playsOn'[e] # s
        BY <1>1
      <4>2. QED
        BY <4>1 DEF RightOn
    <3>3. QED
      BY <2>2, <3>1, <3>2 DEF Settled
  <2>3. CASE t # s
    <3>1. CastPending(d) => CastPending(d)'
      BY <1>5, <2>1 DEF CastPending
    <3>2. RightOn(t, d) => RightOn(t, d)'
      <4>1. ASSUME NEW e \in Fellows, playsOn'[e] = t
            PROVE  playsOn[e] = t /\ cards'[e] = cards[e]
        BY <1>1, <4>1
      <4>2. playsOn'[d] = playsOn[d] \/ (playsOn[d] # t /\ playsOn'[d] # t)
        BY <1>1, <2>3
      <4>3. QED
        BY <1>1, <4>1, <4>2, SameCards
    <3>3. Settled(t, d)
      BY <2>1 DEF AllSettled
    <3>4. QED
      BY <1>1, <1>5, <2>3, <3>1, <3>2, <3>3, Unmoved
  <2>4. QED
    BY <2>2, <2>3
<1>8. QED
  BY <1>2, <1>4, <1>6, <1>7 DEF AllSettled

\* What the account server takes leaves a stream whose changes are told.
LEMMA Taken ==
    ASSUME IInv, NEW s \in Numbers, toAc[s] # <<>>, NEW m, m = Head(toAc[s]), NEW c, c = m.of,
           toAc' = [toAc EXCEPT ![s] = Tail(toAc[s])]
    PROVE  /\ m \in AcMessage /\ toAc' \in [Numbers -> Seq(AcMessage)] /\ ChangesAreTold'
           /\ m.t \in Changes => CastPending(c)'
<1>1. toAc \in [Numbers -> Seq(AcMessage)]
  BY DEF IInv, TypeInv
<1>2. PICK q \in Seq(AcMessage) : q = toAc[s]
  BY <1>1
<1>3. q # <<>> /\ m = Head(q) /\ toAc' = [toAc EXCEPT ![s] = Tail(q)] /\ Followed(q)
  BY <1>2 DEF IInv, ChangesAreTold
<1>4. m \in AcMessage /\ Tail(q) \in Seq(AcMessage)
  BY <1>3, HeadTailProperties
<1>5. Followed(Tail(q)) /\ (m.t \in Changes => Has(Tail(q), Msg("cast", c)))
  BY <1>3, FollowedTail
<1>6. /\ toAc' \in [Numbers -> Seq(AcMessage)] /\ toAc'[s] = Tail(q)
      /\ \A t \in Numbers \ {s} : toAc'[t] = toAc[t]
  BY <1>1, <1>3, <1>4
<1>7. ChangesAreTold'
  BY <1>5, <1>6 DEF IInv, ChangesAreTold
<1>8. m.t \in Changes => CastPending(c)'
  BY <1>5, <1>6 DEF CastPending
<1>9. QED
  BY <1>4, <1>6, <1>7, <1>8

\* What is not taken stays.
LEMMA NotTaken ==
    ASSUME IInv, NEW s \in Numbers, toAc[s] # <<>>, NEW t \in Numbers, NEW n, n # Head(toAc[s]) \/ t # s,
           toAc' = [toAc EXCEPT ![s] = Tail(toAc[s])], Has(toAc[t], n)
    PROVE  Has(toAc'[t], n)
<1>1. toAc \in [Numbers -> Seq(AcMessage)]
  BY DEF IInv, TypeInv
<1>2. PICK q \in Seq(AcMessage) : q = toAc[s]
  BY <1>1
<1>3. toAc'[s] = Tail(q) /\ \A u \in Numbers \ {s} : toAc'[u] = toAc[u]
  BY <1>1, <1>2
<1>4. CASE t = s
  BY <1>2, <1>3, <1>4, HasTail
<1>5. CASE t # s
  BY <1>3, <1>5
<1>6. QED
  BY <1>4, <1>5

\* A broadcast that comes back behind what a server hears already
LEMMA CastHeard ==
    ASSUME NEW q \in Seq(GsMessage), NEW c \in Fellows, NEW d \in Fellows, NEW v
    PROVE  /\ Append(q, Msg("cast", c)) \in Seq(GsMessage)
           /\ Has(Append(q, Msg("cast", c)), Msg("cast", c))
           /\ Has(q, Msg("cast", d)) => Has(Append(q, Msg("cast", c)), Msg("cast", d))
           /\ NoAnswer(q, d) => NoAnswer(Append(q, Msg("cast", c)), d)
           /\ LastAnswer(q, d, v) => LastAnswer(Append(q, Msg("cast", c)), d, v)
<1>1. Msg("cast", c) \in GsMessage /\ Msg("cast", c).t = "cast"
  BY DEF Msg, GsMessage
<1> DEFINE e == Msg("cast", c)
           n == Msg("cast", d)
<1>2. e \in GsMessage /\ ~ (e.t = "answer" /\ e.of = d)
  BY <1>1
<1> HIDE DEF e, n
<1>3. /\ Append(q, e) \in Seq(GsMessage) /\ Has(Append(q, e), e)
      /\ Has(q, n) => Has(Append(q, e), n)
  BY <1>2, HasAppend
<1>4. /\ NoAnswer(q, d) => NoAnswer(Append(q, e), d)
      /\ LastAnswer(q, d, v) => LastAnswer(Append(q, e), d, v)
  BY <1>2, OtherBehind
<1>5. QED
  BY <1>3, <1>4 DEF e, n

\* The account server takes a request.
LEMMA AcStep ==
    ASSUME IInv, NEW s \in Numbers, AcTakes(s)
    PROVE  IInv'
<1> USE DEF IInv
<1>1. PICK m : m = Head(toAc[s])
  OBVIOUS
<1>2. PICK c : c = m.of
  OBVIOUS
<1>3. /\ toAc[s] # <<>> /\ toAc' = [toAc EXCEPT ![s] = Tail(toAc[s])]
      /\ cutOff' = IF m.t = "cast" THEN cutOff \ {c} ELSE cutOff
      /\ UNCHANGED <<playsOn, cards, savedCards, moves>>
  BY <1>1, <1>2 DEF AcTakes
<1>4. \/ m.t = "save" /\ held' = held \ {c} /\ UNCHANGED <<online, toGs>>
      \/ m.t = "update" /\ online' = [online EXCEPT ![c] = m.mark] /\ UNCHANGED <<held, toGs>>
      \/ m.t = "delete" /\ online' = [online EXCEPT ![c] = Gone] /\ UNCHANGED <<held, toGs>>
      \/ /\ m.t = "ask" /\ UNCHANGED <<held, online>>
         /\ toGs' = [toGs EXCEPT ![s] = Append(toGs[s], [t |-> "answer", of |-> c, mark |-> online[c]])]
      \/ m.t = "cast" /\ Broadcast(c, Numbers) /\ UNCHANGED <<held, online>>
      \/ m.t = "castOthers" /\ Broadcast(c, Numbers \ {s}) /\ UNCHANGED <<held, online>>
  BY <1>1, <1>2 DEF AcTakes
<1>5. /\ m \in AcMessage /\ toAc' \in [Numbers -> Seq(AcMessage)] /\ ChangesAreTold'
      /\ m.t \in Changes => CastPending(c)'
      /\ \A d \in Fellows : m # Msg("cast", d) => (CastPending(d) => CastPending(d)')
      /\ \A t \in Numbers, d \in Fellows : m # Msg("ask", d) \/ t # s =>
           (Has(toAc[t], Msg("ask", d)) => Has(toAc'[t], Msg("ask", d)))
  <2>1. IInv
    OBVIOUS
  <2> HIDE DEF IInv
  <2>2. /\ m = Head(toAc[s]) /\ c = m.of /\ toAc[s] # <<>>
        /\ toAc' = [toAc EXCEPT ![s] = Tail(toAc[s])]
    BY <1>1, <1>2, <1>3
  <2>3. m \in AcMessage /\ toAc' \in [Numbers -> Seq(AcMessage)] /\ ChangesAreTold'
    BY <2>1, <2>2, Taken
  <2>4. m.t \in Changes => CastPending(c)'
    BY <2>1, <2>2, Taken
  <2>5. ASSUME NEW d \in Fellows, m # Msg("cast", d), CastPending(d) PROVE CastPending(d)'
    <3>1. PICK t \in Numbers : Has(toAc[t], Msg("cast", d))
      BY <2>5 DEF CastPending
    <3>2. Has(toAc'[t], Msg("cast", d))
      BY <2>1, <2>2, <2>5, <3>1, NotTaken
    <3>3. QED
      BY <3>2 DEF CastPending
  <2>6. ASSUME NEW t \in Numbers, NEW d \in Fellows, m # Msg("ask", d) \/ t # s, Has(toAc[t], Msg("ask", d))
        PROVE  Has(toAc'[t], Msg("ask", d))
    BY <2>1, <2>2, <2>6, NotTaken
  <2>7. QED
    BY <2>3, <2>4, <2>5, <2>6
<1>6. /\ c \in Fellows /\ (m.t = "update" => m.mark \in Mark)
      /\ m.t # "update" => m = Msg(m.t, c)
  BY <1>2, <1>5, AcKinds
<1>7. toGs \in [Numbers -> Seq(GsMessage)] /\ online \in [Fellows -> Mark \cup {Gone}]
  BY DEF TypeInv
<1>8. ASSUME NEW d \in Fellows, d # c \/ m.t # "cast" PROVE m # Msg("cast", d)
  BY <1>6, <1>8, <1>2 DEF Msg
<1>9. ASSUME NEW d \in Fellows, d # c \/ m.t # "ask" PROVE m # Msg("ask", d)
  BY <1>6, <1>9, <1>2 DEF Msg
<1>10. ASSUME TypeInv', \A t \in Numbers, d \in Fellows \ cutOff' : Settled(t, d)'
       PROVE  IInv'
  BY <1>3, <1>5, <1>10 DEF AllSettled, Books
<1>11. ASSUME NEW t \in Numbers, NEW d \in Fellows, online'[d] = online[d]
       PROVE  RightOn(t, d) => RightOn(t, d)'
  BY <1>3, <1>11, SameCards
<1>12. ASSUME NEW t \in Numbers, NEW d \in Fellows \ cutOff PROVE Settled(t, d)
  BY DEF AllSettled
<1>13. CASE m.t = "save" /\ held' = held \ {c} /\ UNCHANGED <<online, toGs>>
  <2>1. TypeInv'
    BY <1>3, <1>5, <1>13 DEF TypeInv
  <2>2. ASSUME NEW t \in Numbers, NEW d \in Fellows \ cutOff' PROVE Settled(t, d)'
    <3>1. Settled(t, d) /\ m # Msg("cast", d) /\ m # Msg("ask", d)
      BY <1>3, <1>8, <1>9, <1>12, <1>13
    <3>2. QED
      BY <1>5, <1>11, <1>13, <3>1, Unmoved
  <2>3. QED
    BY <1>10, <2>1, <2>2
<1>14. ASSUME NEW v \in Mark \cup {Gone}, m.t \in Changes, online' = [online EXCEPT ![c] = v],
              UNCHANGED <<held, toGs>>
       PROVE  IInv'
  <2>1. TypeInv'
    BY <1>3, <1>5, <1>14 DEF TypeInv
  <2>2. ASSUME NEW t \in Numbers, NEW d \in Fellows \ cutOff' PROVE Settled(t, d)'
    <3>1. CASE d = c
      BY <1>5, <1>14, <3>1 DEF Settled
    <3>2. CASE d # c
      <4>1. Settled(t, d) /\ m # Msg("cast", d) /\ m # Msg("ask", d)
        BY <1>3, <1>8, <1>9, <1>12, <1>14, <3>2 DEF Changes
      <4>2. online'[d] = online[d]
        BY <1>7, <1>14, <3>2
      <4>3. QED
        BY <1>5, <1>11, <1>14, <4>1, <4>2, Unmoved
    <3>3. QED
      BY <3>1, <3>2
  <2>3. QED
    BY <1>10, <2>1, <2>2
<1>15. CASE /\ m.t = "ask" /\ UNCHANGED <<held, online>>
            /\ toGs' = [toGs EXCEPT ![s] = Append(toGs[s], [t |-> "answer", of |-> c, mark |-> online[c]])]
  <2> DEFINE e == [t |-> "answer", of |-> c, mark |-> online[c]]
  <2>1. e \in GsMessage /\ e.t = "answer" /\ e.of = c /\ e.mark = online[c]
    BY <1>6, <1>7 DEF GsMessage
  <2> HIDE DEF e
  <2>2. PICK q \in Seq(GsMessage) : q = toGs[s]
    BY <1>7
  <2>3. toGs' = [toGs EXCEPT ![s] = Append(q, e)] /\ Append(q, e) \in Seq(GsMessage)
    BY <1>15, <2>1, <2>2, AppendProperties DEF e
  <2>4. /\ toGs' \in [Numbers -> Seq(GsMessage)] /\ toGs'[s] = Append(q, e)
        /\ \A t \in Numbers \ {s} : toGs'[t] = toGs[t]
    BY <1>7, <2>3
  <2>5. TypeInv'
    BY <1>3, <1>5, <1>15, <2>4 DEF TypeInv
  <2>6. ASSUME NEW t \in Numbers, NEW d \in Fellows \ cutOff' PROVE Settled(t, d)'
    <3>1. Settled(t, d) /\ m # Msg("cast", d)
      BY <1>3, <1>8, <1>12, <1>15
    <3>2. CASE t # s
      BY <1>5, <1>11, <1>15, <2>4, <3>1, <3>2, Unmoved
    <3>3. CASE t = s /\ d = c
      <4>1. LastAnswer(toGs'[s], c, online'[c])
        BY <1>15, <2>1, <2>4, AnswerBehind
      <4>2. QED
        BY <3>3, <4>1 DEF Settled
    <3>4. CASE t = s /\ d # c
      <4>1. PICK v : v = online[d]
        OBVIOUS
      <4>2. /\ NoAnswer(q, d) => NoAnswer(Append(q, e), d)
            /\ LastAnswer(q, d, v) => LastAnswer(Append(q, e), d, v)
        BY <2>1, <3>4, OtherBehind
      <4>3. Has(q, Msg("cast", d)) => Has(Append(q, e), Msg("cast", d))
        BY <2>1, HasAppend
      <4>4. m # Msg("ask", d)
        BY <1>9, <3>4
      <4>5. QED
        BY <1>5, <1>11, <1>15, <2>2, <2>4, <3>1, <3>4, <4>1, <4>2, <4>3, <4>4 DEF Settled, Hears
    <3>5. QED
      BY <3>2, <3>3, <3>4
  <2>7. QED
    BY <1>10, <2>5, <2>6
<1>16. ASSUME NEW to \in SUBSET Numbers, m.t \in {"cast", "castOthers"}, Broadcast(c, to),
              m.t = "cast" => to = Numbers, UNCHANGED <<held, online>>
       PROVE  IInv'
  <2>1. toGs' = [t \in Numbers |-> IF t \in to THEN Append(toGs[t], Msg("cast", c)) ELSE toGs[t]]
    BY <1>16 DEF Broadcast
  <2>2. toGs' \in [Numbers -> Seq(GsMessage)]
    BY <1>6, <1>7, <2>1, CastHeard
  <2>3. TypeInv'
    BY <1>3, <1>5, <1>16, <2>2 DEF TypeInv
  <2>4. ASSUME NEW t \in Numbers, NEW d \in Fellows \ cutOff' PROVE Settled(t, d)'
    <3>1. CASE m.t = "cast" /\ d = c
      <4>1. toGs'[t] = Append(toGs[t], Msg("cast", c))
        BY <1>16, <2>1, <3>1
      <4>2. Has(toGs'[t], Msg("cast", c))
        <5>1. Msg("cast", c) \in GsMessage
          BY <1>6 DEF Msg, GsMessage
        <5>2. QED
          BY <1>7, <4>1, <5>1, HasAppend
      <4>3. QED
        BY <3>1, <4>2 DEF Settled, Hears
    <3>2. CASE ~ (m.t = "cast" /\ d = c)
      <4>1. Settled(t, d) /\ m # Msg("cast", d) /\ m # Msg("ask", d)
        BY <1>3, <1>8, <1>9, <1>12, <1>16, <3>2
      <4>2. CASE t \notin to
        <5>1. toGs'[t] = toGs[t]
          BY <2>1, <4>2
        <5>2. QED
          BY <1>5, <1>11, <1>16, <4>1, <5>1, Unmoved
      <4>3. CASE t \in to
        <5>1. PICK q \in Seq(GsMessage) : q = toGs[t]
          BY <1>7
        <5>2. toGs'[t] = Append(q, Msg("cast", c))
          BY <2>1, <4>3, <5>1
        <5>3. PICK v : v = online[d]
          OBVIOUS
        <5>4. /\ Has(q, Msg("cast", d)) => Has(Append(q, Msg("cast", c)), Msg("cast", d))
              /\ NoAnswer(q, d) => NoAnswer(Append(q, Msg("cast", c)), d)
              /\ LastAnswer(q, d, v) => LastAnswer(Append(q, Msg("cast", c)), d, v)
          BY <1>6, CastHeard
        <5>5. QED
          BY <1>5, <1>11, <1>16, <4>1, <5>1, <5>2, <5>3, <5>4 DEF Settled, Hears
      <4>4. QED
        BY <4>2, <4>3
    <3>3. QED
      BY <3>1, <3>2
  <2>5. QED
    BY <1>10, <2>3, <2>4
<1>17. QED
  <2>1. CASE m.t = "update" /\ online' = [online EXCEPT ![c] = m.mark] /\ UNCHANGED <<held, toGs>>
    BY <1>6, <1>14, <2>1 DEF Changes
  <2>2. CASE m.t = "delete" /\ online' = [online EXCEPT ![c] = Gone] /\ UNCHANGED <<held, toGs>>
    BY <1>14, <2>2 DEF Changes
  <2>3. CASE m.t = "cast" /\ Broadcast(c, Numbers) /\ UNCHANGED <<held, online>>
    BY <1>16, <2>3
  <2>4. CASE m.t = "castOthers" /\ Broadcast(c, Numbers \ {s}) /\ UNCHANGED <<held, online>>
    BY <1>16, <2>4
  <2>5. QED
    BY <1>4, <1>13, <1>15, <2>1, <2>2, <2>3, <2>4

\* Every step keeps the cards settled.
LEMMA NextIInv == IInv /\ [BookNext]_bookVars => IInv'
<1> SUFFICES ASSUME IInv, [BookNext]_bookVars PROVE IInv'
  OBVIOUS
<1>1. ASSUME NEW c \in Movers, NEW s \in Numbers, notifyLogin(s, c) \/ DeleteChar(s, c) PROVE IInv'
  BY <1>1, LoginStep, DeleteStep
<1>2. ASSUME NEW c \in Movers, notifyLogout(c) PROVE IInv'
  BY <1>2, LogoutStep
<1>3. ASSUME NEW c \in Fellows, NEW d \in Fellows, addAddressBook(c, d) \/ deleteEntry(c, d) PROVE IInv'
  BY <1>3, AddStep, DeleteEntryStep
<1>4. ASSUME NEW s \in Numbers, AcTakes(s) \/ Broadcast_recv(s) \/ DBGetEntryString_recv(s) \/ GsCrash(s)
      PROVE  IInv'
  BY <1>4, AcStep, BroadcastStep, AnswerStep, CrashStep
<1>5. CASE UNCHANGED bookVars
  <2>1. TypeInv' /\ Books'
    BY <1>5 DEF bookVars, IInv, TypeInv, Books
  <2>2. ASSUME NEW t \in Numbers, NEW d \in Fellows PROVE RightOn(t, d) => RightOn(t, d)'
    BY <1>5, SameCards DEF bookVars
  <2>3. QED
    BY <1>5, <2>1, <2>2, QuietStep DEF bookVars
<1>6. QED
  BY <1>1, <1>2, <1>3, <1>4, <1>5 DEF BookNext

\* The books, the table and the messages keep their types.
LEMMA IInvTypes == IInv => BookTypeOK
<1> SUFFICES ASSUME IInv PROVE BookTypeOK
  OBVIOUS
<1>1. ASSUME NEW c \in Fellows
      PROVE  DOMAIN cards[c] \subseteq Fellows \ {c} /\ \A d \in DOMAIN cards[c] : cards[c][d] \in Mark
  BY DEF IInv, Books
<1>2. QED
  BY <1>1 DEF IInv, TypeInv, BookTypeOK

\* At rest no message will set a card right: so it is right.
LEMMA IInvCards == IInv => CardsFollowTheTable
<1> SUFFICES ASSUME IInv, \A s \in Numbers : toAc[s] = <<>> /\ toGs[s] = <<>>,
                    NEW c \in Fellows, NEW d \in DOMAIN cards[c] \ cutOff
             PROVE  RightCard(c, d)
  BY DEF CardsFollowTheTable, RightCard
<1>1. d \in Fellows \ cutOff /\ playsOn[c] \in Numbers
  BY DEF IInv, TypeInv, Books
<1>2. ASSUME NEW m PROVE ~ Has(<<>>, m)
  BY DEF Has
<1>3. ASSUME NEW v PROVE ~ LastAnswer(<<>>, d, v)
  BY DEF LastAnswer
<1>4. ~ CastPending(d) /\ ~ Hears(playsOn[c], d)
  BY <1>1, <1>2 DEF CastPending, Hears
<1>5. ~ LastAnswer(toGs[playsOn[c]], d, online[d])
  BY <1>1, <1>3
<1>6. QED
  BY <1>1, <1>4, <1>5 DEF IInv, AllSettled, Settled, RightOn

\* The inductive invariant of the address books
THEOREM Inductive == BookSpec => []IInv
  BY InitIInv, NextIInv, PTL DEF BookSpec

\* Books, table, messages and marks keep their types, for every number of
\* characters and game servers.
THEOREM BookTypeCorrect == BookSpec => []BookTypeOK
  BY Inductive, IInvTypes, PTL

\* When all messages are through every card shows what the table of the account
\* server says of its owner, or what its own server knows better - whoever
\* logged in, out, was deleted or crashed meanwhile, and in whatever order the
\* servers heard of it; but for the characters whose last broadcast a crash lost.
THEOREM CardsSettle == BookSpec => []CardsFollowTheTable
  BY Inductive, IInvCards, PTL

----------------------------------------------------------------------------
(* The mail between characters. *)

HIDE BookAssumption
HIDE DEF BookAssumption, Gone, Mark

USE MailAssumption DEF MailAssumption, NoHost

Content(q) == {q[i] : i \in DOMAIN q}

Flush(c)  == [t |-> "MessageFlush", to |-> c]
Ack(c, m) == [t |-> "MessageAck", to |-> c, id |-> m]

\* A message about mail m for c: the mail, if the account server still has it,
\* is for c and has been sent out.
Right(c, m) == /\ m \in 1 .. mailId - 1
               /\ m \in DOMAIN mailbuf => mailbuf[m].to = c /\ mailbuf[m].state = "WAIT_ACK"

\* The server h will hear of mail m for c, or has heard.
ToldAt(h, c, m) == \/ Flush(c) \in Content(upMail[h])
                   \/ \E d \in Content(downMail[h]) : d.id = m
                   \/ Ack(c, m) \in Content(upMail[h])

MailTypeInv ==
    /\ isOn \in [People -> Hosts \cup {NoHost}] /\ using \subseteq People
    /\ mailId \in 1 .. MaxMails + 1
    /\ DOMAIN mailbuf \subseteq 1 .. mailId - 1 /\ \A m \in DOMAIN mailbuf : mailbuf[m] \in Entry
    /\ DOMAIN mailFiles = DOMAIN mailbuf
    /\ \A m \in DOMAIN mailFiles : mailFiles[m] = [from |-> mailbuf[m].from, to |-> mailbuf[m].to]
    /\ upMail \in [Hosts -> Seq(Up)] /\ downMail \in [Hosts -> Seq(Down)]
    /\ had \subseteq 1 .. mailId - 1 /\ logins \in 0 .. MaxLogins

RightInv ==
    \A h \in Hosts :
        /\ \A d \in Content(downMail[h]) : Right(d.to, d.id)
        /\ \A a \in Content(upMail[h]) : a.t = "MessageAck" => Right(a.to, a.id) /\ a.id \in had

Told == \A m \in DOMAIN mailbuf, c \in People :
            mailbuf[m].to = c /\ isOn[c] # NoHost => ToldAt(isOn[c], c, m)

MailIInv == MailTypeInv /\ RightInv /\ Told
----------------------------------------------------------------------------
(* Messages under way. *)

\* What one stream holds is followed by what another holds.
LEMMA ContentConcat ==
    ASSUME NEW S, NEW q \in Seq(S), NEW r \in Seq(S)
    PROVE  q \o r \in Seq(S) /\ Content(q \o r) = Content(q) \cup Content(r)
<1>1. /\ q \o r \in Seq(S) /\ Len(q \o r) = Len(q) + Len(r)
      /\ \A i \in 1 .. Len(q) + Len(r) : (q \o r)[i] = IF i <= Len(q) THEN q[i] ELSE r[i - Len(q)]
  BY ConcatProperties
<1>2. /\ DOMAIN q = 1 .. Len(q) /\ DOMAIN r = 1 .. Len(r) /\ Len(q) \in Nat /\ Len(r) \in Nat
      /\ DOMAIN (q \o r) = 1 .. Len(q) + Len(r)
  BY <1>1, LenProperties
<1>3. ASSUME NEW i \in DOMAIN r PROVE i + Len(q) \in DOMAIN (q \o r) /\ (q \o r)[i + Len(q)] = r[i]
  BY <1>1, <1>2
<1>4. Content(r) \subseteq Content(q \o r)
  BY <1>3 DEF Content
<1>5. Content(q) \subseteq Content(q \o r) /\ Content(q \o r) \subseteq Content(q) \cup Content(r)
  BY <1>1, <1>2 DEF Content
<1> QED BY <1>1, <1>4, <1>5

\* The first message is taken.
LEMMA ContentTail ==
    ASSUME NEW S, NEW q \in Seq(S), q # <<>>
    PROVE  Head(q) \in S /\ Tail(q) \in Seq(S) /\ Content(q) = {Head(q)} \cup Content(Tail(q))
<1>1. /\ Head(q) \in S /\ Tail(q) \in Seq(S) /\ Len(Tail(q)) = Len(q) - 1
      /\ \A i \in 1 .. Len(Tail(q)) : Tail(q)[i] = q[i + 1]
  BY HeadTailProperties
<1>2. /\ DOMAIN q = 1 .. Len(q) /\ Len(q) \in Nat \ {0} /\ DOMAIN Tail(q) = 1 .. Len(q) - 1
      /\ Head(q) = q[1]
  BY <1>1, LenProperties, EmptySeq
<1>3. ASSUME NEW i \in DOMAIN q, i # 1 PROVE i - 1 \in DOMAIN Tail(q) /\ Tail(q)[i - 1] = q[i]
  <2>1. i - 1 \in 1 .. Len(q) - 1 /\ (i - 1) + 1 = i
    BY <1>2, <1>3
  <2> QED BY <1>1, <1>2, <2>1
<1>4. Content(q) \subseteq {Head(q)} \cup Content(Tail(q))
  BY <1>2, <1>3 DEF Content
<1>5. Content(Tail(q)) \subseteq Content(q) /\ Head(q) \in Content(q)
  BY <1>1, <1>2 DEF Content
<1> QED BY <1>1, <1>4, <1>5

\* A message is put at the end.
LEMMA ContentAppend ==
    ASSUME NEW S, NEW q \in Seq(S), NEW x \in S
    PROVE  Append(q, x) \in Seq(S) /\ Content(Append(q, x)) = Content(q) \cup {x}
<1>1. /\ Append(q, x) \in Seq(S) /\ Len(Append(q, x)) = Len(q) + 1
      /\ \A i \in 1 .. Len(q) : Append(q, x)[i] = q[i]
      /\ Append(q, x)[Len(q) + 1] = x
  BY AppendProperties
<1>2. /\ DOMAIN q = 1 .. Len(q) /\ Len(q) \in Nat /\ DOMAIN Append(q, x) = 1 .. Len(q) + 1
  BY <1>1, LenProperties
<1> QED BY <1>1, <1>2 DEF Content

\* Streams of no, one and two messages
LEMMA ContentFew ==
    ASSUME NEW S
    PROVE  /\ <<>> \in Seq(S) /\ Content(<<>>) = {}
           /\ \A a \in S : <<a>> \in Seq(S) /\ Content(<<a>>) = {a}
           /\ \A a, b \in S : <<a, b>> \in Seq(S) /\ Content(<<a, b>>) = {a, b}
<1>1. <<>> \in Seq(S) /\ Len(<<>>) = 0
  BY EmptySeq
<1>2. Content(<<>>) = {}
  BY <1>1 DEF Content
<1>3. ASSUME NEW a \in S PROVE <<a>> \in Seq(S) /\ Content(<<a>>) = {a}
  BY DEF Content
<1>4. ASSUME NEW a \in S, NEW b \in S PROVE <<a, b>> \in Seq(S) /\ Content(<<a, b>>) = {a, b}
  BY DEF Content
<1> QED BY <1>1, <1>2, <1>3, <1>4

\* A game server writes.
LEMMA Posted ==
    ASSUME upMail \in [Hosts -> Seq(Up)], NEW h \in Hosts, NEW msgs \in Seq(Up), Post(h, msgs)
    PROVE  /\ upMail' \in [Hosts -> Seq(Up)]
           /\ \A g \in Hosts : Content(upMail'[g]) = Content(upMail[g]) \cup (IF g = h THEN Content(msgs) ELSE {})
<1>1. upMail[h] \o msgs \in Seq(Up) /\ Content(upMail[h] \o msgs) = Content(upMail[h]) \cup Content(msgs)
  BY ContentConcat
<1>2. /\ upMail' \in [Hosts -> Seq(Up)]
      /\ \A g \in Hosts : upMail'[g] = IF g = h THEN upMail[h] \o msgs ELSE upMail[g]
  BY <1>1 DEF Post
<1> QED BY <1>1, <1>2

\* The account server takes a request.
LEMMA MailTaken ==
    ASSUME upMail \in [Hosts -> Seq(Up)], NEW h \in Hosts, NEW kind, Takes(h, kind)
    PROVE  /\ upMail' \in [Hosts -> Seq(Up)]
           /\ Head(upMail[h]) \in Up /\ Head(upMail[h]).t = kind /\ Head(upMail[h]) \in Content(upMail[h])
           /\ \A g \in Hosts : /\ Content(upMail'[g]) \subseteq Content(upMail[g])
                               /\ Content(upMail[g]) \subseteq Content(upMail'[g]) \cup {Head(upMail[h])}
                               /\ g # h => Content(upMail'[g]) = Content(upMail[g])
<1>1. upMail[h] \in Seq(Up) /\ upMail[h] # <<>>
  BY DEF Takes
<1>2. /\ Head(upMail[h]) \in Up /\ Tail(upMail[h]) \in Seq(Up)
      /\ Content(upMail[h]) = {Head(upMail[h])} \cup Content(Tail(upMail[h]))
  BY <1>1, ContentTail
<1>3. /\ upMail' \in [Hosts -> Seq(Up)]
      /\ \A g \in Hosts : upMail'[g] = IF g = h THEN Tail(upMail[h]) ELSE upMail[g]
  BY <1>2 DEF Takes
<1> QED BY <1>2, <1>3 DEF Takes

\* The kinds of requests
LEMMA UpKinds ==
    ASSUME NEW a \in Up
    PROVE  /\ a.t \in {"Message", "MessageAck", "MessageFlush", "save"} /\ a.to \in People
           /\ a.t = "MessageAck" => a.id \in MailIds /\ a = Ack(a.to, a.id)
           /\ a.t = "MessageFlush" => a = Flush(a.to)
           /\ a.t = "Message" => a.from \in People \cup {System}
BY DEF Up, Ack, Flush
----------------------------------------------------------------------------
(* What the steps do to the mails. *)

\* No mail comes but with the next id; a mail that stays keeps its addressee,
\* and once it has been sent out it remains so.
Steady ==
    /\ mailId' \in {mailId, mailId + 1}
    /\ \A m \in DOMAIN mailbuf' :
          m # mailId => /\ m \in DOMAIN mailbuf /\ mailbuf'[m].to = mailbuf[m].to
                        /\ mailbuf'[m].state \in {mailbuf[m].state, "WAIT_ACK"}

\* What was right of a mail stays right.
LEMMA SteadyRight ==
    ASSUME MailIInv, Steady, NEW c, NEW m, Right(c, m)
    PROVE  Right(c, m)'
<1>1. mailId \in Nat
  BY DEF MailIInv, MailTypeInv
<1>2. m \in 1 .. mailId - 1 /\ mailId' \in {mailId, mailId + 1}
  BY DEF Steady, Right
<1>3. m # mailId /\ m \in 1 .. mailId' - 1
  <2>1. CASE mailId' = mailId
    BY <1>1, <1>2, <2>1
  <2>2. CASE mailId' = mailId + 1
    BY <1>1, <1>2, <2>2
  <2> QED BY <1>2, <2>1, <2>2
<1> QED BY <1>3 DEF Steady, Right

\* A step that adds to the streams only what is right.
LEMMA RightStep ==
    ASSUME MailIInv, Steady, had \subseteq had',
           \A h \in Hosts :
              /\ \A a \in Content(upMail'[h]) :
                    a \in Content(upMail[h]) \/ (a.t = "MessageAck" => Right(a.to, a.id) /\ a.id \in had')
              /\ \A d \in Content(downMail'[h]) : d \in Content(downMail[h]) \/ Right(d.to, d.id)'
    PROVE  RightInv'
<1>1. ASSUME NEW h \in Hosts, NEW d \in Content(downMail'[h]) PROVE Right(d.to, d.id)'
  <2>1. Right(d.to, d.id) \/ Right(d.to, d.id)'
    BY <1>1 DEF MailIInv, RightInv
  <2> QED BY <2>1, SteadyRight
<1>2. ASSUME NEW h \in Hosts, NEW a \in Content(upMail'[h]), a.t = "MessageAck"
      PROVE  Right(a.to, a.id)' /\ a.id \in had'
  <2>1. Right(a.to, a.id) /\ a.id \in had'
    BY <1>2 DEF MailIInv, RightInv
  <2> QED BY <2>1, SteadyRight
<1> QED BY <1>1, <1>2 DEF RightInv

\* A step after which the server of everybody online will hear of each mail for
\* them, or would have before and nothing was taken from its streams.
LEMMA ToldStep ==
    ASSUME MailIInv, Steady,
           \A c \in People, m \in DOMAIN mailbuf' :
              mailbuf'[m].to = c /\ isOn'[c] # NoHost =>
                 \/ ToldAt(isOn[c], c, m)'
                 \/ m # mailId /\ isOn'[c] = isOn[c] /\ (ToldAt(isOn[c], c, m) => ToldAt(isOn[c], c, m)')
    PROVE  Told'
<1> SUFFICES ASSUME NEW m \in DOMAIN mailbuf', NEW c \in People, mailbuf'[m].to = c, isOn'[c] # NoHost
             PROVE  ToldAt(isOn[c], c, m)'
  BY DEF Told
<1>1. m # mailId => m \in DOMAIN mailbuf /\ mailbuf[m].to = c
  BY DEF Steady
<1>2. m # mailId /\ isOn[c] # NoHost => ToldAt(isOn[c], c, m)
  BY <1>1 DEF MailIInv, Told
<1> QED BY <1>1, <1>2
----------------------------------------------------------------------------
(* The steps. *)

\* A game server writes anything but an acknowledgement, of somebody who comes
\* online there, or whose mail it asks for.
LEMMA PostStep ==
    ASSUME MailIInv, NEW h \in Hosts, NEW a \in Up, a.t # "MessageAck", Post(h, <<a>>),
           mailbuf' = mailbuf, mailFiles' = mailFiles, mailId' = mailId, downMail' = downMail, had' = had,
           isOn' \in [People -> Hosts \cup {NoHost}], using' \subseteq People, logins' \in 0 .. MaxLogins,
           \A c \in People : isOn'[c] \in {NoHost, isOn[c]} \/ (isOn'[c] = h /\ a = Flush(c))
    PROVE  MailIInv'
<1> DEFINE q == <<a>>
<1>1. q \in Seq(Up) /\ Content(q) = {a} /\ Post(h, q)
  <2>1. <<a>> \in Seq(Up) /\ Content(<<a>>) = {a}
    BY ContentFew
  <2> QED BY <2>1
<1> HIDE DEF q
<1>2. /\ upMail' \in [Hosts -> Seq(Up)]
      /\ \A g \in Hosts : Content(upMail'[g]) = Content(upMail[g]) \cup (IF g = h THEN {a} ELSE {})
  <2>1. upMail \in [Hosts -> Seq(Up)]
    BY DEF MailIInv, MailTypeInv
  <2>2. /\ upMail' \in [Hosts -> Seq(Up)]
        /\ \A g \in Hosts : Content(upMail'[g]) = Content(upMail[g]) \cup (IF g = h THEN Content(q) ELSE {})
    BY <1>1, <2>1, Posted
  <2> QED BY <1>1, <2>2
<1>3. MailTypeInv'
  BY <1>2 DEF MailIInv, MailTypeInv
<1>4. Steady
  BY DEF Steady
<1>5. RightInv'
  <2>1. ASSUME NEW g \in Hosts
        PROVE  /\ \A b \in Content(upMail'[g]) :
                    b \in Content(upMail[g]) \/ (b.t = "MessageAck" => Right(b.to, b.id) /\ b.id \in had')
               /\ \A e \in Content(downMail'[g]) : e \in Content(downMail[g]) \/ Right(e.to, e.id)'
    BY <1>2
  <2> QED BY <1>4, <2>1, RightStep
<1>6. Told'
  <2>1. \A g \in Hosts, e \in People : \A m : ToldAt(g, e, m) => ToldAt(g, e, m)'
    BY <1>2 DEF ToldAt
  <2>2. ASSUME NEW c \in People, NEW m \in DOMAIN mailbuf', isOn'[c] # NoHost
        PROVE  \/ ToldAt(isOn[c], c, m)'
               \/ m # mailId /\ isOn'[c] = isOn[c] /\ (ToldAt(isOn[c], c, m) => ToldAt(isOn[c], c, m)')
    <3>1. m # mailId
      BY DEF MailIInv, MailTypeInv
    <3>2. CASE isOn'[c] = isOn[c]
      <4>1. PICK g \in Hosts : g = isOn[c] /\ g = isOn'[c]
        BY <2>2, <3>2 DEF MailIInv, MailTypeInv
      <4>2. ToldAt(g, c, m) => ToldAt(g, c, m)'
        BY <2>1
      <4> QED BY <3>1, <3>2, <4>1, <4>2 DEF ToldAt
    <3>3. CASE isOn'[c] = h /\ a = Flush(c)
      BY <1>2, <3>3 DEF ToldAt
    <3> QED BY <2>2, <3>2, <3>3
  <2> QED BY <1>4, <2>2, ToldStep
<1> QED BY <1>3, <1>5, <1>6 DEF MailIInv

\* A mail on its way disturbs nothing.
LEMMA SendStep ==
    ASSUME MailIInv, NEW c \in People, NEW d \in People, sendMessage(c, d)
    PROVE  MailIInv'
<1> DEFINE a == [t |-> "Message", from |-> c, to |-> d]
<1>1. /\ isOn[c] \in Hosts /\ a \in Up /\ a.t # "MessageAck" /\ Post(isOn[c], <<a>>)
      /\ UNCHANGED <<isOn, using, mailbuf, mailFiles, mailId, downMail, had, logins>>
  BY DEF sendMessage, MailIInv, MailTypeInv, Up
<1>2. /\ isOn' \in [People -> Hosts \cup {NoHost}] /\ using' \subseteq People /\ logins' \in 0 .. MaxLogins
      /\ \A e \in People : isOn'[e] \in {NoHost, isOn[e]}
  BY <1>1 DEF MailIInv, MailTypeInv
<1> HIDE DEF a
<1> QED BY <1>1, <1>2, PostStep

\* Who comes online asks for the mail.
LEMMA MailLoginStep ==
    ASSUME MailIInv, NEW h \in Hosts, NEW c \in People, Login(h, c)
    PROVE  MailIInv'
<1> DEFINE a == Flush(c)
<1>1. a \in Up /\ a.t # "MessageAck"
  BY DEF Up, Flush
<1>2. /\ Post(h, <<a>>) /\ UNCHANGED <<mailbuf, mailFiles, mailId, downMail, had>>
      /\ isOn' = [isOn EXCEPT ![c] = h] /\ using' = using \cup {c} /\ logins < MaxLogins /\ logins' = logins + 1
  BY DEF Login, Flush
<1>3. /\ isOn' \in [People -> Hosts \cup {NoHost}] /\ using' \subseteq People /\ logins' \in 0 .. MaxLogins
      /\ \A e \in People : isOn'[e] \in {NoHost, isOn[e]} \/ (isOn'[e] = h /\ a = Flush(e))
  BY <1>2 DEF MailIInv, MailTypeInv
<1> HIDE DEF a
<1> QED BY <1>1, <1>2, <1>3, PostStep

\* Who goes offline waits for nothing.
LEMMA MailLogoutStep ==
    ASSUME MailIInv, NEW c \in People, Logout(c)
    PROVE  MailIInv'
<1> DEFINE a == [t |-> "save", to |-> c]
<1>1. a \in Up /\ a.t # "MessageAck"
  BY DEF Up
<1>2. /\ isOn[c] \in Hosts /\ Post(isOn[c], <<a>>) /\ UNCHANGED <<mailbuf, mailFiles, mailId, downMail, had>>
      /\ isOn' = [isOn EXCEPT ![c] = NoHost] /\ UNCHANGED <<using, logins>>
  BY DEF Logout, MailIInv, MailTypeInv
<1>3. /\ isOn' \in [People -> Hosts \cup {NoHost}] /\ using' \subseteq People /\ logins' \in 0 .. MaxLogins
      /\ \A e \in People : isOn'[e] \in {NoHost, isOn[e]}
  BY <1>2 DEF MailIInv, MailTypeInv
<1> HIDE DEF a
<1> QED BY <1>1, <1>2, <1>3, PostStep

\* A mail that arrives where its addressee is will be acknowledged.
LEMMA ReceiveStep ==
    ASSUME MailIInv, NEW h \in Hosts, Message_recv(h)
    PROVE  MailIInv'
<1> DEFINE d == Head(downMail[h])
           A == Answers(h, d)
           back == [t |-> "Message", from |-> System, to |-> d.from]
<1>1. /\ downMail[h] \in Seq(Down) /\ downMail[h] # <<>>
      /\ downMail' = [downMail EXCEPT ![h] = Tail(downMail[h])]
      /\ Post(h, A) /\ had' = IF isOn[d.to] = h THEN had \cup {d.id} ELSE had
      /\ UNCHANGED <<isOn, using, mailbuf, mailFiles, mailId, logins>>
  BY DEF Message_recv, MailIInv, MailTypeInv
<1>2. /\ d \in Down /\ Tail(downMail[h]) \in Seq(Down)
      /\ Content(downMail[h]) = {d} \cup Content(Tail(downMail[h]))
  BY <1>1, ContentTail
<1>3. /\ downMail' \in [Hosts -> Seq(Down)]
      /\ \A g \in Hosts : downMail'[g] = IF g = h THEN Tail(downMail[h]) ELSE downMail[g]
  BY <1>1, <1>2 DEF MailIInv, MailTypeInv
<1>4. Right(d.to, d.id)
  BY <1>2 DEF MailIInv, RightInv
<1>5. /\ d.to \in People /\ d.id \in MailIds /\ d.from \in People \cup {System}
      /\ Ack(d.to, d.id) \in Up /\ Ack(d.to, d.id).t = "MessageAck"
      /\ Ack(d.to, d.id).to = d.to /\ Ack(d.to, d.id).id = d.id
  BY <1>2 DEF Down, Up, Ack
<1> HIDE DEF d
<1>6. /\ A \in Seq(Up) /\ Content(A) \subseteq Up
      /\ \A a \in Content(A) : a.t = "MessageAck" => isOn[d.to] = h /\ a = Ack(d.to, d.id)
      /\ isOn[d.to] = h => Ack(d.to, d.id) \in Content(A)
  <2>1. CASE isOn[d.to] # h
    <3>1. A = <<>>
      BY <2>1 DEF Answers
    <3> QED BY <2>1, <3>1, ContentFew
  <2>2. CASE isOn[d.to] = h /\ d.from # System /\ <<d.from, d.to>> \notin Knows
    <3>1. A = <<back, Ack(d.to, d.id)>>
      BY <2>2 DEF Answers, Ack
    <3>2. back \in Up /\ back.t # "MessageAck"
      BY <1>5, <2>2 DEF Up
    <3> HIDE DEF back, A
    <3>3. A \in Seq(Up) /\ Content(A) = {back, Ack(d.to, d.id)}
      BY <1>5, <3>1, <3>2, ContentFew
    <3> QED BY <1>5, <2>2, <3>2, <3>3
  <2>3. CASE isOn[d.to] = h /\ ~ (d.from # System /\ <<d.from, d.to>> \notin Knows)
    <3>1. A = <<Ack(d.to, d.id)>>
      BY <2>3 DEF Answers, Ack
    <3> HIDE DEF back, A
    <3>3. A \in Seq(Up) /\ Content(A) = {Ack(d.to, d.id)}
      BY <1>5, <3>1, ContentFew
    <3> QED BY <1>5, <2>3, <3>3
  <2> QED BY <2>1, <2>2, <2>3
<1> HIDE DEF A
<1>7. /\ upMail' \in [Hosts -> Seq(Up)]
      /\ \A g \in Hosts : Content(upMail'[g]) = Content(upMail[g]) \cup (IF g = h THEN Content(A) ELSE {})
  <2>1. upMail \in [Hosts -> Seq(Up)]
    BY DEF MailIInv, MailTypeInv
  <2> QED BY <1>1, <1>6, <2>1, Posted
<1>8. MailTypeInv'
  <2>1. d.id \in 1 .. mailId - 1
    BY <1>4 DEF Right
  <2>2. had' \subseteq 1 .. mailId' - 1
    BY <1>1, <2>1 DEF MailIInv, MailTypeInv
  <2> QED BY <1>1, <1>3, <1>7, <2>2 DEF MailIInv, MailTypeInv
<1>9. Steady
  BY <1>1 DEF Steady
<1>10. RightInv'
  <2>1. ASSUME NEW g \in Hosts
        PROVE  /\ \A b \in Content(upMail'[g]) :
                    b \in Content(upMail[g]) \/ (b.t = "MessageAck" => Right(b.to, b.id) /\ b.id \in had')
               /\ \A e \in Content(downMail'[g]) : e \in Content(downMail[g]) \/ Right(e.to, e.id)'
    BY <1>1, <1>2, <1>3, <1>4, <1>5, <1>6, <1>7
  <2> QED BY <1>1, <1>9, <2>1, RightStep
<1>11. Told'
  <2>1. ASSUME NEW c \in People, NEW m \in DOMAIN mailbuf', mailbuf[m].to = c, isOn'[c] # NoHost,
               ToldAt(isOn[c], c, m)
        PROVE  ToldAt(isOn[c], c, m)'
    <3>1. PICK g \in Hosts : g = isOn[c] /\ g = isOn'[c] /\ m \in DOMAIN mailbuf
      BY <1>1, <2>1 DEF MailIInv, MailTypeInv
    <3>2. CASE Flush(c) \in Content(upMail[g]) \/ Ack(c, m) \in Content(upMail[g])
      BY <1>7, <3>1, <3>2 DEF ToldAt
    <3>3. CASE \E e \in Content(downMail[g]) : e.id = m
      <4>1. PICK e \in Content(downMail[g]) : e.id = m
        BY <3>3
      <4>2. CASE e \in Content(downMail'[g])
        BY <3>1, <4>1, <4>2 DEF ToldAt
      <4>3. CASE e \notin Content(downMail'[g])
        <5>1. g = h /\ e = d
          BY <1>2, <1>3, <3>1, <4>1, <4>3
        <5>2. d.to = c /\ d.id = m
          BY <1>4, <2>1, <3>1, <4>1, <5>1 DEF Right
        <5>3. Ack(c, m) \in Content(upMail'[g])
          BY <1>6, <1>7, <3>1, <5>1, <5>2
        <5> QED BY <3>1, <5>3 DEF ToldAt
      <4> QED BY <4>2, <4>3
    <3> QED BY <2>1, <3>1, <3>2, <3>3 DEF ToldAt
  <2>2. \A m \in DOMAIN mailbuf' : m # mailId /\ mailbuf'[m] = mailbuf[m]
    BY <1>1 DEF MailIInv, MailTypeInv
  <2> QED BY <1>1, <1>9, <2>1, <2>2, ToldStep
<1> QED BY <1>8, <1>10, <1>11 DEF MailIInv

\* A mail is accepted: every server is told, and what is told is right.
LEMMA AcceptStep ==
    ASSUME MailIInv, NEW h \in Hosts, receiveMail(h)
    PROVE  MailIInv'
<1> DEFINE a == Head(upMail[h])
           x == [from |-> a.from, to |-> a.to, state |-> "WAIT_ACK", old |-> FALSE]
           y == [from |-> a.from, to |-> a.to]
           d == [from |-> a.from, to |-> a.to, id |-> mailId]
<1>0. mailId \in Nat \ {0} /\ upMail \in [Hosts -> Seq(Up)] /\ downMail \in [Hosts -> Seq(Down)]
  BY DEF MailIInv, MailTypeInv
<1>1. /\ Takes(h, "Message") /\ UNCHANGED <<isOn, using, had, logins>>
      /\ \/ /\ mailId \in MailIds /\ mailId' = mailId + 1
            /\ mailbuf' = With(mailbuf, mailId, x) /\ mailFiles' = With(mailFiles, mailId, y)
            /\ downMail' = [g \in Hosts |-> Append(downMail[g], d)]
         \/ mailId' = mailId /\ mailbuf' = mailbuf /\ mailFiles' = mailFiles /\ downMail' = downMail
  BY DEF receiveMail
<1>2. /\ upMail' \in [Hosts -> Seq(Up)] /\ a \in Up /\ a.t = "Message"
      /\ \A g \in Hosts : /\ Content(upMail'[g]) \subseteq Content(upMail[g])
                          /\ Content(upMail[g]) \subseteq Content(upMail'[g]) \cup {a}
  BY <1>0, <1>1, MailTaken
<1>3. a.to \in People /\ a.from \in People \cup {System}
  BY <1>2, UpKinds
<1> HIDE DEF a
<1>4. /\ x \in Entry /\ x.from = a.from /\ x.to = a.to /\ x.state = "WAIT_ACK" /\ y = [from |-> x.from, to |-> x.to]
      /\ mailId \in MailIds => d \in Down
      /\ d.id = mailId /\ d.to = a.to
  BY <1>3 DEF Entry, Down
<1> HIDE DEF x, y, d
<1>5. ASSUME NEW g \in Hosts, NEW c \in People, NEW m, ToldAt(g, c, m), Content(downMail[g]) \subseteq Content(downMail'[g])
      PROVE  ToldAt(g, c, m)'
  <2>1. Flush(c) # a /\ Ack(c, m) # a
    BY <1>2 DEF Flush, Ack
  <2> QED BY <1>2, <1>5, <2>1 DEF ToldAt
<1>6. CASE mailId' = mailId /\ mailbuf' = mailbuf /\ mailFiles' = mailFiles /\ downMail' = downMail
  <2>1. MailTypeInv'
    BY <1>1, <1>2, <1>6 DEF MailIInv, MailTypeInv
  <2>2. Steady
    BY <1>6 DEF Steady
  <2>3. RightInv'
    <3>1. ASSUME NEW g \in Hosts
          PROVE  /\ \A b \in Content(upMail'[g]) :
                      b \in Content(upMail[g]) \/ (b.t = "MessageAck" => Right(b.to, b.id) /\ b.id \in had')
                 /\ \A e \in Content(downMail'[g]) : e \in Content(downMail[g]) \/ Right(e.to, e.id)'
      BY <1>2, <1>6
    <3> QED BY <1>1, <2>2, <3>1, RightStep
  <2>4. Told'
    <3>1. ASSUME NEW c \in People, NEW m \in DOMAIN mailbuf', isOn'[c] # NoHost
          PROVE  m # mailId /\ isOn'[c] = isOn[c] /\ (ToldAt(isOn[c], c, m) => ToldAt(isOn[c], c, m)')
      <4>1. PICK g \in Hosts : g = isOn[c] /\ g = isOn'[c]
        BY <1>1, <3>1 DEF MailIInv, MailTypeInv
      <4>2. m # mailId
        BY <1>6 DEF MailIInv, MailTypeInv
      <4>3. ToldAt(g, c, m) => ToldAt(g, c, m)'
        BY <1>5, <1>6
      <4> QED BY <4>1, <4>2, <4>3 DEF ToldAt
    <3> QED BY <2>2, <3>1, ToldStep
  <2> QED BY <2>1, <2>3, <2>4 DEF MailIInv
<1>7. CASE /\ mailId \in MailIds /\ mailId' = mailId + 1
           /\ mailbuf' = With(mailbuf, mailId, x) /\ mailFiles' = With(mailFiles, mailId, y)
           /\ downMail' = [g \in Hosts |-> Append(downMail[g], d)]
  <2>1. /\ downMail' \in [Hosts -> Seq(Down)]
        /\ \A g \in Hosts : Content(downMail'[g]) = Content(downMail[g]) \cup {d}
    <3>1. \A g \in Hosts : /\ Append(downMail[g], d) \in Seq(Down)
                           /\ Content(Append(downMail[g], d)) = Content(downMail[g]) \cup {d}
      BY <1>0, <1>4, <1>7, ContentAppend
    <3> QED BY <1>7, <3>1
  <2>2. /\ DOMAIN mailbuf' = DOMAIN mailbuf \cup {mailId} /\ mailbuf'[mailId] = x
        /\ \A m \in DOMAIN mailbuf : m # mailId => mailbuf'[m] = mailbuf[m]
    BY <1>7 DEF With
  <2>3. /\ DOMAIN mailFiles' = DOMAIN mailFiles \cup {mailId} /\ mailFiles'[mailId] = y
        /\ \A m \in DOMAIN mailFiles : m # mailId => mailFiles'[m] = mailFiles[m]
    BY <1>7 DEF With
  <2>4. mailId \notin DOMAIN mailbuf
    BY <1>0 DEF MailIInv, MailTypeInv
  <2>5. MailTypeInv'
    <3>1. DOMAIN mailbuf' \subseteq 1 .. mailId' - 1 /\ had' \subseteq 1 .. mailId' - 1 /\ mailId' \in 1 .. MaxMails + 1
      BY <1>0, <1>1, <1>7, <2>2 DEF MailIInv, MailTypeInv, MailIds
    <3>2. \A m \in DOMAIN mailbuf' : mailbuf'[m] \in Entry
      BY <1>4, <2>2, <2>4 DEF MailIInv, MailTypeInv
    <3>3. DOMAIN mailFiles' = DOMAIN mailbuf'
      BY <2>2, <2>3 DEF MailIInv, MailTypeInv
    <3>4. \A m \in DOMAIN mailFiles' : mailFiles'[m] = [from |-> mailbuf'[m].from, to |-> mailbuf'[m].to]
      BY <1>4, <2>2, <2>3, <2>4 DEF MailIInv, MailTypeInv
    <3> QED BY <1>1, <1>2, <2>1, <3>1, <3>2, <3>3, <3>4 DEF MailIInv, MailTypeInv
  <2>6. Steady
    BY <1>7, <2>2 DEF Steady
  <2>7. RightInv'
    <3>1. PICK f \in Down : f = d
      BY <1>4, <1>7
    <3>3. f.id = mailId /\ f.to = x.to
      BY <1>4, <3>1
    <3>4. Right(f.to, f.id)'
      <4>1. f.id \in 1 .. mailId' - 1
        BY <1>0, <1>7, <3>3
      <4> QED BY <1>4, <2>2, <3>3, <4>1 DEF Right
    <3>2. ASSUME NEW g \in Hosts
          PROVE  /\ \A b \in Content(upMail'[g]) :
                      b \in Content(upMail[g]) \/ (b.t = "MessageAck" => Right(b.to, b.id) /\ b.id \in had')
                 /\ \A e \in Content(downMail'[g]) : e \in Content(downMail[g]) \/ Right(e.to, e.id)'
      <4>1. \A e \in Content(downMail'[g]) : e \in Content(downMail[g]) \/ e = f
        BY <2>1, <3>1
      <4> QED BY <1>2, <3>4, <4>1
    <3> QED BY <1>1, <2>6, <3>2, RightStep
  <2>8. Told'
    <3>1. ASSUME NEW c \in People, NEW m \in DOMAIN mailbuf', isOn'[c] # NoHost
          PROVE  \/ ToldAt(isOn[c], c, m)'
                 \/ m # mailId /\ isOn'[c] = isOn[c] /\ (ToldAt(isOn[c], c, m) => ToldAt(isOn[c], c, m)')
      <4>1. PICK g \in Hosts : g = isOn[c] /\ g = isOn'[c]
        BY <1>1, <3>1 DEF MailIInv, MailTypeInv
      <4>2. CASE m = mailId
        <5>1. d \in Content(downMail'[g]) /\ d.id = m
          BY <1>4, <2>1, <4>2
        <5> QED BY <4>1, <5>1 DEF ToldAt
      <4>3. CASE m # mailId
        <5>1. ToldAt(g, c, m) => ToldAt(g, c, m)'
          BY <1>5, <2>1
        <5> QED BY <4>1, <4>3, <5>1 DEF ToldAt
      <4> QED BY <4>2, <4>3
    <3> QED BY <2>6, <3>1, ToldStep
  <2> QED BY <2>5, <2>7, <2>8 DEF MailIInv
<1> QED BY <1>1, <1>6, <1>7

\* A step that changes only what is kept of the mails: it drops some of them,
\* with their files, and lets others grow old.
LEMMA DropStep ==
    ASSUME MailIInv, UNCHANGED <<isOn, mailId, downMail, had, logins>>, using' \subseteq using,
           upMail' \in [Hosts -> Seq(Up)],
           \A g \in Hosts : Content(upMail'[g]) \subseteq Content(upMail[g]),
           DOMAIN mailbuf' \subseteq DOMAIN mailbuf, DOMAIN mailFiles' = DOMAIN mailbuf',
           \A m \in DOMAIN mailbuf' : /\ mailFiles'[m] = mailFiles[m] /\ mailbuf'[m] \in Entry
                                      /\ mailbuf'[m].from = mailbuf[m].from /\ mailbuf'[m].to = mailbuf[m].to
                                      /\ mailbuf'[m].state = mailbuf[m].state,
           \A g \in Hosts, m \in DOMAIN mailbuf' : \A a \in Content(upMail[g]) :
              a \in {Ack(mailbuf[m].to, m), Flush(mailbuf[m].to)} => a \in Content(upMail'[g])
    PROVE  MailIInv'
<1>1. MailTypeInv'
  <2>1. /\ isOn' \in [People -> Hosts \cup {NoHost}] /\ using' \subseteq People
        /\ mailId' \in 1 .. MaxMails + 1 /\ DOMAIN mailbuf' \subseteq 1 .. mailId' - 1
        /\ downMail' \in [Hosts -> Seq(Down)]
        /\ had' \subseteq 1 .. mailId' - 1 /\ logins' \in 0 .. MaxLogins
    BY DEF MailIInv, MailTypeInv
  <2>2. \A m \in DOMAIN mailFiles' : mailFiles'[m] = [from |-> mailbuf'[m].from, to |-> mailbuf'[m].to]
    BY DEF MailIInv, MailTypeInv
  <2> QED BY <2>1, <2>2 DEF MailTypeInv
<1>2. Steady
  BY DEF Steady
<1>3. RightInv'
  <2>1. ASSUME NEW g \in Hosts
        PROVE  /\ \A b \in Content(upMail'[g]) :
                    b \in Content(upMail[g]) \/ (b.t = "MessageAck" => Right(b.to, b.id) /\ b.id \in had')
               /\ \A e \in Content(downMail'[g]) : e \in Content(downMail[g]) \/ Right(e.to, e.id)'
    OBVIOUS
  <2> QED BY <1>2, <2>1, RightStep
<1>4. Told'
  <2>1. ASSUME NEW c \in People, NEW m \in DOMAIN mailbuf', mailbuf'[m].to = c, isOn'[c] # NoHost
        PROVE  m # mailId /\ isOn'[c] = isOn[c] /\ (ToldAt(isOn[c], c, m) => ToldAt(isOn[c], c, m)')
    <3>1. PICK g \in Hosts : g = isOn[c] /\ g = isOn'[c]
      BY <2>1 DEF MailIInv, MailTypeInv
    <3>2. m # mailId
      BY DEF MailIInv, MailTypeInv
    <3>3. mailbuf[m].to = c
      BY <2>1
    <3>4. ToldAt(g, c, m) => ToldAt(g, c, m)'
      BY <3>3 DEF ToldAt
    <3> QED BY <3>1, <3>2, <3>4 DEF ToldAt
  <2> QED BY <1>2, <2>1, ToldStep
<1> QED BY <1>1, <1>3, <1>4 DEF MailIInv

\* An acknowledgement drops its mail, if that is still there.
LEMMA AckStep ==
    ASSUME MailIInv, NEW h \in Hosts, receiveMailAck(h)
    PROVE  MailIInv'
<1> DEFINE a == Head(upMail[h])
           acked == {m \in DOMAIN mailbuf : m = a.id /\ mailbuf[m].to = a.to /\ mailbuf[m].state = "WAIT_ACK"}
<1>1. /\ Takes(h, "MessageAck") /\ UNCHANGED <<isOn, using, mailId, downMail, had, logins>>
      /\ mailbuf' = Without(mailbuf, acked) /\ mailFiles' = Without(mailFiles, acked)
  BY DEF receiveMailAck
<1>2. upMail \in [Hosts -> Seq(Up)] /\ DOMAIN mailFiles = DOMAIN mailbuf /\ \A m \in DOMAIN mailbuf : mailbuf[m] \in Entry
  BY DEF MailIInv, MailTypeInv
<1>3. /\ upMail' \in [Hosts -> Seq(Up)] /\ a \in Up /\ a.t = "MessageAck" /\ a \in Content(upMail[h])
      /\ \A g \in Hosts : /\ Content(upMail'[g]) \subseteq Content(upMail[g])
                          /\ Content(upMail[g]) \subseteq Content(upMail'[g]) \cup {a}
  BY <1>1, <1>2, MailTaken
<1>4. Right(a.to, a.id)
  BY <1>3 DEF MailIInv, RightInv
<1>5. /\ DOMAIN mailbuf' = DOMAIN mailbuf \ acked /\ DOMAIN mailFiles' = DOMAIN mailbuf \ acked
      /\ \A m \in DOMAIN mailbuf' : mailbuf'[m] = mailbuf[m] /\ mailFiles'[m] = mailFiles[m]
  <2> HIDE DEF acked
  <2> QED BY <1>1, <1>2 DEF Without
<1>6. ASSUME NEW m \in DOMAIN mailbuf' PROVE a # Ack(mailbuf[m].to, m) /\ a # Flush(mailbuf[m].to)
  <2>1. a # Flush(mailbuf[m].to)
    BY <1>3 DEF Flush
  <2>2. ASSUME a = Ack(mailbuf[m].to, m) PROVE FALSE
    <3>1. a.id = m /\ a.to = mailbuf[m].to
      BY <2>2 DEF Ack
    <3>2. m \in DOMAIN mailbuf
      BY <1>5
    <3>3. mailbuf[m].state = "WAIT_ACK"
      BY <1>4, <3>1, <3>2 DEF Right
    <3> QED BY <1>5, <3>1, <3>2, <3>3
  <2> QED BY <2>1, <2>2
<1> HIDE DEF a, acked
<1>7. /\ UNCHANGED <<isOn, mailId, downMail, had, logins>> /\ using' \subseteq using
      /\ DOMAIN mailbuf' \subseteq DOMAIN mailbuf /\ DOMAIN mailFiles' = DOMAIN mailbuf'
      /\ \A m \in DOMAIN mailbuf' : /\ mailFiles'[m] = mailFiles[m] /\ mailbuf'[m] \in Entry
                                    /\ mailbuf'[m].from = mailbuf[m].from /\ mailbuf'[m].to = mailbuf[m].to
                                    /\ mailbuf'[m].state = mailbuf[m].state
  BY <1>1, <1>2, <1>5
<1>8. \A g \in Hosts, m \in DOMAIN mailbuf' : \A b \in Content(upMail[g]) :
              b \in {Ack(mailbuf[m].to, m), Flush(mailbuf[m].to)} => b \in Content(upMail'[g])
  BY <1>3, <1>6
<1> QED BY <1>3, <1>7, <1>8, DropStep

\* A final save is not about mail.
LEMMA SaveStep ==
    ASSUME MailIInv, NEW h \in Hosts, Save(h)
    PROVE  MailIInv'
<1> DEFINE a == Head(upMail[h])
<1>1. /\ Takes(h, "save") /\ UNCHANGED <<isOn, mailbuf, mailFiles, mailId, downMail, had, logins>>
      /\ using' \subseteq using
  BY DEF Save
<1>2. upMail \in [Hosts -> Seq(Up)] /\ DOMAIN mailFiles = DOMAIN mailbuf /\ \A m \in DOMAIN mailbuf : mailbuf[m] \in Entry
  BY DEF MailIInv, MailTypeInv
<1>3. /\ upMail' \in [Hosts -> Seq(Up)] /\ a \in Up /\ a.t = "save"
      /\ \A g \in Hosts : /\ Content(upMail'[g]) \subseteq Content(upMail[g])
                          /\ Content(upMail[g]) \subseteq Content(upMail'[g]) \cup {a}
  BY <1>1, <1>2, MailTaken
<1>4. \A m \in DOMAIN mailbuf' : a # Ack(mailbuf[m].to, m) /\ a # Flush(mailbuf[m].to)
  BY <1>3 DEF Ack, Flush
<1> HIDE DEF a
<1>7. /\ UNCHANGED <<isOn, mailId, downMail, had, logins>> /\ using' \subseteq using
      /\ DOMAIN mailbuf' \subseteq DOMAIN mailbuf /\ DOMAIN mailFiles' = DOMAIN mailbuf'
      /\ \A m \in DOMAIN mailbuf' : /\ mailFiles'[m] = mailFiles[m] /\ mailbuf'[m] \in Entry
                                    /\ mailbuf'[m].from = mailbuf[m].from /\ mailbuf'[m].to = mailbuf[m].to
                                    /\ mailbuf'[m].state = mailbuf[m].state
  BY <1>1, <1>2
<1>8. \A g \in Hosts, m \in DOMAIN mailbuf' : \A b \in Content(upMail[g]) :
              b \in {Ack(mailbuf[m].to, m), Flush(mailbuf[m].to)} => b \in Content(upMail'[g])
  BY <1>3, <1>4
<1> QED BY <1>3, <1>7, <1>8, DropStep

\* An hour makes the mails old.
LEMMA HourStep ==
    ASSUME MailIInv, Hour
    PROVE  MailIInv'
<1>1. /\ UNCHANGED <<isOn, using, mailFiles, mailId, upMail, downMail, had, logins>>
      /\ mailbuf' = [m \in DOMAIN mailbuf |-> [mailbuf[m] EXCEPT !.old = TRUE]]
  BY DEF Hour
<1>2. /\ upMail \in [Hosts -> Seq(Up)] /\ DOMAIN mailFiles = DOMAIN mailbuf /\ \A m \in DOMAIN mailbuf : mailbuf[m] \in Entry
  BY DEF MailIInv, MailTypeInv
<1>3. \A m \in DOMAIN mailbuf' : /\ mailbuf'[m] \in Entry
                                 /\ mailbuf'[m].from = mailbuf[m].from /\ mailbuf'[m].to = mailbuf[m].to
                                 /\ mailbuf'[m].state = mailbuf[m].state
  BY <1>1, <1>2 DEF Entry
<1>4. DOMAIN mailbuf' = DOMAIN mailbuf
  BY <1>1
<1> QED BY <1>1, <1>2, <1>3, <1>4, DropStep

\* Old mails go.
LEMMA ExpireStep ==
    ASSUME MailIInv, expireMail
    PROVE  MailIInv'
<1> DEFINE expired == {m \in DOMAIN mailbuf : mailbuf[m].old}
<1>1. /\ UNCHANGED <<isOn, using, mailId, upMail, downMail, had, logins>>
      /\ mailbuf' = Without(mailbuf, expired) /\ mailFiles' = Without(mailFiles, expired)
  BY DEF expireMail
<1>2. /\ upMail \in [Hosts -> Seq(Up)] /\ DOMAIN mailFiles = DOMAIN mailbuf /\ \A m \in DOMAIN mailbuf : mailbuf[m] \in Entry
  BY DEF MailIInv, MailTypeInv
<1> HIDE DEF expired
<1>3. /\ DOMAIN mailbuf' = DOMAIN mailbuf \ expired /\ DOMAIN mailFiles' = DOMAIN mailbuf \ expired
      /\ \A m \in DOMAIN mailbuf' : mailbuf'[m] = mailbuf[m] /\ mailFiles'[m] = mailFiles[m]
  BY <1>1, <1>2 DEF Without
<1> QED BY <1>1, <1>2, <1>3, DropStep

\* The place of a number in a set of numbers
Rank(F, m) == Cardinality({k \in F : k <= m})

\* The numbers of a finite set have the places 1, 2, ..., each its own.
LEMMA Ranks ==
    ASSUME NEW F, F \subseteq Nat, IsFiniteSet(F)
    PROVE  /\ Cardinality(F) \in Nat
           /\ \A m \in F : Rank(F, m) \in 1 .. Cardinality(F)
           /\ \A m, k \in F : Rank(F, m) = Rank(F, k) => m = k
           /\ \A n \in 1 .. Cardinality(F) : \E m \in F : Rank(F, m) = n
<1> DEFINE N == Cardinality(F)
           B(m) == {k \in F : k <= m}
           r == [m \in F |-> Cardinality(B(m))]
<1>1. N \in Nat
  BY FS_CardinalityType
<1>2. ASSUME NEW m \in F PROVE IsFiniteSet(B(m)) /\ m \in B(m) /\ Cardinality(B(m)) \in 1 .. N
  <2>1. B(m) \in SUBSET F /\ m \in B(m)
    OBVIOUS
  <2> DEFINE T == B(m)
  <2> HIDE DEF T
  <2>2. IsFiniteSet(T) /\ Cardinality(T) <= N /\ Cardinality(T) \in Nat
    BY <2>1, FS_Subset, FS_CardinalityType DEF T
  <2>3. Cardinality(T) # 0
    BY <2>1, <2>2, FS_EmptySet DEF T
  <2> QED BY <1>1, <2>1, <2>2, <2>3 DEF T
<1>3. ASSUME NEW m \in F, NEW k \in F, m < k PROVE Cardinality(B(m)) # Cardinality(B(k))
  <2> DEFINE S == B(k)
             T == B(m)
  <2>0. k \in Nat /\ m \in Nat /\ m < k /\ k <= k /\ ~ k <= m
    BY <1>3
  <2>1. T \in SUBSET S /\ k \in S /\ k \notin T
    <3>1. ASSUME NEW j \in F, j <= m PROVE j <= k
      <4>1. j \in Nat
        OBVIOUS
      <4> QED BY <2>0, <3>1, <4>1
    <3> QED BY <2>0, <3>1
  <2>2. IsFiniteSet(S)
    BY <1>2
  <2> HIDE DEF S, T
  <2>3. Cardinality(S) # Cardinality(T)
    BY <2>1, <2>2, FS_Subset
  <2> QED BY <2>3 DEF S, T
<1>4. ASSUME NEW m \in F, NEW k \in F, Cardinality(B(m)) = Cardinality(B(k)) PROVE m = k
  <2>1. m \in Nat /\ k \in Nat
    OBVIOUS
  <2>2. ~ m < k /\ ~ k < m
    BY <1>3, <1>4
  <2> QED BY <2>1, <2>2
<1>5. r \in Injection(F, 1 .. N)
  <2>1. r \in [F -> 1 .. N]
    <3> HIDE DEF N, B
    <3> QED BY <1>2
  <2>2. \A m, k \in F : r[m] = r[k] => m = k
    <3> HIDE DEF N, B
    <3> QED BY <1>4
  <2> HIDE DEF r
  <2> QED BY <2>1, <2>2 DEF Injection, IsInjective
<1>6. IsFiniteSet(1 .. N) /\ Cardinality(1 .. N) = N
  <2> HIDE DEF N
  <2>1. IsFiniteSet(1 .. N) /\ Cardinality(1 .. N) = IF 1 > N THEN 0 ELSE N - 1 + 1
    BY <1>1, FS_Interval
  <2> QED BY <1>1, <2>1
<1>7. r \in Surjection(F, 1 .. N)
  <2> HIDE DEF r
  <2> QED BY <1>5, <1>6, FS_Injection
<1>8. \A n \in 1 .. N : \E m \in F : r[m] = n
  <2> HIDE DEF r, N
  <2> QED BY <1>7 DEF Surjection
<1>9. \A m \in F : r[m] = Rank(F, m)
  BY DEF Rank
<1> HIDE DEF r
<1> QED BY <1>1, <1>2, <1>4, <1>8, <1>9 DEF Rank

\* The mail of a character is sent again, all of it.
LEMMA FlushStep ==
    ASSUME MailIInv, NEW h \in Hosts, flushMail(h)
    PROVE  MailIInv'
<1> DEFINE a == Head(upMail[h])
           F == Flushed(a.to)
           Nth(n) == CHOOSE m \in F : Cardinality({k \in F : k <= m}) = n
           D == [n \in 1..Cardinality(F) |-> Delivery(Nth(n))]
<1>1. /\ Takes(h, "MessageFlush") /\ UNCHANGED <<isOn, using, mailFiles, mailId, had, logins>>
      /\ downMail' = [downMail EXCEPT ![h] = downMail[h] \o D]
      /\ mailbuf' = [m \in DOMAIN mailbuf |-> IF m \in F THEN [mailbuf[m] EXCEPT !.state = "WAIT_ACK"] ELSE mailbuf[m]]
  BY DEF flushMail
<1>2. /\ upMail \in [Hosts -> Seq(Up)] /\ downMail \in [Hosts -> Seq(Down)]
      /\ DOMAIN mailFiles = DOMAIN mailbuf /\ \A m \in DOMAIN mailbuf : mailbuf[m] \in Entry
      /\ mailId \in Nat /\ mailId - 1 \in 0 .. MaxMails /\ DOMAIN mailbuf \subseteq 1 .. mailId - 1
  BY DEF MailIInv, MailTypeInv
<1>3. /\ upMail' \in [Hosts -> Seq(Up)] /\ a \in Up /\ a.t = "MessageFlush"
      /\ \A g \in Hosts : /\ Content(upMail'[g]) \subseteq Content(upMail[g])
                          /\ Content(upMail[g]) \subseteq Content(upMail'[g]) \cup {a}
                          /\ g # h => Content(upMail'[g]) = Content(upMail[g])
  BY <1>1, <1>2, MailTaken
<1>4. a.to \in People /\ a = Flush(a.to)
  BY <1>3, UpKinds
<1>5. F \subseteq DOMAIN mailbuf /\ \A m \in DOMAIN mailbuf : m \in F <=> mailbuf[m].to = a.to
  BY DEF Flushed
<1>6. F \subseteq Nat /\ IsFiniteSet(F)
  <2>1. IsFiniteSet(1 .. mailId - 1)
    BY <1>2, FS_Interval
  <2> HIDE DEF F, a
  <2>2. F \in SUBSET (1 .. mailId - 1)
    BY <1>2, <1>5
  <2>3. IsFiniteSet(F)
    BY <2>1, <2>2, FS_Subset
  <2>4. F \subseteq Nat
    BY <1>2, <1>5
  <2> QED BY <2>3, <2>4
<1> HIDE DEF F
<1>7. \A m \in F : Delivery(m) \in Down /\ Delivery(m).id = m /\ Delivery(m).to = a.to
  <2>1. ASSUME NEW m \in F PROVE Delivery(m) \in Down /\ Delivery(m).id = m /\ Delivery(m).to = a.to
    <3>1. m \in MailIds /\ mailbuf[m] \in Entry /\ mailbuf[m].to = a.to
      BY <1>2, <1>5 DEF MailIds
    <3>2. mailbuf[m].from \in People \cup {System} /\ mailbuf[m].to \in People
      BY <3>1 DEF Entry
    <3> QED BY <3>1, <3>2 DEF Delivery, Down
  <2> QED BY <2>1
<1>8. /\ Cardinality(F) \in Nat
      /\ \A m \in F : Rank(F, m) \in 1 .. Cardinality(F)
      /\ \A m, k \in F : Rank(F, m) = Rank(F, k) => m = k
      /\ \A n \in 1 .. Cardinality(F) : \E m \in F : Rank(F, m) = n
  BY <1>6, Ranks
<1>9. \A n \in 1 .. Cardinality(F) : Nth(n) \in F /\ Rank(F, Nth(n)) = n
  BY <1>8 DEF Rank
<1>10. \A m \in F : Nth(Rank(F, m)) = m
  BY <1>8, <1>9
<1> HIDE DEF Nth, a
<1>11. D \in Seq(Down) /\ Content(D) = {Delivery(m) : m \in F}
  <2>1. D \in [1 .. Cardinality(F) -> Down]
    BY <1>7, <1>9
  <2>2. D \in Seq(Down)
    <3> HIDE DEF D
    <3> QED BY <1>8, <2>1, SeqDef
  <2>3. Content(D) = {Delivery(Nth(n)) : n \in 1 .. Cardinality(F)}
    BY DEF Content
  <2>4. {Delivery(Nth(n)) : n \in 1 .. Cardinality(F)} = {Delivery(m) : m \in F}
    <3>1. ASSUME NEW n \in 1 .. Cardinality(F) PROVE \E m \in F : Delivery(Nth(n)) = Delivery(m)
      BY <1>9
    <3>2. ASSUME NEW m \in F PROVE \E n \in 1 .. Cardinality(F) : Delivery(m) = Delivery(Nth(n))
      BY <1>8, <1>10
    <3> QED BY <3>1, <3>2
  <2> QED BY <2>2, <2>3, <2>4
<1> HIDE DEF D
<1>12. /\ downMail' \in [Hosts -> Seq(Down)]
       /\ \A g \in Hosts : Content(downMail'[g]) = Content(downMail[g]) \cup (IF g = h THEN Content(D) ELSE {})
  <2>1. downMail[h] \o D \in Seq(Down) /\ Content(downMail[h] \o D) = Content(downMail[h]) \cup Content(D)
    BY <1>2, <1>11, ContentConcat
  <2>2. /\ downMail' \in [Hosts -> Seq(Down)]
        /\ \A g \in Hosts : downMail'[g] = IF g = h THEN downMail[h] \o D ELSE downMail[g]
    BY <1>1, <1>2, <2>1
  <2> QED BY <2>1, <2>2
<1>13. /\ DOMAIN mailbuf' = DOMAIN mailbuf
       /\ \A m \in DOMAIN mailbuf' : /\ mailbuf'[m] \in Entry
                                     /\ mailbuf'[m].from = mailbuf[m].from /\ mailbuf'[m].to = mailbuf[m].to
                                     /\ mailbuf'[m].state \in {mailbuf[m].state, "WAIT_ACK"}
                                     /\ m \in F => mailbuf'[m].state = "WAIT_ACK"
  <2>1. DOMAIN mailbuf' = DOMAIN mailbuf
    BY <1>1
  <2>2. ASSUME NEW m \in DOMAIN mailbuf, m \in F
        PROVE  /\ mailbuf'[m] \in Entry /\ mailbuf'[m].from = mailbuf[m].from /\ mailbuf'[m].to = mailbuf[m].to
               /\ mailbuf'[m].state = "WAIT_ACK"
    <3>1. mailbuf'[m] = [mailbuf[m] EXCEPT !.state = "WAIT_ACK"] /\ mailbuf[m] \in Entry
      BY <1>1, <1>2, <2>2
    <3> QED BY <3>1 DEF Entry
  <2>3. ASSUME NEW m \in DOMAIN mailbuf, m \notin F PROVE mailbuf'[m] = mailbuf[m]
    BY <1>1, <2>3
  <2> QED BY <1>2, <2>1, <2>2, <2>3
<1>14. MailTypeInv'
  <2>1. /\ isOn' \in [People -> Hosts \cup {NoHost}] /\ using' \subseteq People
        /\ mailId' \in 1 .. MaxMails + 1 /\ DOMAIN mailbuf' \subseteq 1 .. mailId' - 1
        /\ had' \subseteq 1 .. mailId' - 1 /\ logins' \in 0 .. MaxLogins
    BY <1>1, <1>13 DEF MailIInv, MailTypeInv
  <2>2. DOMAIN mailFiles' = DOMAIN mailbuf'
    BY <1>1, <1>2, <1>13
  <2>3. \A m \in DOMAIN mailFiles' : mailFiles'[m] = [from |-> mailbuf'[m].from, to |-> mailbuf'[m].to]
    BY <1>1, <1>2, <1>13 DEF MailIInv, MailTypeInv
  <2> QED BY <1>3, <1>12, <1>13, <2>1, <2>2, <2>3 DEF MailTypeInv
<1>15. Steady
  BY <1>1, <1>13 DEF Steady
<1>16. PICK c \in People : c = a.to
  BY <1>4
<1>17. RightInv'
  <2>1. ASSUME NEW m \in F PROVE Right(c, m)'
    <3>1. m \in 1 .. mailId' - 1 /\ mailbuf'[m].to = c /\ mailbuf'[m].state = "WAIT_ACK"
      BY <1>1, <1>2, <1>5, <1>13, <1>16
    <3> QED BY <3>1 DEF Right
  <2>2. ASSUME NEW g \in Hosts
        PROVE  /\ \A b \in Content(upMail'[g]) :
                    b \in Content(upMail[g]) \/ (b.t = "MessageAck" => Right(b.to, b.id) /\ b.id \in had')
               /\ \A e \in Content(downMail'[g]) : e \in Content(downMail[g]) \/ Right(e.to, e.id)'
    <3>1. ASSUME NEW e \in Content(downMail'[g]), e \notin Content(downMail[g]) PROVE Right(e.to, e.id)'
      <4>1. PICK m \in F : e.id = m /\ e.to = c
        BY <1>7, <1>11, <1>12, <1>16, <3>1
      <4> QED BY <2>1, <4>1
    <3> QED BY <1>3, <3>1
  <2> QED BY <1>1, <1>15, <2>2, RightStep
<1>18. Told'
  <2>1. ASSUME NEW e \in People, NEW m \in DOMAIN mailbuf', mailbuf'[m].to = e, isOn'[e] # NoHost
        PROVE  m # mailId /\ isOn'[e] = isOn[e] /\ (ToldAt(isOn[e], e, m) => ToldAt(isOn[e], e, m)')
    <3>1. PICK g \in Hosts : g = isOn[e] /\ g = isOn'[e]
      BY <1>1, <2>1 DEF MailIInv, MailTypeInv
    <3>2. m # mailId /\ mailbuf[m].to = e /\ m \in DOMAIN mailbuf
      BY <1>2, <1>13, <2>1
    <3>3. ASSUME ToldAt(g, e, m) PROVE ToldAt(g, e, m)'
      <4>1. CASE \E b \in Content(downMail[g]) : b.id = m
        BY <1>12, <4>1 DEF ToldAt
      <4>2. CASE Ack(e, m) \in Content(upMail[g])
        <5>1. Ack(e, m) # a
          BY <1>3 DEF Ack
        <5> QED BY <1>3, <4>2, <5>1 DEF ToldAt
      <4>3. CASE Flush(e) \in Content(upMail[g])
        <5>1. CASE Flush(e) \in Content(upMail'[g])
          BY <5>1 DEF ToldAt
        <5>2. CASE Flush(e) \notin Content(upMail'[g])
          <6>1. g = h /\ Flush(e) = a
            BY <1>3, <4>3, <5>2
          <6>2. e = a.to
            BY <6>1 DEF Flush
          <6>3. m \in F
            BY <1>5, <3>2, <6>2
          <6>4. PICK b \in Content(D) : b.id = m
            BY <1>7, <1>11, <6>3
          <6>5. b \in Content(downMail'[g])
            BY <1>12, <6>1
          <6> QED BY <6>4, <6>5 DEF ToldAt
        <5> QED BY <5>1, <5>2
      <4> QED BY <3>3, <4>1, <4>2, <4>3 DEF ToldAt
    <3> QED BY <3>1, <3>2, <3>3 DEF ToldAt
  <2> QED BY <1>15, <2>1, ToldStep
<1> QED BY <1>14, <1>17, <1>18 DEF MailIInv

\* The account server starts again: nobody is online, nothing under way.
LEMMA RestartStep ==
    ASSUME MailIInv, readMail
    PROVE  MailIInv'
<1>1. /\ logins < MaxLogins /\ logins' = logins + 1 /\ UNCHANGED <<mailFiles, mailId, had>>
      /\ isOn' = [c \in People |-> NoHost] /\ using' = {}
      /\ upMail' = [h \in Hosts |-> <<>>] /\ downMail' = [h \in Hosts |-> <<>>]
      /\ mailbuf' = [m \in DOMAIN mailFiles |-> [from |-> mailFiles[m].from, to |-> mailFiles[m].to,
                                                 state |-> "NEWMESSAGE", old |-> FALSE]]
  BY DEF readMail
<1>2. <<>> \in Seq(Up) /\ <<>> \in Seq(Down) /\ Content(<<>>) = {}
  BY ContentFew
<1>3. upMail' \in [Hosts -> Seq(Up)] /\ downMail' \in [Hosts -> Seq(Down)]
  BY <1>1, <1>2
<1>4. \A h \in Hosts : Content(upMail'[h]) = {} /\ Content(downMail'[h]) = {}
  BY <1>1, <1>2
<1>5. \A m \in DOMAIN mailbuf' : /\ mailbuf'[m] \in Entry
                                 /\ mailFiles'[m] = [from |-> mailbuf'[m].from, to |-> mailbuf'[m].to]
  <2>1. ASSUME NEW m \in DOMAIN mailFiles
        PROVE  /\ mailFiles[m].from \in People \cup {System} /\ mailFiles[m].to \in People
               /\ mailFiles[m] = [from |-> mailFiles[m].from, to |-> mailFiles[m].to]
    BY DEF MailIInv, MailTypeInv, Entry
  <2> QED BY <1>1, <2>1 DEF Entry
<1>6. MailTypeInv'
  <2>1. /\ mailId' \in 1 .. MaxMails + 1 /\ DOMAIN mailbuf' \subseteq 1 .. mailId' - 1 /\ DOMAIN mailFiles' = DOMAIN mailbuf'
        /\ had' \subseteq 1 .. mailId' - 1 /\ logins' \in 0 .. MaxLogins
        /\ isOn' \in [People -> Hosts \cup {NoHost}] /\ using' \subseteq People
    BY <1>1 DEF MailIInv, MailTypeInv
  <2> QED BY <1>3, <1>5, <2>1 DEF MailTypeInv
<1>7. RightInv'
  BY <1>4 DEF RightInv
<1>8. Told'
  BY <1>1 DEF Told
<1> QED BY <1>6, <1>7, <1>8 DEF MailIInv

\* A game server crashes: who played there waits for nothing more.
LEMMA MailCrashStep ==
    ASSUME MailIInv, NEW h \in Hosts, HostCrash(h)
    PROVE  MailIInv'
<1>1. /\ logins < MaxLogins /\ logins' = logins + 1 /\ UNCHANGED <<mailbuf, mailFiles, mailId, had>>
      /\ using' \subseteq using
      /\ isOn' = [c \in People |-> IF isOn[c] = h THEN NoHost ELSE isOn[c]]
      /\ upMail' = [upMail EXCEPT ![h] = <<>>] /\ downMail' = [downMail EXCEPT ![h] = <<>>]
  BY DEF HostCrash
<1>2. <<>> \in Seq(Up) /\ <<>> \in Seq(Down) /\ Content(<<>>) = {}
  BY ContentFew
<1>3. /\ upMail' \in [Hosts -> Seq(Up)] /\ downMail' \in [Hosts -> Seq(Down)]
      /\ \A g \in Hosts : /\ upMail'[g] = IF g = h THEN <<>> ELSE upMail[g]
                          /\ downMail'[g] = IF g = h THEN <<>> ELSE downMail[g]
  BY <1>1, <1>2 DEF MailIInv, MailTypeInv
<1>4. MailTypeInv'
  <2>1. /\ isOn' \in [People -> Hosts \cup {NoHost}] /\ using' \subseteq People /\ logins' \in 0 .. MaxLogins
    BY <1>1 DEF MailIInv, MailTypeInv
  <2> QED BY <1>1, <1>3, <2>1 DEF MailIInv, MailTypeInv
<1>5. Steady
  BY <1>1 DEF Steady
<1>6. RightInv'
  <2>1. ASSUME NEW g \in Hosts
        PROVE  /\ \A b \in Content(upMail'[g]) :
                    b \in Content(upMail[g]) \/ (b.t = "MessageAck" => Right(b.to, b.id) /\ b.id \in had')
               /\ \A e \in Content(downMail'[g]) : e \in Content(downMail[g]) \/ Right(e.to, e.id)'
    BY <1>2, <1>3
  <2> QED BY <1>1, <1>5, <2>1, RightStep
<1>7. Told'
  <2>1. ASSUME NEW e \in People, NEW m \in DOMAIN mailbuf', isOn'[e] # NoHost
        PROVE  m # mailId /\ isOn'[e] = isOn[e] /\ (ToldAt(isOn[e], e, m) => ToldAt(isOn[e], e, m)')
    <3>1. PICK g \in Hosts : g = isOn[e] /\ g = isOn'[e] /\ g # h
      BY <1>1, <2>1 DEF MailIInv, MailTypeInv
    <3>2. m # mailId
      BY <1>1 DEF MailIInv, MailTypeInv
    <3>3. ToldAt(g, e, m) => ToldAt(g, e, m)'
      BY <1>3, <3>1 DEF ToldAt
    <3> QED BY <3>1, <3>2, <3>3 DEF ToldAt
  <2> QED BY <1>5, <2>1, ToldStep
<1> QED BY <1>4, <1>6, <1>7 DEF MailIInv
----------------------------------------------------------------------------
\* At the start there is no mail and nobody is online.
LEMMA InitMailIInv == MailInit => MailIInv
<1> SUFFICES ASSUME MailInit PROVE MailIInv
  OBVIOUS
<1>1. <<>> \in Seq(Up) /\ <<>> \in Seq(Down) /\ Content(<<>>) = {} /\ DOMAIN <<>> = {}
  BY ContentFew, EmptySeq
<1>2. MailTypeInv
  BY <1>1 DEF MailInit, MailTypeInv
<1>3. RightInv
  BY <1>1 DEF MailInit, RightInv
<1>4. Told
  BY <1>1 DEF MailInit, Told
<1> QED BY <1>2, <1>3, <1>4 DEF MailIInv

\* Every step keeps the invariant.
LEMMA NextMailIInv == MailIInv /\ [MailNext]_mailVars => MailIInv'
<1> SUFFICES ASSUME MailIInv, [MailNext]_mailVars PROVE MailIInv'
  OBVIOUS
<1>1. ASSUME NEW c \in People, NEW d \in People, sendMessage(c, d) PROVE MailIInv'
  BY <1>1, SendStep
<1>2. ASSUME NEW c \in People, Logout(c) PROVE MailIInv'
  BY <1>2, MailLogoutStep
<1>3. ASSUME NEW c \in People, NEW h \in Hosts, Login(h, c) PROVE MailIInv'
  BY <1>3, MailLoginStep
<1>4. ASSUME NEW h \in Hosts, Message_recv(h) PROVE MailIInv'
  BY <1>4, ReceiveStep
<1>5. ASSUME NEW h \in Hosts, receiveMail(h) PROVE MailIInv'
  BY <1>5, AcceptStep
<1>6. ASSUME NEW h \in Hosts, receiveMailAck(h) PROVE MailIInv'
  BY <1>6, AckStep
<1>7. ASSUME NEW h \in Hosts, flushMail(h) PROVE MailIInv'
  BY <1>7, FlushStep
<1>8. ASSUME NEW h \in Hosts, Save(h) PROVE MailIInv'
  BY <1>8, SaveStep
<1>9. ASSUME NEW h \in Hosts, HostCrash(h) PROVE MailIInv'
  BY <1>9, MailCrashStep
<1>10. CASE Hour
  BY <1>10, HourStep
<1>11. CASE expireMail
  BY <1>11, ExpireStep
<1>12. CASE readMail
  BY <1>12, RestartStep
<1>13. CASE UNCHANGED mailVars
  BY <1>13 DEF mailVars, MailIInv, MailTypeInv, RightInv, Told, Right, ToldAt
<1> QED BY <1>1, <1>2, <1>3, <1>4, <1>5, <1>6, <1>7, <1>8, <1>9, <1>10, <1>11, <1>12, <1>13 DEF MailNext

\* The inductive invariant holds throughout.
THEOREM MailInductive == MailSpec => []MailIInv
BY InitMailIInv, NextMailIInv, PTL DEF MailSpec

\* The account server's mails and their files are the same, under ids that have
\* been given, and every message of a stream is of a kind its reader knows.
THEOREM MailTypeCorrect == MailSpec => []MailTypeOK
<1>1. MailIInv => MailTypeOK
  <2> SUFFICES ASSUME MailIInv PROVE MailTypeOK
    OBVIOUS
  <2>1. 1 .. mailId - 1 \subseteq MailIds
    BY DEF MailIInv, MailTypeInv, MailIds
  <2> QED BY <2>1 DEF MailIInv, MailTypeInv, MailTypeOK
<1> QED BY <1>1, MailInductive, PTL

\* With nothing under way nobody who is online waits for mail the account server
\* has (receiveMail, flushMail, saacproto_Message_recv): whatever order logins,
\* new mail, acknowledgements and crashes come in.
THEOREM NobodyOnlineWaits == MailSpec => []WaitsOnlyForTheAbsent
<1>1. MailIInv => WaitsOnlyForTheAbsent
  <2> SUFFICES ASSUME MailIInv, \A h \in Hosts : upMail[h] = <<>> /\ downMail[h] = <<>>,
                      NEW m \in DOMAIN mailFiles, isOn[mailFiles[m].to] # NoHost
               PROVE  FALSE
    BY DEF WaitsOnlyForTheAbsent
  <2>1. m \in DOMAIN mailbuf /\ mailbuf[m].to \in People /\ mailFiles[m].to = mailbuf[m].to
    BY DEF MailIInv, MailTypeInv, Entry
  <2>2. PICK c \in People : c = mailbuf[m].to
    BY <2>1
  <2>3. ToldAt(isOn[c], c, m) /\ isOn[c] \in Hosts
    BY <2>1, <2>2 DEF MailIInv, Told, MailTypeInv
  <2>4. PICK h \in Hosts : h = isOn[c]
    BY <2>3
  <2>5. Content(upMail[h]) = {} /\ Content(downMail[h]) = {}
    BY ContentFew
  <2> QED BY <2>3, <2>4, <2>5 DEF ToldAt
<1> QED BY <1>1, MailInductive, PTL
----------------------------------------------------------------------------
(* The account server keeps its promise. *)

\* Every step is one of the mailbox, or none.
BoxStep == [Box!Next]_<<1 .. mailId - 1, DOMAIN mailFiles, had, {m \in DOMAIN mailbuf : mailbuf[m].old}>>

\* A step that leaves mails, files, ids and arrivals alone is none for the mailbox.
LEMMA Unseen ==
    ASSUME UNCHANGED <<mailbuf, mailFiles, mailId, had>>
    PROVE  BoxStep
BY DEF BoxStep

\* A mail that arrives: Reach
LEMMA ReceiveReaches ==
    ASSUME MailIInv, NEW h \in Hosts, Message_recv(h)
    PROVE  BoxStep
<1> DEFINE d == Head(downMail[h])
<1>1. /\ had' = IF isOn[d.to] = h THEN had \cup {d.id} ELSE had
      /\ UNCHANGED <<mailbuf, mailFiles, mailId>>
  BY DEF Message_recv
<1>2. d \in Content(downMail[h])
  <2>1. downMail[h] \in Seq(Down) /\ downMail[h] # <<>>
    BY DEF Message_recv, MailIInv, MailTypeInv
  <2> QED BY <2>1, ContentTail
<1>3. Right(d.to, d.id) /\ mailId - 1 \in 0 .. MaxMails
  BY <1>2 DEF MailIInv, RightInv, MailTypeInv
<1>4. PICK m \in MailIds : m = d.id /\ m \in 1 .. mailId - 1
  BY <1>3 DEF Right, MailIds
<1> HIDE DEF d
<1>5. CASE isOn[d.to] = h
  <2>1. Box!Reach(m)
    BY <1>1, <1>4, <1>5 DEF Box!Reach
  <2> QED BY <2>1 DEF BoxStep, Box!Next
<1>6. CASE isOn[d.to] # h
  BY <1>1, <1>6, Unseen
<1> QED BY <1>5, <1>6

\* A mail that is accepted: Accept, of its id
LEMMA AcceptAccepts ==
    ASSUME MailIInv, NEW h \in Hosts, receiveMail(h)
    PROVE  BoxStep
<1> DEFINE a == Head(upMail[h])
           x == [from |-> a.from, to |-> a.to, state |-> "WAIT_ACK", old |-> FALSE]
           y == [from |-> a.from, to |-> a.to]
<1>0. mailId \in Nat \ {0} /\ mailId \notin DOMAIN mailbuf /\ x.old = FALSE
  BY DEF MailIInv, MailTypeInv
<1>1. /\ had' = had
      /\ \/ /\ mailId \in MailIds /\ mailId' = mailId + 1
            /\ mailbuf' = With(mailbuf, mailId, x) /\ mailFiles' = With(mailFiles, mailId, y)
         \/ mailId' = mailId /\ mailbuf' = mailbuf /\ mailFiles' = mailFiles
  BY DEF receiveMail
<1> HIDE DEF x, y
<1>2. CASE mailId' = mailId /\ mailbuf' = mailbuf /\ mailFiles' = mailFiles
  BY <1>1, <1>2, Unseen
<1>3. CASE /\ mailId \in MailIds /\ mailId' = mailId + 1
           /\ mailbuf' = With(mailbuf, mailId, x) /\ mailFiles' = With(mailFiles, mailId, y)
  <2>1. DOMAIN mailFiles' = DOMAIN mailFiles \cup {mailId}
    BY <1>3 DEF With
  <2>2. /\ DOMAIN mailbuf' = DOMAIN mailbuf \cup {mailId} /\ mailbuf'[mailId].old = FALSE
        /\ \A m \in DOMAIN mailbuf : mailbuf'[m] = mailbuf[m]
    BY <1>0, <1>3 DEF With
  <2>3. {m \in DOMAIN mailbuf' : mailbuf'[m].old} = {m \in DOMAIN mailbuf : mailbuf[m].old}
    BY <2>2
  <2>4. 1 .. mailId' - 1 = (1 .. mailId - 1) \cup {mailId} /\ mailId \notin 1 .. mailId - 1
    BY <1>0, <1>3
  <2>5. PICK m \in MailIds : m = mailId
    BY <1>3
  <2>6. Box!Accept(m)
    BY <1>1, <2>1, <2>3, <2>4, <2>5 DEF Box!Accept
  <2> QED BY <2>6 DEF BoxStep, Box!Next
<1> QED BY <1>1, <1>2, <1>3

\* Mails that go with their files have arrived or are old: Forget
LEMMA DropForgets ==
    ASSUME MailIInv, UNCHANGED <<mailId, had>>, NEW S, S \subseteq DOMAIN mailbuf,
           \A m \in S : m \in had \/ mailbuf[m].old,
           mailbuf' = Without(mailbuf, S), mailFiles' = Without(mailFiles, S)
    PROVE  BoxStep
<1>1. DOMAIN mailFiles = DOMAIN mailbuf /\ DOMAIN mailbuf \subseteq MailIds
  BY DEF MailIInv, MailTypeInv, MailIds
<1>2. DOMAIN mailFiles' = DOMAIN mailFiles \ S
  BY DEF Without
<1>3. /\ DOMAIN mailbuf' = DOMAIN mailbuf \ S
      /\ \A m \in DOMAIN mailbuf' : mailbuf'[m] = mailbuf[m]
  BY DEF Without
<1>4. {m \in DOMAIN mailbuf' : mailbuf'[m].old} = {m \in DOMAIN mailbuf : mailbuf[m].old} \ S
  BY <1>3
<1>5. S \in SUBSET MailIds /\ S \subseteq had \cup {m \in DOMAIN mailbuf : mailbuf[m].old}
  BY <1>1
<1>6. Box!Forget(S)
  BY <1>2, <1>4, <1>5 DEF Box!Forget
<1> QED BY <1>5, <1>6 DEF BoxStep, Box!Next

\* An acknowledgement is of a mail that has arrived.
LEMMA AckForgets ==
    ASSUME MailIInv, NEW h \in Hosts, receiveMailAck(h)
    PROVE  BoxStep
<1> DEFINE a == Head(upMail[h])
           acked == {m \in DOMAIN mailbuf : m = a.id /\ mailbuf[m].to = a.to /\ mailbuf[m].state = "WAIT_ACK"}
<1>1. /\ Takes(h, "MessageAck") /\ UNCHANGED <<mailId, had>>
      /\ mailbuf' = Without(mailbuf, acked) /\ mailFiles' = Without(mailFiles, acked)
  BY DEF receiveMailAck
<1>2. a.t = "MessageAck" /\ a \in Content(upMail[h])
  <2>1. upMail \in [Hosts -> Seq(Up)]
    BY DEF MailIInv, MailTypeInv
  <2> QED BY <1>1, <2>1, MailTaken
<1>3. a.id \in had
  BY <1>2 DEF MailIInv, RightInv
<1>4. acked \subseteq DOMAIN mailbuf /\ \A m \in acked : m \in had
  BY <1>3
<1> HIDE DEF acked, a
<1> QED BY <1>1, <1>4, DropForgets

\* An expired mail is old.
LEMMA ExpireForgets ==
    ASSUME MailIInv, expireMail
    PROVE  BoxStep
<1> DEFINE expired == {m \in DOMAIN mailbuf : mailbuf[m].old}
<1>1. /\ UNCHANGED <<mailId, had>>
      /\ mailbuf' = Without(mailbuf, expired) /\ mailFiles' = Without(mailFiles, expired)
  BY DEF expireMail
<1>2. expired \subseteq DOMAIN mailbuf /\ \A m \in expired : mailbuf[m].old
  OBVIOUS
<1> HIDE DEF expired
<1> QED BY <1>1, <1>2, DropForgets

\* Mail that is sent again keeps its age.
LEMMA FlushIsUnseen ==
    ASSUME MailIInv, NEW h \in Hosts, flushMail(h)
    PROVE  BoxStep
<1> DEFINE F == Flushed(Head(upMail[h]).to)
<1>1. /\ UNCHANGED <<mailFiles, mailId, had>>
      /\ mailbuf' = [m \in DOMAIN mailbuf |-> IF m \in F THEN [mailbuf[m] EXCEPT !.state = "WAIT_ACK"] ELSE mailbuf[m]]
  BY DEF flushMail
<1> HIDE DEF F
<1>2. \A m \in DOMAIN mailbuf : mailbuf'[m].old = mailbuf[m].old
  <2>1. ASSUME NEW m \in DOMAIN mailbuf PROVE mailbuf'[m].old = mailbuf[m].old
    <3>1. mailbuf[m] \in Entry
      BY DEF MailIInv, MailTypeInv
    <3> QED BY <1>1, <3>1 DEF Entry
  <2> QED BY <2>1
<1>3. DOMAIN mailbuf' = DOMAIN mailbuf
  BY <1>1
<1>4. {m \in DOMAIN mailbuf' : mailbuf'[m].old} = {m \in DOMAIN mailbuf : mailbuf[m].old}
  BY <1>2, <1>3
<1> QED BY <1>1, <1>4 DEF BoxStep

\* An hour passes: Age
LEMMA HourAges ==
    ASSUME MailIInv, Hour
    PROVE  BoxStep
<1>1. /\ UNCHANGED <<mailFiles, mailId, had>>
      /\ mailbuf' = [m \in DOMAIN mailbuf |-> [mailbuf[m] EXCEPT !.old = TRUE]]
  BY DEF Hour
<1>2. /\ DOMAIN mailFiles = DOMAIN mailbuf /\ DOMAIN mailbuf \in SUBSET MailIds
      /\ \A m \in DOMAIN mailbuf : mailbuf[m] \in Entry
  BY DEF MailIInv, MailTypeInv, MailIds
<1>3. DOMAIN mailbuf' = DOMAIN mailbuf /\ \A m \in DOMAIN mailbuf : mailbuf'[m].old = TRUE
  BY <1>1, <1>2 DEF Entry
<1>4. {m \in DOMAIN mailbuf' : mailbuf'[m].old} = {m \in DOMAIN mailbuf : mailbuf[m].old} \cup DOMAIN mailbuf
  BY <1>3
<1>5. PICK M \in SUBSET MailIds : M = DOMAIN mailbuf
  BY <1>2
<1>6. Box!Age(M)
  BY <1>1, <1>2, <1>4, <1>5 DEF Box!Age
<1> QED BY <1>6 DEF BoxStep, Box!Next

\* A new start: Renew
LEMMA RestartRenews ==
    ASSUME MailIInv, readMail
    PROVE  BoxStep
<1>1. /\ UNCHANGED <<mailFiles, mailId, had>>
      /\ mailbuf' = [m \in DOMAIN mailFiles |-> [from |-> mailFiles[m].from, to |-> mailFiles[m].to,
                                                 state |-> "NEWMESSAGE", old |-> FALSE]]
  BY DEF readMail
<1>2. {m \in DOMAIN mailbuf' : mailbuf'[m].old} = {}
  BY <1>1
<1>3. Box!Renew
  BY <1>1, <1>2 DEF Box!Renew
<1> QED BY <1>3 DEF BoxStep, Box!Next

\* Every step of the mail is a step of the mailbox or none.
LEMMA NextBoxStep == MailIInv /\ [MailNext]_mailVars => BoxStep
<1> SUFFICES ASSUME MailIInv, [MailNext]_mailVars PROVE BoxStep
  OBVIOUS
<1>1. ASSUME NEW c \in People, NEW d \in People, sendMessage(c, d) PROVE BoxStep
  BY <1>1, Unseen DEF sendMessage
<1>2. ASSUME NEW c \in People, Logout(c) PROVE BoxStep
  BY <1>2, Unseen DEF Logout
<1>3. ASSUME NEW c \in People, NEW h \in Hosts, Login(h, c) PROVE BoxStep
  BY <1>3, Unseen DEF Login
<1>4. ASSUME NEW h \in Hosts, Message_recv(h) PROVE BoxStep
  BY <1>4, ReceiveReaches
<1>5. ASSUME NEW h \in Hosts, receiveMail(h) PROVE BoxStep
  BY <1>5, AcceptAccepts
<1>6. ASSUME NEW h \in Hosts, receiveMailAck(h) PROVE BoxStep
  BY <1>6, AckForgets
<1>7. ASSUME NEW h \in Hosts, flushMail(h) PROVE BoxStep
  BY <1>7, FlushIsUnseen
<1>8. ASSUME NEW h \in Hosts, Save(h) PROVE BoxStep
  BY <1>8, Unseen DEF Save
<1>9. ASSUME NEW h \in Hosts, HostCrash(h) PROVE BoxStep
  BY <1>9, Unseen DEF HostCrash
<1>10. CASE Hour
  BY <1>10, HourAges
<1>11. CASE expireMail
  BY <1>11, ExpireForgets
<1>12. CASE readMail
  BY <1>12, RestartRenews
<1>13. CASE UNCHANGED mailVars
  BY <1>13, Unseen DEF mailVars
<1> QED BY <1>1, <1>2, <1>3, <1>4, <1>5, <1>6, <1>7, <1>8, <1>9, <1>10, <1>11, <1>12, <1>13 DEF MailNext

\* The account server forgets a mail only after it has reached its addressee's
\* server or has lain there for an hour: the mail implements the mailbox.
THEOREM KeepsItsPromise == MailSpec => ImplementsMailbox
<1>1. MailInit => Box!Init
  <2> SUFFICES ASSUME MailInit PROVE Box!Init
    OBVIOUS
  <2>1. DOMAIN <<>> = {} /\ 1 .. 1 - 1 = {}
    BY EmptySeq
  <2> QED BY <2>1 DEF MailInit, Box!Init
<1> QED BY <1>1, NextBoxStep, MailInductive, PTL DEF MailSpec, ImplementsMailbox, Box!Spec, BoxStep
=============================================================================

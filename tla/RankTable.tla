------------------------------ MODULE RankTable ------------------------------
(***************************************************************************)
(* A table of the account server's database (saac/db.c): a list of entries *)
(* that is sorted by value if the table holds numbers, a hash table that   *)
(* finds them by key, and the file in which they are kept.                 *)
(*                                                                         *)
(* hashtable has a head for each hash value and, behind the heads, entries *)
(* that are chained to a head when it is taken.  Index 0 stands for -1.    *)
(***************************************************************************)
EXTENDS Naturals, Sequences, SequencesExt, FiniteSets

CONSTANTS Keys, Values,
          Heads,       \* number of heads: HASH_PRIME
          dbHash,      \* the hash value of a key: the index of its head
          HashSize,    \* heads and what is behind them: it grows when it is full
          HeadDeletes, \* whether a head that has a chain may be deleted
          Nobody

ASSUME RankAssumption == /\ IsFiniteSet(Keys) /\ Heads \in Nat \ {0} /\ HashSize \in Nat /\ HashSize >= Heads + Cardinality(Keys)
                         /\ dbHash \in [Keys -> 1 .. Heads]
                         /\ Values \subseteq Nat /\ Nobody \notin Values /\ HeadDeletes \in BOOLEAN

VARIABLES type,       \* of the table: DB_INT_SORTED or DB_STRING
          list,       \* the entries, from the first
          hashtable,
          updated,    \* whether there is something that dbFlush has not written
          file        \* the lines of the file

tableVars == <<list, hashtable, updated>>
rankVars  == <<type, tableVars, file>>

Blank == [use |-> FALSE, key |-> Nobody, prev |-> 0, next |-> 0]
NoTable == [i \in 1 .. HashSize |-> Blank]

RankInit ==
    /\ type \in {"DB_INT_SORTED", "DB_STRING"}
    /\ list = <<>> /\ hashtable = NoTable /\ updated = FALSE /\ file = <<>>

----------------------------------------------------------------------------
(* A table as a value: the operations are also made when the file is read. *)

Table == [list |-> list, hash |-> hashtable]

\* tableGetEntry: the index where the key is found, or 0
tableGetEntry(hash, k) ==
    LET Follow == [i \in 0 .. HashSize |->
                     IF i = 0 \/ (hash[i].use /\ hash[i].key = k) THEN i ELSE hash[i].next]
        Reached[n \in 0 .. HashSize] == IF n = 0 THEN dbHash[k] ELSE Follow[Reached[n - 1]]
    IN  IF hash[dbHash[k]].use THEN Reached[HashSize] ELSE 0

\* Mutant: what was chained to the head is not chained to the new entry.
tableInsertNode_CutsChain(hash, k) ==
    LET h == dbHash[k]
        n == CHOOSE i \in Heads + 1 .. HashSize : ~ hash[i].use
    IN  IF ~ hash[h].use THEN [hash EXCEPT ![h] = [use |-> TRUE, key |-> k, prev |-> 0, next |-> 0]]
        ELSE [hash EXCEPT ![n] = [use |-> TRUE, key |-> k, prev |-> h, next |-> 0], ![h].next = n]

\* tableInsertNode: in the head, or behind it
tableInsertNode(hash, k) ==
    LET h == dbHash[k]
        n == CHOOSE i \in Heads + 1 .. HashSize : ~ hash[i].use
    IN  IF ~ hash[h].use THEN [hash EXCEPT ![h] = [use |-> TRUE, key |-> k, prev |-> 0, next |-> 0]]
        ELSE [i \in DOMAIN hash |->
                CASE i = n -> [use |-> TRUE, key |-> k, prev |-> h, next |-> hash[h].next]
                  [] i = h -> [hash[h] EXCEPT !.next = n]
                  [] i = hash[h].next /\ i # n -> [hash[i] EXCEPT !.prev = n]
                  [] OTHER -> hash[i]]

\* tableReleaseNode: an entry that is released keeps its own links.
tableReleaseNode(hash, i) ==
    [j \in DOMAIN hash |->
        CASE j = i -> [hash[i] EXCEPT !.use = FALSE, !.key = Nobody]
          [] j = hash[i].prev /\ j # i -> [hash[j] EXCEPT !.next = hash[i].next]
          [] j = hash[i].next /\ j # i -> [hash[j] EXCEPT !.prev = hash[i].prev]
          [] OTHER -> hash[j]]

\* dbInsertNodeByIValue: before the first entry that is lower
dbInsertNodeByIValue(l, e) ==
    LET lower == {i \in DOMAIN l : l[i].ivalue < e.ivalue}
    IN  IF lower = {} THEN Append(l, e)
        ELSE InsertAt(l, CHOOSE i \in lower : \A j \in lower : i <= j, e)

\* An entry whose value has changed passes those before it that are lower, or
\* those behind it that are higher.
Moved(l, at, v) ==
    LET e     == [l[at] EXCEPT !.ivalue = v]
        up    == {i \in 1 .. at - 1 : \A j \in i .. at - 1 : l[j].ivalue < v}
        down  == {i \in at + 1 .. Len(l) : \A j \in at + 1 .. i : l[j].ivalue > v}
    IN  IF up # {} THEN InsertAt(RemoveAt(l, at), CHOOSE i \in up : \A j \in up : i <= j, e)
        ELSE IF down # {} THEN InsertAt(RemoveAt(l, at), CHOOSE i \in down : \A j \in down : i >= j, e)
        ELSE ReplaceAt(l, at, e)

\* The place in the list of the entry that the hash entry of k leads to: the
\* entry that was inserted last.
At(l, k) == CHOOSE i \in DOMAIN l : /\ l[i].key = k
                                    /\ \A j \in DOMAIN l : l[j].key = k => l[j].nr <= l[i].nr

\* A new entry of k has a number of its own, behind those of the key.
Entry(l, k, v) == [key |-> k, ivalue |-> v, nr |-> Cardinality({i \in DOMAIN l : l[i].key = k})]

\* dbUpdateEntryInt
UpdatedInt(t, k, v) ==
    IF tableGetEntry(t.hash, k) = 0
    THEN [list |-> dbInsertNodeByIValue(t.list, Entry(t.list, k, v)), hash |-> tableInsertNode(t.hash, k)]
    ELSE [t EXCEPT !.list = Moved(t.list, At(t.list, k), v)]

\* dbUpdateEntryString: the place in the list says nothing
UpdatedString(t, k, v) ==
    IF tableGetEntry(t.hash, k) = 0
    THEN [list |-> <<Entry(t.list, k, v)>> \o t.list, hash |-> tableInsertNode(t.hash, k)]
    ELSE [t EXCEPT !.list[At(t.list, k)].ivalue = v]

Updated(t, k, v) == IF type = "DB_INT_SORTED" THEN UpdatedInt(t, k, v) ELSE UpdatedString(t, k, v)

----------------------------------------------------------------------------
(* The requests of the game servers. *)

Becomes(t) == list' = t.list /\ hashtable' = t.hash

dbUpdateEntry(k, v) ==
    /\ Becomes(Updated(Table, k, v)) /\ updated' = TRUE
    /\ UNCHANGED <<type, file>>

\* dbExtractNodeByKey
dbDeleteEntry(k) ==
    LET i == tableGetEntry(hashtable, k)
    IN  /\ i # 0
        /\ HeadDeletes \/ i > Heads \/ hashtable[i].next = 0
        /\ Becomes([list |-> RemoveAt(list, At(list, k)), hash |-> tableReleaseNode(hashtable, i)])
        /\ updated' = TRUE
        /\ UNCHANGED <<type, file>>

\* dbFlush, when its time has come
dbFlush ==
    /\ file' = IF updated THEN list ELSE file
    /\ updated' = FALSE
    /\ UNCHANGED <<type, list, hashtable>>

\* dbRead: the lines are entered one after the other.
dbRead(lines) ==
    LET From[n \in 0 .. Len(lines)] ==
          IF n = 0 THEN [list |-> <<>>, hash |-> NoTable]
          ELSE Updated(From[n - 1], lines[n].key, lines[n].ivalue)
    IN  Becomes(From[Len(lines)]) /\ updated' = (lines # <<>>)

\* The process ends and is started again.
RestartServer == dbRead(file) /\ UNCHANGED <<type, file>>

\* It ends while dbFlush writes: the file was emptied when it was opened.
RestartInFlush ==
    /\ updated
    /\ \E n \in 0 .. Len(list) : file' = SubSeq(list, 1, n) /\ dbRead(SubSeq(list, 1, n))
    /\ UNCHANGED type

RankNext ==
    \/ \E k \in Keys : (\E v \in Values : dbUpdateEntry(k, v)) \/ dbDeleteEntry(k)
    \/ dbFlush \/ RestartServer \/ RestartInFlush

RankSpec == RankInit /\ [][RankNext]_rankVars

----------------------------------------------------------------------------
(* Answers. *)

\* The place from which on entries have the value of the one at i
FirstOf(i) == CHOOSE j \in 1 .. i : /\ \A n \in j .. i : list[n].ivalue = list[i].ivalue
                                    /\ j = 1 \/ list[j - 1].ivalue # list[j].ivalue

\* Mutant: equal values have different ranks.
dbGetEntryRank_Place(k) ==
    LET i == CHOOSE i \in DOMAIN list : list[i].key = k
    IN  [rank |-> i - 1, count |-> i - 1]

\* dbGetEntryRank: the rank of k and the number of entries before it, which both
\* begin with 0
dbGetEntryRank(k) ==
    LET i == CHOOSE i \in DOMAIN list : list[i].key = k /\ \A j \in 1 .. i - 1 : list[j].key # k
    IN  [rank |-> FirstOf(i) - 1, count |-> i - 1]

\* dbGetEntryRankRange: here the next value has the next rank, from 1.
dbGetEntryRankRange(first, last) ==
    LET rank(i) == Cardinality({FirstOf(j) : j \in 1 .. i})
    IN  {[rank |-> rank(i), key |-> list[i].key] : i \in {j \in DOMAIN list : rank(j) \in first .. last}}

----------------------------------------------------------------------------
\* The hash table has an entry for each of the list, and no more, however the
\* entries rise, sink and go; in a table of numbers a rank is the number of the
\* entries that are better, and equal ones share it; the two requests for ranks
\* agree on who is first.
RanksByValue ==
    /\ Len(list) = Cardinality({i \in 1 .. HashSize : hashtable[i].use})
    /\ type = "DB_INT_SORTED" =>
           \A e \in Range(list) :
               /\ dbGetEntryRank(e.key).rank = Cardinality({f \in Range(list) : f.ivalue > e.ivalue})
               /\ dbGetEntryRank(e.key).rank = 0 <=> [rank |-> 1, key |-> e.key] \in dbGetEntryRankRange(1, 1)

\* The comment of prev: -1 is the head.
OnlyHeadsAreFirst == \A i \in 1 .. HashSize : hashtable[i].use /\ hashtable[i].prev = 0 => i <= Heads

ValueOf(lines, k) ==
    IF \E e \in Range(lines) : e.key = k
    THEN (CHOOSE e \in Range(lines) : e.key = k).ivalue ELSE Nobody

RankingOf == INSTANCE Ranking
    WITH entries <- [k \in Keys |-> IF tableGetEntry(hashtable, k) = 0 THEN Nobody
                                    ELSE list[At(list, k)].ivalue],
         saved   <- [k \in Keys |-> ValueOf(file, k)],
         None    <- Nobody

\* The hash table, the list and the file are one map from keys to values, which
\* a restart restores as it was written last - while no head of a chain is
\* deleted.
ImplementsRanking == RankingOf!RankingSpec
==============================================================================

------------------------ MODULE LocksAndTables_proofs ------------------------
(***************************************************************************)
(* Proofs about two tables of the account server.  The lock table, for     *)
(* every number of accounts, servers, buckets and nodes allocated at a     *)
(* time: its invariants, and that it implements the map of UserLock.       *)
(*                                                                         *)
(* And a table of the database, for every number of keys, heads and cells, *)
(* any hash and any values: its list and its hash table agree, its ranks   *)
(* are by value, and it implements the map of Ranking, restarts included,  *)
(* while no head that has a chain is deleted (HeadDeletes).                *)
(***************************************************************************)
EXTENDS MemLock, RankTable, SequenceTheorems, FiniteSetTheorems, WellFoundedInduction, TLAPS

\* The inductive invariant, one bucket at a time.
Locked(n, e) == /\ n.cdkey \in CdKeys
                /\ n.server \in Servers
                /\ n.process \in Processes
                /\ getHash[n.cdkey] = e

GoodList(nodes, e) ==
    /\ nodes \in Seq(Node)
    /\ Len(nodes) > 0
    /\ \A i \in DOMAIN nodes : nodes[i].use => Locked(nodes[i], e)
    /\ \A i, j \in DOMAIN nodes :
         nodes[i].use /\ nodes[j].use /\ nodes[i].cdkey = nodes[j].cdkey => i = j

Ret == [code : Processes \cup {-1, 0, 1}, server : Servers \cup {""}]

IInv == /\ userlock \in [Entries -> Seq(Node)]
        /\ \A e \in Entries : GoodList(userlock[e], e)
        /\ ret \in Ret

USE HashAssumption, NodesAssumption DEF HashAssumption, NodesAssumption

\* The nodes a full bucket is given are well formed and free.
LEMMA NewNodesType == /\ NewNodes \in Seq(Node)
                      /\ Len(NewNodes) = MoreNodes
                      /\ \A i \in 1 .. MoreNodes : ~ NewNodes[i].use
<1>1. FreeNode \in Node
  BY DEF FreeNode, Node
<1>2. NewNodes \in [1 .. MoreNodes -> Node]
  BY <1>1 DEF NewNodes
<1>3. NewNodes \in Seq(Node)
  BY <1>2, SeqDef
<1>4. DOMAIN NewNodes = 1 .. MoreNodes
  BY DEF NewNodes
<1>5. Len(NewNodes) = MoreNodes
  BY <1>3, <1>4, LenProperties
<1>6. \A i \in 1 .. MoreNodes : ~ NewNodes[i].use
  BY DEF NewNodes, FreeNode
<1> QED BY <1>3, <1>5, <1>6

\* Growing a bucket keeps its nodes where they are and adds free ones.
LEMMA GrownList ==
    ASSUME NEW e \in Entries, NEW nodes, GoodList(nodes, e)
    PROVE  /\ GoodList(Grown(nodes), e)
           /\ Len(nodes) <= Len(Grown(nodes))
           /\ \A i \in DOMAIN nodes : Grown(nodes)[i] = nodes[i]
           /\ \A i \in DOMAIN Grown(nodes) : i \notin DOMAIN nodes => ~ Grown(nodes)[i].use
<1> DEFINE more == nodes \o NewNodes
<1>1. nodes \in Seq(Node) /\ Len(nodes) \in Nat /\ DOMAIN nodes = 1 .. Len(nodes)
  BY LenProperties DEF GoodList
<1>2. /\ more \in Seq(Node)
      /\ Len(more) = Len(nodes) + MoreNodes
      /\ \A i \in 1 .. Len(nodes) + MoreNodes :
           more[i] = IF i <= Len(nodes) THEN nodes[i] ELSE NewNodes[i - Len(nodes)]
  BY <1>1, NewNodesType, ConcatProperties
<1>3. DOMAIN more = 1 .. Len(nodes) + MoreNodes
  BY <1>2, LenProperties
<1>4. \A i \in DOMAIN nodes : i \in DOMAIN more /\ more[i] = nodes[i]
  BY <1>1, <1>2, <1>3
<1>5. \A i \in DOMAIN more : i \notin DOMAIN nodes => ~ more[i].use
  BY <1>1, <1>2, <1>3, NewNodesType
<1>6. GoodList(more, e)
  <2>1. \A i \in DOMAIN more : more[i].use => i \in DOMAIN nodes /\ more[i] = nodes[i]
    BY <1>4, <1>5
  <2> HIDE DEF more
  <2>2. Len(more) > 0
    BY <1>1, <1>2 DEF GoodList
  <2> QED BY <1>2, <2>1, <2>2 DEF GoodList
<1> HIDE DEF more
<1>7. CASE Full(nodes)
  <2>1. Grown(nodes) = more
    BY <1>7 DEF Grown, more
  <2> QED BY <2>1, <1>1, <1>2, <1>4, <1>5, <1>6
<1>8. CASE ~ Full(nodes)
  <2>1. Grown(nodes) = nodes
    BY <1>8 DEF Grown
  <2> QED BY <2>1, <1>1
<1> QED BY <1>7, <1>8

\* Overwriting one node of a list.
LEMMA NodeSet ==
    ASSUME NEW nodes \in Seq(Node), NEW i \in DOMAIN nodes, NEW n \in Node
    PROVE  /\ [nodes EXCEPT ![i] = n] \in Seq(Node)
           /\ Len([nodes EXCEPT ![i] = n]) = Len(nodes)
           /\ DOMAIN [nodes EXCEPT ![i] = n] = DOMAIN nodes
           /\ \A j \in DOMAIN nodes :
                [nodes EXCEPT ![i] = n][j] = IF j = i THEN n ELSE nodes[j]
BY ExceptSeq, LenProperties

\* Taking a node for an account that no other node of the list holds.
LEMMA TakeNode ==
    ASSUME NEW e \in Entries, NEW nodes, GoodList(nodes, e), NEW i \in DOMAIN nodes,
           NEW n \in Node, n.use => Locked(n, e),
           \A j \in DOMAIN nodes : nodes[j].use /\ n.use => nodes[j].cdkey # n.cdkey
    PROVE  GoodList([nodes EXCEPT ![i] = n], e)
<1>1. nodes \in Seq(Node)
  BY DEF GoodList
<1> DEFINE new == [nodes EXCEPT ![i] = n]
<1>2. /\ new \in Seq(Node)
      /\ Len(new) = Len(nodes)
      /\ DOMAIN new = DOMAIN nodes
      /\ \A j \in DOMAIN nodes : new[j] = IF j = i THEN n ELSE nodes[j]
  BY <1>1, NodeSet
<1> HIDE DEF new
<1>3. Len(new) > 0
  BY <1>2 DEF GoodList
<1>4. \A j \in DOMAIN new : new[j].use => Locked(new[j], e)
  BY <1>2 DEF GoodList
<1>5. ASSUME NEW j \in DOMAIN new, NEW l \in DOMAIN new,
             new[j].use, new[l].use, new[j].cdkey = new[l].cdkey
      PROVE  j = l
  BY <1>2, <1>5 DEF GoodList
<1>6. GoodList(new, e)
  BY <1>2, <1>3, <1>4, <1>5 DEF GoodList
<1> QED BY <1>6 DEF new

\* Dropping the locks of a server from a list.
LEMMA ReleaseNodes ==
    ASSUME NEW e \in Entries, NEW nodes, GoodList(nodes, e), NEW s \in Servers
    PROVE  GoodList([i \in DOMAIN nodes |-> Released(nodes[i], s)], e)
<1> DEFINE new == [i \in DOMAIN nodes |-> Released(nodes[i], s)]
<1>1. nodes \in Seq(Node) /\ Len(nodes) \in Nat /\ DOMAIN nodes = 1 .. Len(nodes)
  BY LenProperties DEF GoodList
<1>2. \A i \in DOMAIN nodes : nodes[i] \in Node
  BY <1>1, ElementOfSeq
<1>3. \A i \in DOMAIN nodes : /\ Released(nodes[i], s) \in Node
                              /\ Released(nodes[i], s).use => Released(nodes[i], s) = nodes[i]
  BY <1>2 DEF Released, Node
<1>4. new \in [1 .. Len(nodes) -> Node]
  BY <1>1, <1>3
<1>5. new \in Seq(Node)
  BY <1>1, <1>4, SeqDef
<1>6. DOMAIN new = DOMAIN nodes
  OBVIOUS
<1>7. Len(new) = Len(nodes)
  BY <1>1, <1>5, <1>6, LenProperties
<1>8. \A i \in DOMAIN new : new[i].use => new[i] = nodes[i]
  BY <1>3
<1> HIDE DEF new
<1>9. GoodList(new, e)
  BY <1>5, <1>6, <1>7, <1>8 DEF GoodList
<1> QED BY <1>9 DEF new

-----------------------------------------------------------------------------
(* What account k sees in a list. *)

\* The one node in use for k tells who holds k.
LEMMA HolderOfNode ==
    ASSUME NEW e \in Entries, NEW nodes, GoodList(nodes, e), NEW k \in CdKeys,
           NEW i \in NodesIn(nodes, k)
    PROVE  /\ NodesIn(nodes, k) = {i}
           /\ HolderIn(nodes, k) = [server |-> nodes[i].server, process |-> nodes[i].process]
           /\ nodes[i].server \in Servers
           /\ nodes[i].process \in Processes
<1>1. i \in DOMAIN nodes /\ nodes[i].use /\ nodes[i].cdkey = k
  BY DEF NodesIn, Holds
<1>2. NodesIn(nodes, k) = {i}
  BY <1>1 DEF NodesIn, Holds, GoodList
<1>3. (CHOOSE j \in NodesIn(nodes, k) : TRUE) = i
  BY <1>2
<1>4. HolderIn(nodes, k) = [server |-> nodes[i].server, process |-> nodes[i].process]
  BY <1>2, <1>3 DEF HolderIn
<1> QED BY <1>1, <1>2, <1>4 DEF GoodList, Locked

\* Lists with the same nodes in use for k give k the same holder.
LEMMA SameHolder ==
    ASSUME NEW e \in Entries, NEW old, NEW new, GoodList(old, e), GoodList(new, e),
           NEW k \in CdKeys,
           NodesIn(new, k) = NodesIn(old, k),
           \A i \in NodesIn(old, k) : new[i] = old[i]
    PROVE  HolderIn(new, k) = HolderIn(old, k)
<1>1. CASE NodesIn(old, k) = {}
  BY <1>1 DEF HolderIn
<1>2. CASE NodesIn(old, k) # {}
  <2>1. PICK i \in NodesIn(old, k) : TRUE
    BY <1>2
  <2>2. i \in NodesIn(new, k) /\ new[i] = old[i]
    BY <2>1
  <2>3. HolderIn(old, k) = [server |-> old[i].server, process |-> old[i].process]
    BY <2>1, HolderOfNode
  <2>4. HolderIn(new, k) = [server |-> new[i].server, process |-> new[i].process]
    BY <2>2, HolderOfNode
  <2> QED BY <2>2, <2>3, <2>4
<1> QED BY <1>1, <1>2

\* A holder is never confused with nobody.
LEMMA HolderSome ==
    ASSUME NEW e \in Entries, NEW nodes, GoodList(nodes, e), NEW k \in CdKeys
    PROVE  HolderIn(nodes, k) = Unlocked <=> NodesIn(nodes, k) = {}
<1>1. CASE NodesIn(nodes, k) = {}
  BY <1>1 DEF HolderIn
<1>2. CASE NodesIn(nodes, k) # {}
  <2>1. PICK i \in NodesIn(nodes, k) : TRUE
    BY <1>2
  <2>2. HolderIn(nodes, k).server \in Servers
    BY <2>1, HolderOfNode
  <2>3. "none" \notin Servers
    BY NamesAssumption DEF NamesAssumption
  <2> QED BY <1>2, <2>2, <2>3 DEF Unlocked
<1> QED BY <1>1, <1>2

-----------------------------------------------------------------------------
(* The inductive invariant. *)

\* Lock_Init leaves one free node in every bucket.
LEMMA EmptyTableGood ==
    /\ EmptyTable \in [Entries -> Seq(Node)]
    /\ \A e \in Entries : /\ GoodList(EmptyTable[e], e)
                          /\ \A k \in CdKeys : NodesIn(EmptyTable[e], k) = {}
<1>1. FreeNode \in Node /\ ~ FreeNode.use
  BY DEF FreeNode, Node
<1>2. <<FreeNode>> \in Seq(Node) /\ Len(<<FreeNode>>) = 1 /\ <<FreeNode>>[1] = FreeNode
      /\ DOMAIN <<FreeNode>> = {1}
  BY <1>1
<1>3. \A e \in Entries : EmptyTable[e] = <<FreeNode>>
  BY DEF EmptyTable
<1>4. EmptyTable \in [Entries -> Seq(Node)]
  BY <1>2 DEF EmptyTable
<1>5. \A e \in Entries : GoodList(<<FreeNode>>, e)
  BY <1>1, <1>2 DEF GoodList
<1>6. \A k \in CdKeys : NodesIn(<<FreeNode>>, k) = {}
  BY <1>1, <1>2 DEF NodesIn, Holds
<1> QED BY <1>3, <1>4, <1>5, <1>6

\* Locking: the bucket of k gains the node i in use for k and keeps the others.
LEMMA InsertStep ==
    ASSUME IInv, NEW k \in CdKeys, NEW s \in Servers, NEW p \in Processes,
           ~ isMemLocked(k), InsertMemLock(k, s, p)
    PROVE  /\ userlock' \in [Entries -> Seq(Node)]
           /\ \A e \in Entries : GoodList(userlock'[e], e)
           /\ \A l \in CdKeys : HolderIn(userlock'[getHash[l]], l) =
                IF l = k THEN [server |-> s, process |-> p]
                         ELSE HolderIn(userlock[getHash[l]], l)
<1> DEFINE e == getHash[k]
           nodes == Grown(userlock[e])
           n == [use |-> TRUE, cdkey |-> k, server |-> s, process |-> p]
<1>1. e \in Entries /\ GoodList(userlock[e], e)
  BY DEF IInv
<1>2. PICK i \in DOMAIN nodes : /\ ~ nodes[i].use
                                /\ userlock' = [userlock EXCEPT ![e] = [nodes EXCEPT ![i] = n]]
  BY DEF InsertMemLock, FirstFree
<1> DEFINE new == [nodes EXCEPT ![i] = n]
<1>3. /\ GoodList(nodes, e)
      /\ DOMAIN userlock[e] \subseteq DOMAIN nodes
      /\ \A j \in DOMAIN userlock[e] : nodes[j] = userlock[e][j]
      /\ \A j \in DOMAIN nodes : j \notin DOMAIN userlock[e] => ~ nodes[j].use
  <2>1. /\ GoodList(nodes, e)
        /\ Len(userlock[e]) <= Len(nodes)
        /\ \A j \in DOMAIN userlock[e] : nodes[j] = userlock[e][j]
        /\ \A j \in DOMAIN nodes : j \notin DOMAIN userlock[e] => ~ nodes[j].use
    BY <1>1, GrownList
  <2>2. /\ DOMAIN userlock[e] = 1 .. Len(userlock[e]) /\ Len(userlock[e]) \in Nat
        /\ DOMAIN nodes = 1 .. Len(nodes) /\ Len(nodes) \in Nat
    BY <1>1, <2>1, LenProperties DEF GoodList
  <2>3. DOMAIN userlock[e] \subseteq DOMAIN nodes
    BY <2>1, <2>2
  <2> QED BY <2>1, <2>3
<1>4. \A j \in DOMAIN nodes : nodes[j].use => nodes[j].cdkey # k
  BY <1>3 DEF isMemLocked, NodesOf, NodesIn, Holds
<1>5. n \in Node /\ n.use /\ Locked(n, e) /\ n.cdkey = k
  BY DEF Node, Locked
<1> HIDE DEF nodes
<1>6. /\ DOMAIN new = DOMAIN nodes
      /\ \A j \in DOMAIN nodes : new[j] = IF j = i THEN n ELSE nodes[j]
  BY <1>2, <1>3, <1>5, NodeSet DEF GoodList
<1>7. GoodList(new, e)
  BY <1>1, <1>2, <1>3, <1>4, <1>5, TakeNode
<1> HIDE DEF n, new
<1>8. userlock' = [userlock EXCEPT ![e] = new]
  BY <1>2 DEF new, n
<1> HIDE DEF e
<1>9. userlock' \in [Entries -> Seq(Node)]
  BY <1>1, <1>7, <1>8 DEF IInv, GoodList
<1>10. \A f \in Entries : userlock'[f] = IF f = e THEN new ELSE userlock[f]
  BY <1>8 DEF IInv
<1>11. \A f \in Entries : GoodList(userlock'[f], f)
  BY <1>7, <1>10 DEF IInv
<1>12. HolderIn(new, k) = [server |-> s, process |-> p]
  <2>1. i \in NodesIn(new, k)
    BY <1>2, <1>5, <1>6 DEF NodesIn, Holds
  <2>2. HolderIn(new, k) = [server |-> new[i].server, process |-> new[i].process]
    BY <2>1, <1>1, <1>7, HolderOfNode
  <2> QED BY <2>2, <1>2, <1>6 DEF n
<1>13. ASSUME NEW l \in CdKeys, l # k
       PROVE  HolderIn(new, l) = HolderIn(userlock[e], l)
  <2>1. NodesIn(new, l) = NodesIn(userlock[e], l)
    BY <1>2, <1>3, <1>5, <1>6, <1>13 DEF NodesIn, Holds
  <2>2. \A j \in NodesIn(userlock[e], l) : new[j] = userlock[e][j]
    BY <1>2, <1>3, <1>6 DEF NodesIn, Holds
  <2> QED BY <2>1, <2>2, <1>1, <1>7, SameHolder
<1>14. ASSUME NEW l \in CdKeys
       PROVE  HolderIn(userlock'[getHash[l]], l) =
                IF l = k THEN [server |-> s, process |-> p]
                         ELSE HolderIn(userlock[getHash[l]], l)
  <2>1. getHash[l] \in Entries
    OBVIOUS
  <2>2. CASE getHash[l] = e
    BY <2>1, <2>2, <1>10, <1>12, <1>13
  <2>3. CASE getHash[l] # e
    BY <2>1, <2>3, <1>10 DEF e
  <2> QED BY <2>2, <2>3
<1> QED BY <1>9, <1>11, <1>14

\* Unlocking: the only node in use for k is freed, the others stay.
LEMMA DeleteStep ==
    ASSUME IInv, NEW k \in CdKeys, DeleteMemLock(k)
    PROVE  /\ userlock' \in [Entries -> Seq(Node)]
           /\ \A e \in Entries : GoodList(userlock'[e], e)
           /\ ret' = Code(HolderIn(userlock[getHash[k]], k).process)
           /\ ret' \in Ret
           /\ HolderIn(userlock[getHash[k]], k) # Unlocked
           /\ \A l \in CdKeys : HolderIn(userlock'[getHash[l]], l) =
                IF l = k THEN Unlocked ELSE HolderIn(userlock[getHash[l]], l)
<1> DEFINE e == getHash[k]
           nodes == userlock[e]
<1>1. e \in Entries /\ GoodList(nodes, e)
  BY DEF IInv
<1>2. PICK i \in NodesIn(nodes, k) :
        /\ userlock' = [userlock EXCEPT ![e][i] =
             [use |-> FALSE, cdkey |-> "", server |-> "", process |-> nodes[i].process]]
        /\ ret' = Code(nodes[i].process)
  BY DEF DeleteMemLock, NodesOf
<1> DEFINE n == [use |-> FALSE, cdkey |-> "", server |-> "", process |-> nodes[i].process]
           new == [nodes EXCEPT ![i] = n]
<1>3. /\ NodesIn(nodes, k) = {i}
      /\ HolderIn(nodes, k) = [server |-> nodes[i].server, process |-> nodes[i].process]
      /\ nodes[i].process \in Processes
      /\ nodes[i].server \in Servers
  BY <1>1, <1>2, HolderOfNode
<1>4. i \in DOMAIN nodes
  BY <1>2 DEF NodesIn
<1>5. n \in Node /\ ~ n.use
  BY <1>3 DEF Node
<1>6. userlock' = [userlock EXCEPT ![e] = new]
  BY <1>1, <1>2 DEF IInv
<1>7. /\ DOMAIN new = DOMAIN nodes
      /\ \A j \in DOMAIN nodes : new[j] = IF j = i THEN n ELSE nodes[j]
  BY <1>1, <1>4, <1>5, NodeSet DEF GoodList
<1>8. GoodList(new, e)
  BY <1>1, <1>4, <1>5, TakeNode
<1>9. ret' = Code(HolderIn(nodes, k).process)
  <2>1. HolderIn(nodes, k).process = nodes[i].process
    BY <1>3
  <2> QED BY <1>2, <2>1, Zenon
<1>10. ret' \in Ret
  BY <1>2, <1>3 DEF Ret, Code
<1>11. HolderIn(nodes, k) # Unlocked
  BY <1>1, <1>3, HolderSome
<1> HIDE DEF n, new
<1>12. NodesIn(new, k) = {}
  BY <1>3, <1>5, <1>7 DEF NodesIn, Holds
<1>13. HolderIn(new, k) = Unlocked
  BY <1>12 DEF HolderIn
<1>14. ASSUME NEW l \in CdKeys, l # k
       PROVE  HolderIn(new, l) = HolderIn(nodes, l)
  <2>1. i \notin NodesIn(nodes, l)
    BY <1>2, <1>14 DEF NodesIn, Holds
  <2>2. NodesIn(new, l) = NodesIn(nodes, l)
    BY <2>1, <1>5, <1>7 DEF NodesIn, Holds
  <2>3. \A j \in NodesIn(nodes, l) : new[j] = nodes[j]
    BY <2>1, <1>7 DEF NodesIn
  <2> QED BY <2>2, <2>3, <1>1, <1>8, SameHolder
<1> HIDE DEF e
<1>15. userlock' \in [Entries -> Seq(Node)]
  BY <1>1, <1>6, <1>8 DEF IInv, GoodList
<1>16. \A f \in Entries : userlock'[f] = IF f = e THEN new ELSE userlock[f]
  BY <1>6 DEF IInv
<1>17. \A f \in Entries : GoodList(userlock'[f], f)
  BY <1>8, <1>16 DEF IInv
<1>18. ASSUME NEW l \in CdKeys
       PROVE  HolderIn(userlock'[getHash[l]], l) =
                IF l = k THEN Unlocked ELSE HolderIn(userlock[getHash[l]], l)
  <2>1. getHash[l] \in Entries
    OBVIOUS
  <2>2. CASE getHash[l] = e
    BY <2>1, <2>2, <1>13, <1>14, <1>16
  <2>3. CASE getHash[l] # e
    BY <2>1, <2>3, <1>16 DEF e
  <2> QED BY <2>2, <2>3
<1> QED BY <1>9, <1>10, <1>11, <1>15, <1>17, <1>18 DEF e

\* Releasing a server: exactly the accounts it held become free.
LEMMA ReleaseStep ==
    ASSUME IInv, NEW s \in Servers, DeleteMemLockServer(s)
    PROVE  /\ userlock' \in [Entries -> Seq(Node)]
           /\ \A e \in Entries : GoodList(userlock'[e], e)
           /\ \A l \in CdKeys : HolderIn(userlock'[getHash[l]], l) =
                IF HolderIn(userlock[getHash[l]], l).server = s
                THEN Unlocked ELSE HolderIn(userlock[getHash[l]], l)
<1>1. \A e \in Entries :
        userlock'[e] = [i \in DOMAIN userlock[e] |-> Released(userlock[e][i], s)]
  BY DEF DeleteMemLockServer
<1>2. ASSUME NEW e \in Entries
      PROVE  GoodList(userlock'[e], e)
  <2>1. GoodList([i \in DOMAIN userlock[e] |-> Released(userlock[e][i], s)], e)
    BY ReleaseNodes DEF IInv
  <2> QED BY <1>1, <2>1, Zenon
<1>3. userlock' \in [Entries -> Seq(Node)]
  BY <1>1, <1>2 DEF DeleteMemLockServer, GoodList
<1>4. ASSUME NEW l \in CdKeys
      PROVE  HolderIn(userlock'[getHash[l]], l) =
                IF HolderIn(userlock[getHash[l]], l).server = s
                THEN Unlocked ELSE HolderIn(userlock[getHash[l]], l)
  <2> DEFINE e == getHash[l]
             old == userlock[e]
             new == userlock'[e]
  <2>1. e \in Entries /\ GoodList(old, e) /\ GoodList(new, e)
    BY <1>2 DEF IInv
  <2>2. /\ DOMAIN new = DOMAIN old
        /\ \A i \in DOMAIN old : new[i] = Released(old[i], s)
    BY <1>1, <2>1
  <2>3. "none" # s
    BY NamesAssumption DEF NamesAssumption
  <2> HIDE DEF old, new
  <2>n. \A i \in DOMAIN old : old[i] \in Node
    BY <2>1, LenProperties, ElementOfSeq DEF GoodList
  <2>4. CASE NodesIn(old, l) = {}
    <3>1. NodesIn(new, l) = {}
      BY <2>2, <2>4, <2>n DEF NodesIn, Holds, Released, Node
    <3> QED BY <3>1, <2>3, <2>4 DEF HolderIn, Unlocked, old, new
  <2>5. CASE NodesIn(old, l) # {}
    <3>1. PICK i \in NodesIn(old, l) : TRUE
      BY <2>5
    <3>2. /\ NodesIn(old, l) = {i}
          /\ HolderIn(old, l) = [server |-> old[i].server, process |-> old[i].process]
      BY <2>1, <3>1, HolderOfNode
    <3>3. i \in DOMAIN old /\ old[i].use /\ old[i].cdkey = l /\ old[i] \in Node
      BY <3>1, <2>n DEF NodesIn, Holds
    <3>4. CASE old[i].server = s
      <4>1. ~ new[i].use
        BY <2>2, <3>3, <3>4 DEF Released, Node
      <4>2. \A j \in DOMAIN new : Holds(new[j], l) => Holds(old[j], l)
        BY <2>2, <2>n DEF Holds, Released, Node
      <4>3. NodesIn(new, l) = {}
        BY <4>1, <4>2, <2>2, <3>2 DEF NodesIn, Holds
      <4> QED BY <4>3, <3>2, <3>4 DEF HolderIn, old, new
    <3>5. CASE old[i].server # s
      <4>1. new[i] = old[i]
        BY <2>2, <3>3, <3>5 DEF Released
      <4>2. i \in NodesIn(new, l)
        BY <4>1, <3>3, <2>2 DEF NodesIn, Holds
      <4>3. HolderIn(new, l) = [server |-> old[i].server, process |-> old[i].process]
        BY <4>1, <4>2, <2>1, HolderOfNode
      <4> QED BY <4>3, <3>2, <3>5 DEF old, new
    <3> QED BY <3>4, <3>5
  <2> QED BY <2>4, <2>5
<1> QED BY <1>2, <1>3, <1>4

-----------------------------------------------------------------------------
(* The theorems. *)

\* Both codes the handlers answer with are answers.
LEMMA RetCodes == Code(0) \in Ret /\ Code(-1) \in Ret
BY DEF Code, Ret

\* The empty table satisfies the invariant.
LEMMA InitIInv == Init => IInv
BY EmptyTableGood, RetCodes DEF Init, IInv

\* Every call keeps the lists well formed and the nodes in their buckets.
LEMMA NextIInv == IInv /\ [Next]_vars => IInv'
<1> SUFFICES ASSUME IInv, [Next]_vars
             PROVE  IInv'
  OBVIOUS
<1>1. CASE UNCHANGED vars
  BY <1>1 DEF vars, IInv
<1>2. ASSUME NEW k \in CdKeys, NEW s \in Servers, NEW p \in Processes, LockUser(k, s, p)
      PROVE  IInv'
  <2>1. CASE isMemLocked(k)
    BY <2>1, <1>2, RetCodes DEF LockUser, IInv
  <2>2. CASE ~ isMemLocked(k)
    <3>1. InsertMemLock(k, s, p) /\ ret' = Code(0)
      BY <1>2, <2>2 DEF LockUser
    <3>2. ret' \in Ret
      BY <3>1, RetCodes
    <3> QED BY <3>1, <3>2, <2>2, InsertStep DEF IInv
  <2> QED BY <2>1, <2>2
<1>3. ASSUME NEW k \in CdKeys, UnlockUser(k)
      PROVE  IInv'
  <2>1. CASE isMemLocked(k)
    <3>1. DeleteMemLock(k)
      BY <1>3, <2>1 DEF UnlockUser
    <3> QED BY <3>1, DeleteStep DEF IInv
  <2>2. CASE ~ isMemLocked(k)
    BY <2>2, <1>3, RetCodes DEF UnlockUser, IInv
  <2> QED BY <2>1, <2>2
<1>4. ASSUME NEW k \in CdKeys, GetMemLockServer(k)
      PROVE  IInv'
  <2>1. UNCHANGED userlock
    BY <1>4 DEF GetMemLockServer
  <2>2. ret' \in Ret
    <3>1. CASE ret' = Code(0)
      BY <3>1 DEF Ret, Code
    <3>2. ASSUME NEW i \in NodesOf(k), ret' = Found(userlock[getHash[k]][i].server)
          PROVE  ret' \in Ret
      <4>1. userlock[getHash[k]][i].server \in Servers
        BY HolderOfNode DEF IInv, NodesOf
      <4> QED BY <3>2, <4>1 DEF Ret, Found
    <3> QED BY <3>1, <3>2, <1>4 DEF GetMemLockServer
  <2> QED BY <2>1, <2>2 DEF IInv
<1>5. ASSUME NEW s \in Servers, DeleteMemLockServer(s)
      PROVE  IInv'
  BY <1>5, ReleaseStep DEF IInv, DeleteMemLockServer
<1>6. CASE Lock_Init
  BY <1>6, EmptyTableGood DEF Lock_Init, IInv
<1> QED BY <1>1, <1>2, <1>3, <1>4, <1>5, <1>6 DEF Next

\* What the invariant says of nodes and buckets
LEMMA IInvImplies == IInv => TypeOK /\ InItsBucket /\ OneNodePerKey
BY DEF IInv, GoodList, Locked, Ret, TypeOK, InItsBucket, OneNodePerKey

\* saac/lock.c keeps its lists well formed, whatever is called in any order.
THEOREM TypeCorrect == Spec => []TypeOK
BY InitIInv, NextIInv, IInvImplies, PTL DEF Spec

\* No account is ever locked twice, and a search in the bucket of its hash
\* finds the lock: one unlock is enough to free an account.
THEOREM SingleLock == Spec => [](OneNodePerKey /\ InItsBucket)
BY InitIInv, NextIInv, IInvImplies, PTL DEF Spec

-----------------------------------------------------------------------------
(* The length of the lists. *)

KeysOf(e) == {k \in CdKeys : getHash[k] = e}

Short(nodes, e) == Len(nodes) = 1 \/ Len(nodes) - MoreNodes < Cardinality(KeysOf(e))

\* A list all of whose nodes are in use for others than k has fewer nodes than
\* its bucket has accounts: its nodes are in use for different accounts.
LEMMA FullIsShort ==
    ASSUME NEW e \in Entries, NEW nodes, GoodList(nodes, e), Full(nodes),
           NEW k \in KeysOf(e), NodesIn(nodes, k) = {}
    PROVE  Len(nodes) < Cardinality(KeysOf(e))
<1> DEFINE n == Len(nodes)
           others == KeysOf(e) \ {k}
           f == [i \in 1 .. n |-> nodes[i].cdkey]
<1>1. n \in Nat /\ DOMAIN nodes = 1 .. n
  BY LenProperties DEF GoodList
<1>2. \A i \in 1 .. n : nodes[i].use /\ nodes[i].cdkey \in others
  BY <1>1 DEF GoodList, Full, Locked, KeysOf, NodesIn, Holds
<1>3. f \in [1 .. n -> others] /\ \A i, j \in 1 .. n : f[i] = f[j] => i = j
  BY <1>1, <1>2 DEF GoodList
<1>4. f \in Injection(1 .. n, others)
  BY <1>3 DEF Injection, IsInjective
<1>5. IsFiniteSet(KeysOf(e))
  BY FS_Subset, NamesAssumption DEF KeysOf, NamesAssumption
<1>6. /\ IsFiniteSet(others) /\ Cardinality(others) = Cardinality(KeysOf(e)) - 1
      /\ Cardinality(KeysOf(e)) \in Nat
  BY <1>5, FS_RemoveElement, FS_CardinalityType
<1>7. Cardinality(1 .. n) = n
  BY <1>1, FS_Interval
<1> HIDE DEF n, others, f
<1>8. Cardinality(1 .. n) <= Cardinality(others)
  BY <1>4, <1>6, FS_Injection
<1> QED BY <1>1, <1>6, <1>7, <1>8 DEF n

\* The empty lists are short.
LEMMA InitShort == Init => BucketBounded
BY DEF Init, EmptyTable, BucketBounded

\* A node is added only where no free one is left to be used again.
LEMMA NextShort == IInv /\ BucketBounded /\ [Next]_vars => BucketBounded'
<1> SUFFICES ASSUME IInv, BucketBounded, [Next]_vars, NEW e \in Entries
             PROVE  Short(userlock'[e], e)
  BY DEF BucketBounded, Short, KeysOf
<1>1. Short(userlock[e], e) /\ GoodList(userlock[e], e)
  BY DEF BucketBounded, Short, KeysOf, IInv
<1>2. ASSUME Len(userlock'[e]) = Len(userlock[e]) PROVE Short(userlock'[e], e)
  BY <1>1, <1>2 DEF Short
<1>3. CASE UNCHANGED userlock
  BY <1>2, <1>3
<1>4. ASSUME NEW k \in CdKeys, NEW s \in Servers, NEW p \in Processes, ~ isMemLocked(k), InsertMemLock(k, s, p)
      PROVE  Short(userlock'[e], e)
  <2> DEFINE f == getHash[k]
             nodes == Grown(userlock[f])
             n == [use |-> TRUE, cdkey |-> k, server |-> s, process |-> p]
  <2>1. PICK i \in DOMAIN nodes : userlock' = [userlock EXCEPT ![f] = [nodes EXCEPT ![i] = n]]
    BY <1>4 DEF InsertMemLock
  <2>2. GoodList(nodes, f) /\ f \in Entries /\ n \in Node
    BY GrownList DEF IInv, Node
  <2>3. Len([nodes EXCEPT ![i] = n]) = Len(nodes)
    BY <2>1, <2>2, NodeSet DEF GoodList
  <2>4. CASE e # f
    BY <1>2, <2>1, <2>4 DEF IInv
  <2>5. CASE e = f
    <3>1. Len(userlock'[e]) = Len(nodes)
      BY <2>1, <2>3, <2>5 DEF IInv
    <3>2. CASE ~ Full(userlock[e])
      BY <1>2, <2>5, <3>1, <3>2 DEF Grown
    <3>3. CASE Full(userlock[e])
      <4>1. Len(nodes) = Len(userlock[e]) + MoreNodes /\ Len(userlock[e]) \in Nat
        BY <1>1, <2>5, <3>3, NewNodesType, ConcatProperties, LenProperties DEF GoodList, Grown
      <4>2. Len(userlock[e]) < Cardinality(KeysOf(e))
        BY <1>1, <1>4, <2>5, <3>3, FullIsShort DEF KeysOf, isMemLocked, NodesOf
      <4> QED BY <3>1, <4>1, <4>2 DEF Short
    <3> QED BY <3>2, <3>3
  <2> QED BY <2>4, <2>5
<1>5. ASSUME NEW k \in CdKeys, DeleteMemLock(k) PROVE Short(userlock'[e], e)
  <2> DEFINE f == getHash[k]
             nodes == userlock[f]
  <2>1. PICK i \in NodesIn(nodes, k) :
          userlock' = [userlock EXCEPT ![f][i] =
                         [use |-> FALSE, cdkey |-> "", server |-> "", process |-> nodes[i].process]]
    BY <1>5 DEF DeleteMemLock, NodesOf
  <2> DEFINE n == [use |-> FALSE, cdkey |-> "", server |-> "", process |-> nodes[i].process]
  <2>2. GoodList(nodes, f) /\ f \in Entries
    BY DEF IInv
  <2>3. i \in DOMAIN nodes /\ n \in Node
    BY <2>2, HolderOfNode DEF NodesIn, Node
  <2>4. userlock' = [userlock EXCEPT ![f] = [nodes EXCEPT ![i] = n]]
    BY <2>1, <2>2 DEF IInv
  <2> HIDE DEF n, nodes
  <2>5. Len([nodes EXCEPT ![i] = n]) = Len(nodes)
    BY <2>2, <2>3, NodeSet DEF GoodList
  <2> USE DEF nodes
  <2> QED BY <1>2, <2>4, <2>5 DEF IInv
<1>6. ASSUME NEW s \in Servers, DeleteMemLockServer(s) PROVE Short(userlock'[e], e)
  <2>1. userlock'[e] \in Seq(Node) /\ DOMAIN userlock'[e] = DOMAIN userlock[e]
    BY <1>6, ReleaseStep DEF DeleteMemLockServer
  <2>2. Len(userlock'[e]) = Len(userlock[e])
    BY <1>1, <2>1, LenProperties DEF GoodList
  <2> QED BY <1>2, <2>2
<1>7. CASE Lock_Init
  BY <1>7 DEF Lock_Init, EmptyTable, Short
<1> QED BY <1>3, <1>4, <1>5, <1>6, <1>7
        DEF Next, vars, LockUser, UnlockUser, GetMemLockServer

\* InsertMemLock adds nodes to a bucket only when it holds fewer than it has
\* accounts: released nodes are found again, whatever the order of logins,
\* logouts and servers that go down, and the table does not grow without end.
THEOREM ListsStayShort == Spec => []BucketBounded
BY InitIInv, NextIInv, InitShort, NextShort, PTL DEF Spec

-----------------------------------------------------------------------------
(* The refinement. *)

\* An account is locked exactly if the map has a holder for it.
LEMMA LockedHolder ==
    ASSUME IInv, NEW k \in CdKeys
    PROVE  isMemLocked(k) <=> HeldBy(k) # UL!Unlocked
<1>1. getHash[k] \in Entries /\ GoodList(userlock[getHash[k]], getHash[k])
  BY DEF IInv
<1>2. Unlocked = UL!Unlocked
  BY DEF Unlocked, UL!Unlocked
<1> QED BY <1>1, <1>2, HolderSome DEF isMemLocked, NodesOf, HeldBy

\* The empty table is the map in which nobody is locked.
LEMMA RefineInit == Init => UL!Init
<1> SUFFICES ASSUME Init PROVE UL!Init
  OBVIOUS
<1>1. ASSUME NEW k \in CdKeys
      PROVE  HeldBy(k) = UL!Unlocked
  <2>1. NodesIn(userlock[getHash[k]], k) = {}
    BY EmptyTableGood DEF Init
  <2> QED BY <2>1 DEF HeldBy, HolderIn, Unlocked, UL!Unlocked
<1> QED BY <1>1 DEF Init, UL!Init, UL!NoLocks, Code, UL!Code

\* Every call is a call on the map, with the same answer, or changes nothing in it.
LEMMA RefineNext == IInv /\ [Next]_vars => [UL!Next]_UL!vars
<1> SUFFICES ASSUME IInv, [Next]_vars
             PROVE  [UL!Next]_UL!vars
  OBVIOUS
<1> DEFINE own == [k \in CdKeys |-> HeldBy(k)]
<1>0. IInv'
  BY NextIInv
<1>h. \A l \in CdKeys : /\ HeldBy(l) = HolderIn(userlock[getHash[l]], l)
                        /\ HeldBy(l)' = HolderIn(userlock'[getHash[l]], l)
  BY DEF HeldBy
<1>u. Unlocked = UL!Unlocked
  BY DEF Unlocked, UL!Unlocked
<1>c. \A c : Code(c) = UL!Code(c) /\ Found(c) = UL!Found(c)
  BY DEF Code, UL!Code, Found, UL!Found
<1>s. UNCHANGED userlock => own' = own
  BY <1>h
<1>1. CASE UNCHANGED vars
  BY <1>1, <1>s DEF vars, UL!vars
<1>2. ASSUME NEW k \in CdKeys, NEW s \in Servers, NEW p \in Processes, LockUser(k, s, p)
      PROVE  UL!Lock(k, s, p)
  <2>1. CASE isMemLocked(k)
    BY <2>1, <1>2, <1>s, <1>c, LockedHolder DEF LockUser, UL!Lock
  <2>2. CASE ~ isMemLocked(k)
    <3>1. InsertMemLock(k, s, p) /\ ret' = Code(0)
      BY <1>2, <2>2 DEF LockUser
    <3>2. \A l \in CdKeys : HeldBy(l)' = IF l = k THEN [server |-> s, process |-> p]
                                                  ELSE HeldBy(l)
      <4>1. \A l \in CdKeys : HolderIn(userlock'[getHash[l]], l) =
              IF l = k THEN [server |-> s, process |-> p]
                       ELSE HolderIn(userlock[getHash[l]], l)
        BY <2>2, <3>1, InsertStep
      <4> QED BY <4>1, <1>h
    <3>3. own' = [own EXCEPT ![k] = [server |-> s, process |-> p]]
      BY <3>2
    <3>4. own[k] = UL!Unlocked
      BY <2>2, LockedHolder
    <3> QED BY <3>1, <3>3, <3>4, <1>c DEF UL!Lock
  <2> QED BY <2>1, <2>2
<1>3. ASSUME NEW k \in CdKeys, UnlockUser(k)
      PROVE  UL!Unlock(k)
  <2>1. CASE isMemLocked(k)
    <3>1. DeleteMemLock(k)
      BY <1>3, <2>1 DEF UnlockUser
    <3>2. \A l \in CdKeys : HeldBy(l)' = IF l = k THEN UL!Unlocked ELSE HeldBy(l)
      BY <3>1, <1>h, <1>u, DeleteStep
    <3>3. own' = [own EXCEPT ![k] = UL!Unlocked]
      BY <3>2
    <3>4. own[k] # UL!Unlocked /\ own[k] = HeldBy(k)
      BY <2>1, LockedHolder
    <3>5. ret' = UL!Code(own[k].process)
      BY <3>1, <3>4, <1>h, <1>c, DeleteStep
    <3> QED BY <3>3, <3>4, <3>5 DEF UL!Unlock
  <2>2. CASE ~ isMemLocked(k)
    <3>1. own[k] = UL!Unlocked
      BY <2>2, LockedHolder
    <3>2. UNCHANGED own /\ ret' = UL!Code(-1)
      BY <2>2, <1>3, <1>s, <1>c DEF UnlockUser
    <3>3. own' = [own EXCEPT ![k] = UL!Unlocked]
      BY <3>1, <3>2
    <3> QED BY <3>1, <3>2, <3>3 DEF UL!Unlock
  <2> QED BY <2>1, <2>2
<1>4. ASSUME NEW k \in CdKeys, GetMemLockServer(k)
      PROVE  UL!Query(k)
  <2>1. UNCHANGED own
    BY <1>4, <1>s DEF GetMemLockServer
  <2>2. CASE ~ isMemLocked(k)
    <3>1. own[k] = UL!Unlocked /\ NodesOf(k) = {}
      BY <2>2, LockedHolder DEF isMemLocked
    <3>2. ret' = UL!Code(0)
      BY <1>4, <3>1, <1>c DEF GetMemLockServer
    <3> QED BY <2>1, <3>1, <3>2 DEF UL!Query
  <2>3. CASE isMemLocked(k)
    <3>1. PICK i \in NodesOf(k) : ret' = Found(userlock[getHash[k]][i].server)
      BY <1>4, <2>3 DEF GetMemLockServer
    <3>2. HeldBy(k).server = userlock[getHash[k]][i].server
      BY <3>1, <1>h, HolderOfNode DEF NodesOf, IInv
    <3>3. own[k] # UL!Unlocked /\ own[k] = HeldBy(k)
      BY <2>3, LockedHolder
    <3>4. ret' = UL!Found(own[k].server)
      BY <3>1, <3>2, <3>3, <1>c
    <3> QED BY <2>1, <3>3, <3>4 DEF UL!Query
  <2> QED BY <2>2, <2>3
<1>5. ASSUME NEW s \in Servers, DeleteMemLockServer(s)
      PROVE  UL!UnlockServer(s)
  <2>1. \A l \in CdKeys : HeldBy(l)' = IF HeldBy(l).server = s THEN UL!Unlocked ELSE HeldBy(l)
    BY <1>5, <1>h, <1>u, ReleaseStep
  <2>2. own' = [k \in CdKeys |-> IF own[k].server = s THEN UL!Unlocked ELSE own[k]]
    BY <2>1
  <2> QED BY <2>2, <1>5 DEF UL!UnlockServer, DeleteMemLockServer
<1>6. CASE Lock_Init
  <2>1. \A k \in CdKeys : NodesIn(userlock'[getHash[k]], k) = {}
    BY <1>6, EmptyTableGood DEF Lock_Init
  <2>2. \A k \in CdKeys : HeldBy(k)' = UL!Unlocked
    BY <2>1, <1>h, <1>u DEF HolderIn
  <2>3. own' = [k \in CdKeys |-> UL!Unlocked]
    BY <2>2
  <2> QED BY <2>3, <1>6 DEF UL!Next, UL!Restart, UL!NoLocks, Lock_Init
<1> QED BY <1>1, <1>2, <1>3, <1>4, <1>5, <1>6 DEF Next, UL!Next

\* The bucket lists of saac/lock.c are a map from accounts to holders: callers
\* may reason about who holds an account and forget nodes, buckets and reuse.
THEOREM LockTableIsAMap == Spec => ImplementsUserLock
BY InitIInv, NextIInv, RefineInit, RefineNext, PTL DEF Spec, ImplementsUserLock, UL!Spec

----------------------------------------------------------------------------
(* The tables of the database. *)

HIDE HashAssumption
HIDE NodesAssumption
HIDE DEF HashAssumption, NodesAssumption

\* A set of numbers has a least one.
LEMMA FirstOfMany ==
    ASSUME NEW T \in SUBSET Nat, T # {}
    PROVE  \E k \in T : \A j \in T : k <= j
<1>1. PICK k \in T : \A j \in T : ~ (<<j, k>> \in OpToRel(<, Nat))
  BY NatLessThanWellFounded, WFMin
<1>2. \A j \in T : ~ (j < k)
  BY <1>1 DEF OpToRel
<1> QED BY <1>2

----------------------------------------------------------------------------
(* Lists: what is put in, taken out and replaced, place by place. *)

ListEntries == [key : Keys, ivalue : Values, nr : Nat]

Inserted(r, l, p, e) == /\ Len(r) = Len(l) + 1 /\ r[p] = e
                        /\ \A i \in 1..Len(l) : i < p => r[i] = l[i]
                        /\ \A i \in 1..Len(l) : i >= p => r[i + 1] = l[i]
Removed(r, l, p) == /\ Len(r) = Len(l) - 1
                    /\ \A i \in 1..Len(r) : i < p => r[i] = l[i]
                    /\ \A i \in 1..Len(r) : i >= p => r[i] = l[i + 1]

\* InsertAt puts in.
LEMMA InsertAtIs ==
    ASSUME NEW S, NEW l \in Seq(S), NEW e \in S, NEW p \in 1..(Len(l) + 1)
    PROVE  InsertAt(l, p, e) \in Seq(S) /\ Inserted(InsertAt(l, p, e), l, p, e)
<1> DEFINE a == SubSeq(l, 1, p - 1)
           b == <<e>>
           c == SubSeq(l, p, Len(l))
           d == a \o b
           r == d \o c
           n == Len(l)
<1>1. n \in Nat /\ p \in Int /\ p - 1 \in Int /\ n \in Int /\ 1 \in Int /\ p >= 1 /\ p <= n + 1
      /\ (\A i \in 1..(p - 1) : l[i] \in S) /\ (\A i \in p..n : l[i] \in S)
  <2>1. n \in Nat /\ \A i \in 1..n : l[i] \in S
    BY LenProperties, ElementOfSeq
  <2> HIDE DEF n
  <2>2. p \in 1..(n + 1)
    BY DEF n
  <2> QED BY <2>1, <2>2
<1>2. a \in Seq(S) /\ Len(a) = p - 1 /\ \A i \in 1..(p - 1) : a[i] = l[i]
  <2> DEFINE u == 1
             w == p - 1
  <2>1. \A i \in u..w : l[i] \in S
    BY <1>1
  <2>2. u \in Int /\ w \in Int
    BY <1>1
  <2> HIDE DEF u, w
  <2>3. SubSeq(l, u, w) \in Seq(S) /\ Len(SubSeq(l, u, w)) = (IF u <= w THEN w - u + 1 ELSE 0)
        /\ \A i \in 1..(w - u + 1) : SubSeq(l, u, w)[i] = l[u + i - 1]
    BY <2>1, <2>2, SubSeqProperties
  <2> QED BY <2>3, <1>1 DEF u, w
<1>3. c \in Seq(S) /\ Len(c) = n - p + 1 /\ \A i \in 1..(n - p + 1) : c[i] = l[p + i - 1]
  <2> HIDE DEF n
  <2>1. SubSeq(l, p, n) \in Seq(S) /\ Len(SubSeq(l, p, n)) = (IF p <= n THEN n - p + 1 ELSE 0)
        /\ \A i \in 1..(n - p + 1) : SubSeq(l, p, n)[i] = l[p + i - 1]
    BY <1>1, SubSeqProperties
  <2> QED BY <2>1, <1>1 DEF n
<1>4. b \in Seq(S) /\ Len(b) = 1 /\ b[1] = e
  OBVIOUS
<1> HIDE DEF a, b, c
<1>5. d \in Seq(S) /\ Len(d) = p /\ (\A i \in 1..(p - 1) : d[i] = l[i]) /\ d[p] = e
  <2>1. d \in Seq(S) /\ Len(d) = Len(a) + Len(b)
        /\ \A i \in 1..(Len(a) + Len(b)) : d[i] = IF i <= Len(a) THEN a[i] ELSE b[i - Len(a)]
    BY <1>2, <1>4, ConcatProperties
  <2> HIDE DEF d
  <2>2. Len(a) + Len(b) = p /\ p - Len(a) = 1
    BY <1>1, <1>2, <1>4
  <2>3. \A i \in 1..(p - 1) : i \in 1..p /\ i <= Len(a)
    BY <1>1, <1>2
  <2>4. p \in 1..p /\ ~ (p <= Len(a))
    BY <1>1, <1>2
  <2> QED BY <1>2, <1>4, <2>1, <2>2, <2>3, <2>4
<1>6. r \in Seq(S) /\ Len(r) = n + 1 /\ \A i \in 1..(n + 1) : r[i] = IF i <= p THEN d[i] ELSE c[i - p]
  <2> HIDE DEF d
  <2>1. r \in Seq(S) /\ Len(r) = Len(d) + Len(c)
        /\ \A i \in 1..(Len(d) + Len(c)) : r[i] = IF i <= Len(d) THEN d[i] ELSE c[i - Len(d)]
    BY <1>3, <1>5, ConcatProperties
  <2>2. Len(d) + Len(c) = n + 1
    BY <1>1, <1>3, <1>5
  <2> QED BY <1>5, <2>1, <2>2
<1> HIDE DEF d
<1>7. r[p] = e
  <2>1. p \in 1..(n + 1) /\ p <= p
    BY <1>1
  <2> QED BY <2>1, <1>5, <1>6
<1>8. ASSUME NEW i \in 1..n, i < p PROVE r[i] = l[i]
  <2>1. i \in 1..(n + 1) /\ i <= p /\ i \in 1..(p - 1)
    BY <1>1, <1>8
  <2> QED BY <2>1, <1>5, <1>6
<1>9. ASSUME NEW i \in 1..n, i >= p PROVE r[i + 1] = l[i]
  <2> DEFINE j == i + 1
             m == j - p
  <2>1. j \in 1..(n + 1) /\ ~ (j <= p) /\ m \in 1..(n - p + 1) /\ p + m - 1 = i
    BY <1>1, <1>9
  <2> HIDE DEF j
  <2>2. r[j] = c[m]
    BY <2>1, <1>6
  <2> HIDE DEF m
  <2>3. c[m] = l[i]
    BY <2>1, <1>3
  <2> QED BY <2>2, <2>3 DEF j
<1>10. InsertAt(l, p, e) = r
  BY DEF InsertAt, a, b, c, d
<1> HIDE DEF r
<1> QED BY <1>6, <1>7, <1>8, <1>9, <1>10 DEF Inserted

\* RemoveAt takes out.
LEMMA RemoveAtIs ==
    ASSUME NEW S, NEW l \in Seq(S), NEW p \in 1..Len(l)
    PROVE  RemoveAt(l, p) \in Seq(S) /\ Removed(RemoveAt(l, p), l, p)
<1> DEFINE a == SubSeq(l, 1, p - 1)
           c == SubSeq(l, p + 1, Len(l))
           r == a \o c
           n == Len(l)
<1>1. n \in Nat /\ p \in Int /\ p - 1 \in Int /\ p + 1 \in Int /\ n \in Int /\ p >= 1 /\ p <= n
      /\ (\A i \in 1..(p - 1) : l[i] \in S) /\ (\A i \in (p + 1)..n : l[i] \in S)
  <2>1. n \in Nat /\ \A i \in 1..n : l[i] \in S
    BY LenProperties, ElementOfSeq
  <2> HIDE DEF n
  <2>2. p \in 1..n
    BY DEF n
  <2> QED BY <2>1, <2>2
<1>2. a \in Seq(S) /\ Len(a) = p - 1 /\ \A i \in 1..(p - 1) : a[i] = l[i]
  <2> DEFINE u == 1
             w == p - 1
  <2>1. \A i \in u..w : l[i] \in S
    BY <1>1
  <2>2. u \in Int /\ w \in Int
    BY <1>1
  <2> HIDE DEF u, w
  <2>3. SubSeq(l, u, w) \in Seq(S) /\ Len(SubSeq(l, u, w)) = (IF u <= w THEN w - u + 1 ELSE 0)
        /\ \A i \in 1..(w - u + 1) : SubSeq(l, u, w)[i] = l[u + i - 1]
    BY <2>1, <2>2, SubSeqProperties
  <2> QED BY <2>3, <1>1 DEF u, w
<1>3. c \in Seq(S) /\ Len(c) = n - p /\ \A i \in 1..(n - p) : c[i] = l[p + i]
  <2> DEFINE u == p + 1
  <2>1. \A i \in u..n : l[i] \in S
    BY <1>1
  <2>2. u \in Int /\ n \in Int
    BY <1>1
  <2> HIDE DEF n, u
  <2>3. SubSeq(l, u, n) \in Seq(S) /\ Len(SubSeq(l, u, n)) = (IF u <= n THEN n - u + 1 ELSE 0)
        /\ \A i \in 1..(n - u + 1) : SubSeq(l, u, n)[i] = l[u + i - 1]
    BY <2>1, <2>2, SubSeqProperties
  <2>4. n - u + 1 = n - p /\ (IF u <= n THEN n - u + 1 ELSE 0) = n - p
        /\ \A i \in 1..(n - p) : u + i - 1 = p + i
    BY <1>1 DEF u
  <2> QED BY <2>3, <2>4 DEF n, u
<1> HIDE DEF a, c
<1>4. r \in Seq(S) /\ Len(r) = n - 1 /\ \A i \in 1..(n - 1) : r[i] = IF i <= p - 1 THEN a[i] ELSE c[i - (p - 1)]
  <2>1. r \in Seq(S) /\ Len(r) = Len(a) + Len(c)
        /\ \A i \in 1..(Len(a) + Len(c)) : r[i] = IF i <= Len(a) THEN a[i] ELSE c[i - Len(a)]
    BY <1>2, <1>3, ConcatProperties
  <2>2. Len(a) + Len(c) = n - 1
    BY <1>1, <1>2, <1>3
  <2> QED BY <1>2, <2>1, <2>2
<1>5. ASSUME NEW i \in 1..(n - 1), i < p PROVE r[i] = l[i]
  <2>1. i <= p - 1 /\ i \in 1..(p - 1)
    BY <1>1, <1>5
  <2> QED BY <2>1, <1>2, <1>4
<1>6. ASSUME NEW i \in 1..(n - 1), i >= p PROVE r[i] = l[i + 1]
  <2> DEFINE m == i - (p - 1)
  <2>1. ~ (i <= p - 1) /\ m \in 1..(n - p) /\ p + m = i + 1
    BY <1>1, <1>6
  <2> HIDE DEF m
  <2>2. r[i] = c[m]
    BY <2>1, <1>4 DEF m
  <2>3. c[m] = l[p + m]
    BY <2>1, <1>3
  <2> QED BY <2>1, <2>2, <2>3
<1>7. RemoveAt(l, p) = r
  BY DEF RemoveAt, a, c
<1> HIDE DEF r
<1>8. Len(r) = n - 1
  BY <1>4
<1> QED BY <1>4, <1>5, <1>6, <1>7, <1>8 DEF Removed

----------------------------------------------------------------------------
(* Lists in which each key is there once. *)

ListKeys(l) == {l[i].key : i \in 1..Len(l)}
GoodEntries(l) == l \in Seq(ListEntries) /\ \A i, j \in 1..Len(l) : l[i].key = l[j].key => i = j
Sorted(l)   == \A i, j \in 1..Len(l) : i < j => l[i].ivalue >= l[j].ivalue

\* What is in a list.
LEMMA ListFacts ==
    ASSUME NEW l \in Seq(ListEntries)
    PROVE  /\ Len(l) \in Nat /\ DOMAIN l = 1..Len(l)
           /\ \A i \in 1..Len(l) : l[i] \in ListEntries /\ l[i].key \in Keys /\ l[i].ivalue \in Values
                                   /\ l[i].ivalue \in Nat /\ l[i].key \in ListKeys(l)
<1>1. Len(l) \in Nat /\ DOMAIN l = 1..Len(l) /\ \A i \in 1..Len(l) : l[i] \in ListEntries
  BY LenProperties, ElementOfSeq
<1>2. Values \subseteq Nat
  BY RankAssumption
<1> QED BY <1>1, <1>2 DEF ListEntries, ListKeys

\* The value of a key is that of its entry.
LEMMA ValueIs ==
    ASSUME NEW l, GoodEntries(l)
    PROVE  /\ \A i \in 1..Len(l) : ValueOf(l, l[i].key) = l[i].ivalue
           /\ \A x : x \notin ListKeys(l) => ValueOf(l, x) = Nobody
<1>1. DOMAIN l = 1..Len(l) /\ Range(l) = {l[i] : i \in 1..Len(l)}
  BY ListFacts DEF GoodEntries, Range
<1>2. ASSUME NEW i \in 1..Len(l) PROVE ValueOf(l, l[i].key) = l[i].ivalue
  <2> DEFINE x == l[i].key
             e == CHOOSE e \in Range(l) : e.key = x
  <2>1. l[i] \in Range(l) /\ l[i].key = x
    BY <1>1
  <2>2. e \in Range(l) /\ e.key = x
    <3>1. \E d \in Range(l) : d.key = x
      BY <2>1
    <3> QED BY <3>1, Zenon
  <2>3. PICK j \in 1..Len(l) : e = l[j]
    BY <1>1, <2>2
  <2>4. j = i
    BY <2>2, <2>3 DEF GoodEntries
  <2> QED BY <2>1, <2>3, <2>4 DEF ValueOf
<1>3. ASSUME NEW x, x \notin ListKeys(l) PROVE ValueOf(l, x) = Nobody
  <2>1. ~ \E e \in Range(l) : e.key = x
    BY <1>1, <1>3 DEF ListKeys
  <2> QED BY <2>1 DEF ValueOf
<1> QED BY <1>2, <1>3

\* Where the entries of a list come from into which one was put.
LEMMA InsertedPlaces ==
    ASSUME NEW l \in Seq(ListEntries), NEW r \in Seq(ListEntries), NEW e, NEW p \in 1..(Len(l) + 1), Inserted(r, l, p, e)
    PROVE  \A i \in 1..Len(r) : \/ i < p /\ i \in 1..Len(l) /\ r[i] = l[i]
                                \/ i = p /\ r[i] = e
                                \/ i > p /\ i - 1 \in 1..Len(l) /\ i - 1 >= p /\ r[i] = l[i - 1]
<1> DEFINE n == Len(l)
<1>1. n \in Nat /\ Len(r) = n + 1 /\ p \in 1..(n + 1)
  BY ListFacts DEF Inserted
<1>2. ASSUME NEW i \in 1..Len(r), i > p PROVE i - 1 \in 1..n /\ i - 1 >= p /\ r[i] = l[i - 1]
  <2> DEFINE j == i - 1
  <2>1. j \in 1..n /\ j >= p /\ j + 1 = i
    BY <1>1, <1>2
  <2> HIDE DEF j
  <2>2. r[j + 1] = l[j]
    BY <2>1 DEF Inserted
  <2> QED BY <2>1, <2>2 DEF j
<1>3. ASSUME NEW i \in 1..Len(r), i < p PROVE i \in 1..n /\ r[i] = l[i]
  BY <1>1, <1>3 DEF Inserted
<1>4. r[p] = e
  BY DEF Inserted
<1>5. ASSUME NEW i \in 1..Len(r) PROVE i < p \/ i = p \/ i > p
  BY <1>1
<1> QED BY <1>2, <1>3, <1>4, <1>5

\* A new key in a list.
LEMMA InsertedGood ==
    ASSUME NEW l, GoodEntries(l), NEW r \in Seq(ListEntries), NEW e \in ListEntries, e.key \notin ListKeys(l),
           NEW p \in 1..(Len(l) + 1), Inserted(r, l, p, e)
    PROVE  /\ GoodEntries(r) /\ ListKeys(r) = ListKeys(l) \cup {e.key}
           /\ \A x : ValueOf(r, x) = IF x = e.key THEN e.ivalue ELSE ValueOf(l, x)
<1> DEFINE n == Len(l)
<1>1. l \in Seq(ListEntries) /\ n \in Nat /\ Len(r) = n + 1 /\ p \in 1..(n + 1) /\ p \in 1..Len(r) /\ r[p] = e
  BY ListFacts DEF GoodEntries, Inserted
<1>2. \A i \in 1..Len(r) : \/ i < p /\ i \in 1..n /\ r[i] = l[i]
                           \/ i = p /\ r[i] = e
                           \/ i > p /\ i - 1 \in 1..n /\ i - 1 >= p /\ r[i] = l[i - 1]
  BY <1>1, InsertedPlaces
<1>3. \A i \in 1..n : l[i].key # e.key
  BY DEF ListKeys
<1>4. \A i, j \in 1..n : l[i].key = l[j].key => i = j
  BY DEF GoodEntries
<1>5. ASSUME NEW i \in 1..Len(r), NEW j \in 1..Len(r), r[i].key = r[j].key PROVE i = j
  <2> DEFINE a == i - 1
             b == j - 1
  <2>1. \/ i < p /\ i \in 1..n /\ r[i] = l[i]
        \/ i = p /\ r[i] = e
        \/ i > p /\ a \in 1..n /\ a >= p /\ r[i] = l[a]
    BY <1>2
  <2>2. \/ j < p /\ j \in 1..n /\ r[j] = l[j]
        \/ j = p /\ r[j] = e
        \/ j > p /\ b \in 1..n /\ b >= p /\ r[j] = l[b]
    BY <1>2
  <2>3. a = b => i = j
    BY <1>1
  <2>4. (i = b /\ i < p => ~ (b >= p)) /\ (a = j /\ j < p => ~ (a >= p))
    BY <1>1
  <2> HIDE DEF a, b, n
  <2> QED BY <1>3, <1>4, <1>5, <2>1, <2>2, <2>3, <2>4
<1>6. GoodEntries(r)
  BY <1>5 DEF GoodEntries
<1>7. ASSUME NEW i \in 1..n PROVE \E j \in 1..Len(r) : r[j] = l[i]
  <2>1. i \in 1..Len(r) /\ i + 1 \in 1..Len(r)
    BY <1>1
  <2>2. CASE i < p
    BY <2>1, <2>2 DEF Inserted
  <2>3. CASE i >= p
    BY <2>1, <2>3 DEF Inserted
  <2> QED BY <2>2, <2>3, <1>1
<1>8. ListKeys(r) = ListKeys(l) \cup {e.key}
  <2>1. ASSUME NEW i \in 1..Len(r) PROVE r[i].key \in ListKeys(l) \cup {e.key}
    BY <1>2 DEF ListKeys
  <2>2. e.key \in ListKeys(r)
    BY <1>1 DEF ListKeys
  <2>3. ASSUME NEW i \in 1..n PROVE l[i].key \in ListKeys(r)
    BY <1>7 DEF ListKeys
  <2> QED BY <2>1, <2>2, <2>3 DEF ListKeys
<1>9. ASSUME NEW x PROVE ValueOf(r, x) = IF x = e.key THEN e.ivalue ELSE ValueOf(l, x)
  <2>1. CASE x = e.key
    <3>1. ValueOf(r, r[p].key) = r[p].ivalue
      BY <1>1, <1>6, ValueIs
    <3> QED BY <1>1, <2>1, <3>1
  <2>2. CASE x # e.key /\ x \in ListKeys(l)
    <3>1. PICK i \in 1..n : x = l[i].key
      BY <2>2 DEF ListKeys
    <3>2. PICK j \in 1..Len(r) : r[j] = l[i]
      BY <1>7
    <3>3. ValueOf(r, r[j].key) = r[j].ivalue
      BY <1>6, ValueIs
    <3>4. ValueOf(l, l[i].key) = l[i].ivalue
      BY ValueIs
    <3> QED BY <2>2, <3>1, <3>2, <3>3, <3>4
  <2>3. CASE x # e.key /\ x \notin ListKeys(l)
    <3>1. ValueOf(l, x) = Nobody /\ ValueOf(r, x) = Nobody
      BY <1>6, <1>8, <2>3, ValueIs
    <3> QED BY <2>3, <3>1
  <2> QED BY <2>1, <2>2, <2>3
<1> QED BY <1>6, <1>8, <1>9

\* It comes where its value belongs.
LEMMA InsertedSorted ==
    ASSUME NEW l \in Seq(ListEntries), Sorted(l), NEW r \in Seq(ListEntries), NEW e \in ListEntries,
           NEW p \in 1..(Len(l) + 1), Inserted(r, l, p, e),
           \A i \in 1..Len(l) : i < p => l[i].ivalue >= e.ivalue,
           \A i \in 1..Len(l) : i >= p => l[i].ivalue <= e.ivalue
    PROVE  Sorted(r)
<1> DEFINE n == Len(l)
<1>1. n \in Nat /\ Len(r) = n + 1 /\ p \in 1..(n + 1)
      /\ (\A i \in 1..n : l[i].ivalue \in Nat) /\ e.ivalue \in Nat
  <2>1. e.ivalue \in Nat
    BY RankAssumption DEF ListEntries
  <2> QED BY <2>1, ListFacts DEF Inserted
<1>2. \A i \in 1..Len(r) : \/ i < p /\ i \in 1..n /\ r[i] = l[i]
                           \/ i = p /\ r[i] = e
                           \/ i > p /\ i - 1 \in 1..n /\ i - 1 >= p /\ r[i] = l[i - 1]
  BY InsertedPlaces
<1>3. \A i, j \in 1..n : i < j => l[i].ivalue >= l[j].ivalue
  BY DEF Sorted
<1>4. ASSUME NEW i \in 1..Len(r), NEW j \in 1..Len(r), i < j PROVE r[i].ivalue >= r[j].ivalue
  <2> DEFINE a == i - 1
             b == j - 1
  <2>1. \/ i < p /\ i \in 1..n /\ r[i] = l[i]
        \/ i = p /\ r[i] = e
        \/ i > p /\ a \in 1..n /\ a >= p /\ r[i] = l[a]
    BY <1>2
  <2>2. \/ j < p /\ j \in 1..n /\ r[j] = l[j]
        \/ j = p /\ r[j] = e
        \/ j > p /\ b \in 1..n /\ b >= p /\ r[j] = l[b]
    BY <1>2
  <2>3. a < b /\ (b >= p /\ i < p => i < b) /\ (i > p => j > p) /\ (i = p => j > p)
    BY <1>1, <1>4
  <2> HIDE DEF a, b, n
  <2>4. CASE i < p /\ i \in 1..n /\ r[i] = l[i]
    <3>1. l[i].ivalue \in Nat /\ l[i].ivalue >= e.ivalue
      BY <2>4, <1>1 DEF n
    <3> QED BY <2>2, <2>3, <2>4, <3>1, <1>3, <1>4
  <2>5. CASE i = p /\ r[i] = e
    <3>1. j > p /\ b \in 1..n /\ b >= p /\ r[j] = l[b]
      BY <2>2, <2>3, <2>5
    <3>2. l[b].ivalue <= e.ivalue /\ l[b].ivalue \in Nat
      BY <3>1, <1>1 DEF n
    <3> QED BY <2>5, <3>1, <3>2, <1>1
  <2>6. CASE i > p /\ a \in 1..n /\ r[i] = l[a]
    <3>1. b \in 1..n /\ r[j] = l[b]
      BY <2>2, <2>3, <2>6, <1>1
    <3> QED BY <2>3, <2>6, <3>1, <1>3
  <2> QED BY <2>1, <2>4, <2>5, <2>6
<1> QED BY <1>4 DEF Sorted

\* A key that is taken out.
LEMMA RemovedGood ==
    ASSUME NEW l, GoodEntries(l), NEW p \in 1..Len(l), NEW r \in Seq(ListEntries), Removed(r, l, p)
    PROVE  /\ GoodEntries(r) /\ ListKeys(r) = ListKeys(l) \ {l[p].key}
           /\ \A x : ValueOf(r, x) = IF x = l[p].key THEN Nobody ELSE ValueOf(l, x)
<1> DEFINE n == Len(l)
<1>1. l \in Seq(ListEntries) /\ n \in Nat /\ Len(r) = n - 1 /\ p \in 1..n
  BY ListFacts DEF GoodEntries, Removed
<1>2. \A i \in 1..Len(r) : \/ i < p /\ i \in 1..n /\ r[i] = l[i]
                           \/ i >= p /\ i + 1 \in 1..n /\ r[i] = l[i + 1]
  BY <1>1 DEF Removed
<1>3. \A i, j \in 1..n : l[i].key = l[j].key => i = j
  BY DEF GoodEntries
<1>4. ASSUME NEW i \in 1..Len(r), NEW j \in 1..Len(r), r[i].key = r[j].key PROVE i = j
  <2> DEFINE a == i + 1
             b == j + 1
  <2>1. (i < p /\ i \in 1..n /\ r[i] = l[i]) \/ (i >= p /\ a \in 1..n /\ r[i] = l[a])
    BY <1>2
  <2>2. (j < p /\ j \in 1..n /\ r[j] = l[j]) \/ (j >= p /\ b \in 1..n /\ r[j] = l[b])
    BY <1>2
  <2>3. (a = b => i = j) /\ (i = b /\ i < p => ~ (j >= p)) /\ (a = j /\ j < p => ~ (i >= p))
    BY <1>1
  <2> HIDE DEF a, b, n
  <2> QED BY <1>3, <1>4, <2>1, <2>2, <2>3
<1>5. GoodEntries(r)
  BY <1>4 DEF GoodEntries
<1>6. ASSUME NEW i \in 1..n, i # p PROVE \E j \in 1..Len(r) : r[j] = l[i]
  <2>1. CASE i < p
    <3>1. i \in 1..Len(r)
      BY <1>1, <2>1
    <3> QED BY <2>1, <3>1 DEF Removed
  <2>2. CASE i > p
    <3> DEFINE j == i - 1
    <3>1. j \in 1..Len(r) /\ j >= p /\ j + 1 = i
      BY <1>1, <2>2
    <3> HIDE DEF j
    <3> QED BY <3>1 DEF Removed
  <2> QED BY <2>1, <2>2, <1>1, <1>6
<1>7. \A i \in 1..Len(r) : \E j \in 1..n : j # p /\ r[i] = l[j]
  <2> TAKE i \in 1..Len(r)
  <2> DEFINE a == i + 1
  <2>1. (i < p /\ i \in 1..n /\ r[i] = l[i]) \/ (i >= p /\ a \in 1..n /\ r[i] = l[a])
    BY <1>2
  <2>2. (i < p => i # p) /\ (i >= p => a # p)
    BY <1>1
  <2> HIDE DEF a, n
  <2> QED BY <2>1, <2>2
<1>8. ListKeys(r) = ListKeys(l) \ {l[p].key}
  <2>1. ASSUME NEW i \in 1..Len(r) PROVE r[i].key \in ListKeys(l) \ {l[p].key}
    BY <1>1, <1>3, <1>7 DEF ListKeys
  <2>2. ASSUME NEW x \in ListKeys(l), x # l[p].key PROVE x \in ListKeys(r)
    <3>1. PICK i \in 1..n : x = l[i].key
      BY DEF ListKeys
    <3>2. i # p
      BY <2>2, <3>1
    <3> QED BY <3>1, <3>2, <1>6 DEF ListKeys
  <2> QED BY <2>1, <2>2 DEF ListKeys
<1>9. ASSUME NEW x PROVE ValueOf(r, x) = IF x = l[p].key THEN Nobody ELSE ValueOf(l, x)
  <2>1. CASE x = l[p].key
    BY <1>5, <1>8, <2>1, ValueIs
  <2>2. CASE x # l[p].key /\ x \in ListKeys(l)
    <3>1. PICK i \in 1..n : x = l[i].key
      BY <2>2 DEF ListKeys
    <3>2. PICK j \in 1..Len(r) : r[j] = l[i]
      BY <1>6, <2>2, <3>1
    <3>3. ValueOf(r, r[j].key) = r[j].ivalue
      BY <1>5, ValueIs
    <3>4. ValueOf(l, l[i].key) = l[i].ivalue
      BY ValueIs
    <3> QED BY <2>2, <3>1, <3>2, <3>3, <3>4
  <2>3. CASE x # l[p].key /\ x \notin ListKeys(l)
    <3>1. ValueOf(l, x) = Nobody /\ ValueOf(r, x) = Nobody
      BY <1>5, <1>8, <2>3, ValueIs
    <3> QED BY <2>3, <3>1
  <2> QED BY <2>1, <2>2, <2>3
<1> QED BY <1>5, <1>8, <1>9

\* The others stay where they belong.
LEMMA RemovedSorted ==
    ASSUME NEW l \in Seq(ListEntries), Sorted(l), NEW p \in 1..Len(l), NEW r \in Seq(ListEntries), Removed(r, l, p)
    PROVE  Sorted(r)
<1> DEFINE n == Len(l)
<1>1. n \in Nat /\ Len(r) = n - 1 /\ p \in 1..n
  BY ListFacts DEF Removed
<1>2. \A i \in 1..Len(r) : \/ i < p /\ i \in 1..n /\ r[i] = l[i]
                           \/ i >= p /\ i + 1 \in 1..n /\ r[i] = l[i + 1]
  BY <1>1 DEF Removed
<1>3. \A i, j \in 1..n : i < j => l[i].ivalue >= l[j].ivalue
  BY DEF Sorted
<1>4. ASSUME NEW i \in 1..Len(r), NEW j \in 1..Len(r), i < j PROVE r[i].ivalue >= r[j].ivalue
  <2> DEFINE a == i + 1
             b == j + 1
  <2>1. (i < p /\ i \in 1..n /\ r[i] = l[i]) \/ (i >= p /\ a \in 1..n /\ r[i] = l[a])
    BY <1>2
  <2>2. (j < p /\ j \in 1..n /\ r[j] = l[j]) \/ (j >= p /\ b \in 1..n /\ r[j] = l[b])
    BY <1>2
  <2>3. a < b /\ i < b /\ (i >= p => ~ (j < p))
    BY <1>1, <1>4
  <2> HIDE DEF a, b, n
  <2> QED BY <1>3, <1>4, <2>1, <2>2, <2>3
<1> QED BY <1>4 DEF Sorted

\* What an update of the list does to keys and values.
Put(l, r, k, v) == /\ GoodEntries(r) /\ ListKeys(r) = ListKeys(l) \cup {k}
                   /\ \A x : ValueOf(r, x) = IF x = k THEN v ELSE ValueOf(l, x)

Replaced(r, l, p, e) == r \in Seq(ListEntries) /\ Len(r) = Len(l) /\ \A i \in 1..Len(l) : r[i] = IF i = p THEN e ELSE l[i]

\* A value that changes where it is.
LEMMA ReplacedGood ==
    ASSUME NEW l, GoodEntries(l), NEW p \in 1..Len(l), NEW e, e.key = l[p].key, NEW r, Replaced(r, l, p, e)
    PROVE  Put(l, r, e.key, e.ivalue)
<1> DEFINE n == Len(l)
<1>1. l \in Seq(ListEntries) /\ n \in Nat /\ DOMAIN l = 1..n
  BY ListFacts DEF GoodEntries
<1>2. r \in Seq(ListEntries) /\ Len(r) = n /\ \A i \in 1..n : r[i] = IF i = p THEN e ELSE l[i]
  BY DEF Replaced
<1>3. \A i \in 1..n : r[i].key = l[i].key
  BY <1>2
<1>4. GoodEntries(r)
  BY <1>2, <1>3 DEF GoodEntries
<1>5. ListKeys(r) = ListKeys(l) /\ ListKeys(l) = ListKeys(l) \cup {e.key}
  BY <1>2, <1>3 DEF ListKeys
<1>6. ASSUME NEW x PROVE ValueOf(r, x) = IF x = e.key THEN e.ivalue ELSE ValueOf(l, x)
  <2>1. CASE x = e.key
    <3>1. ValueOf(r, r[p].key) = r[p].ivalue
      BY <1>2, <1>4, ValueIs
    <3> QED BY <1>2, <2>1, <3>1
  <2>2. CASE x # e.key /\ x \in ListKeys(l)
    <3>1. PICK i \in 1..n : x = l[i].key
      BY <2>2 DEF ListKeys
    <3>2. i # p
      BY <2>2, <3>1
    <3>3. ValueOf(r, r[i].key) = r[i].ivalue
      BY <1>2, <1>4, ValueIs
    <3>4. ValueOf(l, l[i].key) = l[i].ivalue
      BY ValueIs
    <3> QED BY <1>2, <2>2, <3>1, <3>2, <3>3, <3>4
  <2>3. CASE x # e.key /\ x \notin ListKeys(l)
    <3>1. ValueOf(l, x) = Nobody /\ ValueOf(r, x) = Nobody
      BY <1>4, <1>5, <2>3, ValueIs
    <3> QED BY <2>3, <3>1
  <2> QED BY <2>1, <2>2, <2>3
<1> QED BY <1>4, <1>5, <1>6 DEF Put

\* An entry that moves.
LEMMA MovedIs ==
    ASSUME NEW l, GoodEntries(l), NEW at \in 1..Len(l), NEW v \in Values
    PROVE  Put(l, Moved(l, at, v), l[at].key, v) /\ (Sorted(l) => Sorted(Moved(l, at, v)))
<1> DEFINE n == Len(l)
           e == [l[at] EXCEPT !.ivalue = v]
           up == {i \in 1 .. at - 1 : \A j \in i .. at - 1 : l[j].ivalue < v}
           down == {i \in at + 1 .. Len(l) : \A j \in at + 1 .. i : l[j].ivalue > v}
           q == RemoveAt(l, at)
           k == l[at].key
           pu == CHOOSE i \in up : \A j \in up : i <= j
           pd == CHOOSE i \in down : \A j \in down : i >= j
           r == Moved(l, at, v)
<1>1. l \in Seq(ListEntries) /\ n \in Nat /\ at \in 1..n /\ k \in Keys /\ v \in Nat
      /\ (\A i \in 1..n : l[i] \in ListEntries /\ l[i].ivalue \in Nat)
      /\ e \in ListEntries /\ e.key = k /\ e.ivalue = v
  <2>1. l \in Seq(ListEntries)
    BY DEF GoodEntries
  <2>2. n \in Nat /\ (\A i \in 1..n : l[i] \in ListEntries /\ l[i].ivalue \in Nat /\ l[i].key \in Keys)
    BY <2>1, ListFacts
  <2>3. l[at] \in ListEntries /\ v \in Nat
    BY <2>2, RankAssumption
  <2> QED BY <2>1, <2>2, <2>3 DEF ListEntries
<1>2. r = IF up # {} THEN InsertAt(q, pu, e) ELSE IF down # {} THEN InsertAt(q, pd, e) ELSE ReplaceAt(l, at, e)
  BY DEF Moved
<1>3. q \in Seq(ListEntries) /\ Removed(q, l, at)
  BY <1>1, RemoveAtIs
<1>4. /\ GoodEntries(q) /\ ListKeys(q) = ListKeys(l) \ {k}
      /\ \A x : ValueOf(q, x) = IF x = k THEN Nobody ELSE ValueOf(l, x)
  BY <1>3, RemovedGood
<1>5. Len(q) = n - 1 /\ k \in ListKeys(l) /\ k \notin ListKeys(q)
  BY <1>3, <1>4 DEF Removed, ListKeys
<1>6. \A i \in 1..(n - 1) : (i < at => q[i] = l[i]) /\ (i >= at => q[i] = l[i + 1])
  BY <1>3, <1>5 DEF Removed
<1>7. Sorted(l) => Sorted(q)
  BY <1>1, <1>3, RemovedSorted
<1>8. Sorted(l) => \A i, j \in 1..n : i <= j => l[i].ivalue >= l[j].ivalue
  <2>1. Sorted(l) => \A i, j \in 1..n : i < j => l[i].ivalue >= l[j].ivalue
    BY DEF Sorted
  <2>2. \A i, j \in 1..n : i <= j => i < j \/ i = j
    BY <1>1
  <2>3. \A i \in 1..n : l[i].ivalue >= l[i].ivalue
    BY <1>1
  <2> QED BY <2>1, <2>2, <2>3
<1> HIDE DEF q, e, k, n, r
<1>9. ASSUME NEW p \in 1..n, r = InsertAt(q, p, e)
      PROVE  Put(l, r, k, v) /\ r \in Seq(ListEntries) /\ Inserted(r, q, p, e)
  <2>1. p \in 1..(Len(q) + 1)
    BY <1>1, <1>5
  <2>2. r \in Seq(ListEntries) /\ Inserted(r, q, p, e)
    BY <1>1, <1>3, <1>9, <2>1, InsertAtIs
  <2>3. e.key \notin ListKeys(q)
    BY <1>1, <1>5
  <2>4. /\ GoodEntries(r) /\ ListKeys(r) = ListKeys(q) \cup {e.key}
        /\ \A x : ValueOf(r, x) = IF x = e.key THEN e.ivalue ELSE ValueOf(q, x)
    BY <1>1, <1>4, <2>1, <2>2, <2>3, InsertedGood
  <2>5. \A x : ValueOf(r, x) = IF x = k THEN v ELSE ValueOf(l, x)
    BY <1>1, <1>4, <2>4
  <2>6. ListKeys(r) = ListKeys(l) \cup {k}
    BY <1>1, <1>4, <1>5, <2>4
  <2> QED BY <2>2, <2>4, <2>5, <2>6 DEF Put
<1>10. ASSUME NEW p \in 1..n, r = InsertAt(q, p, e), Sorted(l),
              \A i \in 1..(n - 1) : i < p => q[i].ivalue >= v,
              \A i \in 1..(n - 1) : i >= p => q[i].ivalue <= v
       PROVE  Sorted(r)
  <2>1. p \in 1..(Len(q) + 1) /\ Len(q) = n - 1
    BY <1>1, <1>5
  <2>2. r \in Seq(ListEntries) /\ Inserted(r, q, p, e)
    BY <1>9, <1>10
  <2>3. \A i \in 1..Len(q) : i < p => q[i].ivalue >= e.ivalue
    BY <2>1, <1>1, <1>10
  <2>4. \A i \in 1..Len(q) : i >= p => q[i].ivalue <= e.ivalue
    BY <2>1, <1>1, <1>10
  <2>5. Sorted(q)
    BY <1>7, <1>10
  <2> QED BY <1>1, <1>3, <2>1, <2>2, <2>3, <2>4, <2>5, InsertedSorted
<1>11. CASE up # {}
  <2>1. pu \in up /\ \A j \in up : pu <= j
    <3>1. up \in SUBSET Nat
      BY <1>1
    <3> HIDE DEF up
    <3>2. \E i \in up : \A j \in up : i <= j
      BY <1>11, <3>1, FirstOfMany
    <3> QED BY <3>2, Zenon
  <2> HIDE DEF pu
  <2>2. pu \in 1..n /\ pu <= at - 1 /\ \A j \in pu..(at - 1) : l[j].ivalue < v
    BY <1>1, <2>1
  <2>3. r = InsertAt(q, pu, e)
    BY <1>2, <1>11
  <2>4. ASSUME Sorted(l), NEW i \in 1..(n - 1), i < pu PROVE q[i].ivalue >= v
    <3>1. i \in 1..(at - 1) /\ i < at /\ i \in 1..n /\ ~ (pu <= i)
      BY <1>1, <2>2, <2>4
    <3>2. i \notin up
      <4> HIDE DEF up
      <4> QED BY <2>1, <3>1
    <3>3. PICK j \in i..(at - 1) : ~ (l[j].ivalue < v)
      BY <3>1, <3>2
    <3>4. j \in 1..n /\ i <= j
      BY <1>1, <3>1
    <3>5. l[i].ivalue >= l[j].ivalue /\ l[i].ivalue \in Nat /\ l[j].ivalue \in Nat
      BY <1>1, <1>8, <2>4, <3>1, <3>4
    <3>6. q[i] = l[i]
      BY <1>6, <3>1
    <3> QED BY <1>1, <3>3, <3>5, <3>6
  <2>5. ASSUME Sorted(l), NEW i \in 1..(n - 1), i >= pu PROVE q[i].ivalue <= v
    <3>1. CASE i < at
      <4>1. q[i] = l[i] /\ i \in pu..(at - 1) /\ i \in 1..n
        BY <1>1, <1>6, <2>2, <2>5, <3>1
      <4>2. l[i].ivalue < v /\ l[i].ivalue \in Nat
        BY <4>1, <2>2, <1>1
      <4> QED BY <4>1, <4>2, <1>1
    <3>2. CASE i >= at
      <4> DEFINE j == i + 1
                 m == at - 1
      <4>1. j \in 1..n /\ m \in 1..n /\ m <= j /\ m \in pu..(at - 1)
        BY <1>1, <2>2, <3>2
      <4>2. q[i] = l[j]
        BY <1>6, <3>2
      <4> HIDE DEF j, m
      <4>3. l[m].ivalue < v /\ l[m].ivalue \in Nat /\ l[j].ivalue \in Nat /\ l[m].ivalue >= l[j].ivalue
        BY <1>1, <1>8, <2>2, <2>5, <4>1
      <4> QED BY <1>1, <4>2, <4>3
    <3> QED BY <3>1, <3>2, <1>1
  <2> QED BY <2>2, <2>3, <2>4, <2>5, <1>9, <1>10 DEF r, k
<1>12. CASE up = {} /\ down # {}
  <2>1. pd \in down /\ \A j \in down : pd >= j
    <3> DEFINE U == {n - i : i \in down}
    <3>1. \A i \in down : i \in Nat /\ i <= n /\ n - i \in Nat
      BY <1>1 DEF n
    <3> HIDE DEF down
    <3>2. U \in SUBSET Nat /\ U # {}
      BY <1>12, <3>1
    <3>3. PICK u \in U : \A w \in U : u <= w
      <4> HIDE DEF U
      <4> QED BY <3>2, FirstOfMany
    <3>4. PICK i \in down : u = n - i
      BY <3>3
    <3>5. \A j \in down : n - i <= n - j
      BY <3>3, <3>4
    <3>6. \A j \in down : i >= j
      <4> TAKE j \in down
      <4>1. i \in Nat /\ j \in Nat /\ n \in Nat /\ n - i <= n - j
        BY <1>1, <3>1, <3>5
      <4> QED BY <4>1
    <3>7. \E d \in down : \A j \in down : d >= j
      BY <3>6
    <3> QED BY <3>7, Zenon
  <2> HIDE DEF pd
  <2>2. pd \in 1..n /\ pd >= at + 1 /\ \A j \in (at + 1)..pd : l[j].ivalue > v
    BY <1>1, <2>1 DEF n
  <2>3. r = InsertAt(q, pd, e)
    BY <1>2, <1>12
  <2>4. ASSUME Sorted(l), NEW i \in 1..(n - 1), i < pd PROVE q[i].ivalue >= v
    <3>1. CASE i < at
      <4> DEFINE m == at + 1
      <4>1. i \in 1..n /\ m \in 1..n /\ i <= m /\ m \in (at + 1)..pd /\ q[i] = l[i]
        BY <1>1, <1>6, <2>2, <3>1
      <4> HIDE DEF m
      <4>2. l[m].ivalue > v /\ l[m].ivalue \in Nat /\ l[i].ivalue \in Nat /\ l[i].ivalue >= l[m].ivalue
        BY <1>1, <1>8, <2>2, <2>4, <4>1
      <4> QED BY <1>1, <4>1, <4>2
    <3>2. CASE i >= at
      <4> DEFINE j == i + 1
      <4>1. j \in 1..n /\ j \in (at + 1)..pd /\ q[i] = l[j]
        BY <1>1, <1>6, <2>2, <2>4, <3>2
      <4> HIDE DEF j
      <4>2. l[j].ivalue > v /\ l[j].ivalue \in Nat
        BY <1>1, <2>2, <4>1
      <4> QED BY <1>1, <4>1, <4>2
    <3> QED BY <3>1, <3>2, <1>1
  <2>5. ASSUME Sorted(l), NEW i \in 1..(n - 1), i >= pd PROVE q[i].ivalue <= v
    <3> DEFINE j == i + 1
    <3>1. j \in 1..n /\ j \in (at + 1)..n /\ ~ (pd >= j) /\ i >= at
      BY <1>1, <2>2, <2>5
    <3>2. q[i] = l[j]
      BY <1>6, <3>1
    <3> HIDE DEF j
    <3>3. j \notin down
      <4> HIDE DEF down
      <4> QED BY <2>1, <3>1
    <3>4. PICK m \in (at + 1)..j : ~ (l[m].ivalue > v)
      BY <3>1, <3>3 DEF n
    <3>5. m \in 1..n /\ m <= j
      BY <1>1, <3>1
    <3>6. l[m].ivalue >= l[j].ivalue /\ l[m].ivalue \in Nat /\ l[j].ivalue \in Nat
      BY <1>1, <1>8, <2>5, <3>1, <3>5
    <3> QED BY <1>1, <3>2, <3>4, <3>6
  <2> QED BY <2>2, <2>3, <2>4, <2>5, <1>9, <1>10 DEF r, k
<1>13. CASE up = {} /\ down = {}
  <2> DEFINE w == [l EXCEPT ![at] = e]
  <2>1. r = w
    BY <1>2, <1>13 DEF ReplaceAt
  <2>2. w \in Seq(ListEntries) /\ Len(w) = n /\ \A i \in 1..n : w[i] = IF i = at THEN e ELSE l[i]
    BY <1>1, ExceptSeq DEF n
  <2> HIDE DEF w
  <2>3. Put(l, r, k, v)
    <3>1. e.key = l[at].key /\ Replaced(w, l, at, e)
      BY <1>1, <2>2 DEF k, n, Replaced
    <3>2. Put(l, w, e.key, e.ivalue)
      BY <3>1, ReplacedGood
    <3> QED BY <1>1, <2>1, <3>2
  <2>4. ASSUME Sorted(l) PROVE Sorted(w)
    <3>1. ASSUME NEW i \in 1..n, i < at PROVE l[i].ivalue >= v
      <4> DEFINE m == at - 1
      <4>1. m \in 1..n /\ i <= m /\ m \in 1..(at - 1) /\ \A j \in m..(at - 1) : j = m
        BY <1>1, <3>1
      <4> HIDE DEF m
      <4>2. ~ (l[m].ivalue < v)
        BY <4>1, <1>13
      <4>3. l[m].ivalue \in Nat /\ l[i].ivalue \in Nat /\ l[i].ivalue >= l[m].ivalue
        BY <1>1, <1>8, <2>4, <4>1
      <4> QED BY <1>1, <4>2, <4>3
    <3>2. ASSUME NEW i \in 1..n, i > at PROVE v >= l[i].ivalue
      <4> DEFINE m == at + 1
      <4>1. m \in 1..n /\ m <= i /\ m \in (at + 1)..n /\ \A j \in (at + 1)..m : j = m
        BY <1>1, <3>2
      <4> HIDE DEF m
      <4>2. ~ (l[m].ivalue > v)
        BY <4>1, <1>13 DEF n
      <4>3. l[m].ivalue \in Nat /\ l[i].ivalue \in Nat /\ l[m].ivalue >= l[i].ivalue
        BY <1>1, <1>8, <2>4, <4>1
      <4> QED BY <1>1, <4>2, <4>3
    <3>3. ASSUME NEW i \in 1..n, NEW j \in 1..n, i < j PROVE w[i].ivalue >= w[j].ivalue
      <4>1. i <= j /\ i # j /\ (i = at => j > at) /\ (j = at => i < at)
        BY <1>1, <3>3
      <4>2. l[i].ivalue >= l[j].ivalue
        BY <1>8, <2>4, <4>1
      <4>3. CASE i = at
        BY <4>1, <4>3, <2>2, <3>2, <1>1
      <4>4. CASE j = at
        BY <4>1, <4>4, <2>2, <3>1, <1>1
      <4>5. CASE i # at /\ j # at
        BY <4>2, <4>5, <2>2
      <4> QED BY <4>3, <4>4, <4>5
    <3> QED BY <2>2, <3>3 DEF Sorted
  <2> QED BY <2>1, <2>3, <2>4 DEF r, k
<1> QED BY <1>11, <1>12, <1>13

\* The entry of a key, and a new one.
LEMMA AtIs ==
    ASSUME NEW l, GoodEntries(l), NEW k \in ListKeys(l)
    PROVE  At(l, k) \in 1..Len(l) /\ l[At(l, k)].key = k
<1>1. l \in Seq(ListEntries) /\ DOMAIN l = 1..Len(l) /\ \A i \in 1..Len(l) : l[i] \in ListEntries
  BY ListFacts DEF GoodEntries
<1>2. PICK i \in 1..Len(l) : k = l[i].key
  BY DEF ListKeys
<1>3. l[i].nr \in Nat
  BY <1>1 DEF ListEntries
<1>4. \A j \in 1..Len(l) : l[j].key = k => j = i
  BY <1>2 DEF GoodEntries
<1>5. i \in DOMAIN l /\ l[i].key = k /\ \A j \in DOMAIN l : l[j].key = k => l[j].nr <= l[i].nr
  BY <1>1, <1>2, <1>3, <1>4
<1>6. \E m \in DOMAIN l : l[m].key = k /\ \A j \in DOMAIN l : l[j].key = k => l[j].nr <= l[m].nr
  BY <1>5
<1>7. At(l, k) \in DOMAIN l /\ l[At(l, k)].key = k
  BY <1>6, Zenon DEF At
<1> QED BY <1>1, <1>7

\* The number of a new entry counts the entries of its key.
LEMMA EntryIs ==
    ASSUME NEW l \in Seq(ListEntries), NEW k \in Keys, NEW v \in Values
    PROVE  Entry(l, k, v) \in ListEntries /\ Entry(l, k, v).key = k /\ Entry(l, k, v).ivalue = v
<1> DEFINE D == 1..Len(l)
           S == {i \in DOMAIN l : l[i].key = k}
<1>1. Len(l) \in Nat /\ DOMAIN l = D
  BY ListFacts
<1>2. IsFiniteSet(D)
  <2> DEFINE a == 1
             n == Len(l)
  <2>1. a \in Int /\ n \in Int
    BY <1>1
  <2> HIDE DEF a, n
  <2>2. IsFiniteSet(a..n)
    BY <2>1, FS_Interval
  <2> QED BY <2>2 DEF a, n
<1>3. S \subseteq D
  BY <1>1
<1> HIDE DEF S, D
<1>4. IsFiniteSet(S)
  BY <1>2, <1>3, FS_Subset
<1>5. Cardinality(S) \in Nat
  BY <1>4, FS_CardinalityType
<1> QED BY <1>5 DEF Entry, ListEntries, S

\* A new entry comes before the first that is lower.
LEMMA InsertByValueIs ==
    ASSUME NEW l, GoodEntries(l), NEW e \in ListEntries, e.key \notin ListKeys(l)
    PROVE  LET r == dbInsertNodeByIValue(l, e)
           IN  Put(l, r, e.key, e.ivalue) /\ (Sorted(l) => Sorted(r))
<1> DEFINE n == Len(l)
           lower == {i \in DOMAIN l : l[i].ivalue < e.ivalue}
           c == CHOOSE i \in lower : \A j \in lower : i <= j
           p == IF lower = {} THEN n + 1 ELSE c
           r == dbInsertNodeByIValue(l, e)
<1>1. l \in Seq(ListEntries) /\ n \in Nat /\ DOMAIN l = 1..n /\ (\A i \in 1..n : l[i].ivalue \in Nat) /\ e.ivalue \in Nat
  <2>1. l \in Seq(ListEntries)
    BY DEF GoodEntries
  <2>2. e.ivalue \in Nat
    BY RankAssumption DEF ListEntries
  <2> QED BY <2>1, <2>2, ListFacts
<1>2. lower # {} => c \in lower /\ \A j \in lower : c <= j
  <2>1. lower \in SUBSET Nat
    BY <1>1
  <2> HIDE DEF lower
  <2>2. lower # {} => \E i \in lower : \A j \in lower : i <= j
    BY <2>1, FirstOfMany
  <2> QED BY <2>2, Zenon
<1>3. p \in 1..(n + 1)
  <2>1. lower # {} => c \in 1..n
    BY <1>1, <1>2
  <2> HIDE DEF lower, c
  <2> QED BY <1>1, <2>1
<1>4. r \in Seq(ListEntries) /\ Inserted(r, l, p, e)
  <2>1. CASE lower = {}
    <3>1. r = Append(l, e) /\ p = n + 1
      BY <2>1 DEF dbInsertNodeByIValue
    <3> HIDE DEF r, p, lower
    <3>2. r \in Seq(ListEntries) /\ Len(r) = n + 1 /\ (\A i \in 1..n : r[i] = l[i]) /\ r[n + 1] = e
      BY <1>1, <3>1, AppendProperties
    <3>3. \A i \in 1..n : ~ (i >= p)
      BY <1>1, <3>1
    <3> QED BY <3>1, <3>2, <3>3 DEF Inserted
  <2>2. CASE lower # {}
    <3>1. r = InsertAt(l, c, e) /\ p = c
      BY <2>2 DEF dbInsertNodeByIValue
    <3> HIDE DEF r, p, c, lower
    <3> QED BY <1>1, <1>3, <3>1, InsertAtIs
  <2> QED BY <2>1, <2>2
<1> HIDE DEF r
<1>5. \A i \in 1..n : i < p => l[i].ivalue >= e.ivalue
  <2> SUFFICES ASSUME NEW i \in 1..n, i < p PROVE l[i].ivalue >= e.ivalue
    OBVIOUS
  <2>1. i \notin lower
    <3>1. lower # {} => p = c /\ ~ (c <= i)
      <4>1. lower # {} => p = c
        OBVIOUS
      <4> HIDE DEF lower, c
      <4>2. i < p /\ i \in Nat /\ p \in Nat
        BY <1>1, <1>3
      <4> HIDE DEF p
      <4> QED BY <4>1, <4>2
    <3> HIDE DEF lower, c, p
    <3> QED BY <1>2, <3>1
  <2>2. ~ (l[i].ivalue < e.ivalue)
    BY <1>1, <2>1
  <2> QED BY <1>1, <2>2
<1>6. Sorted(l) => \A i \in 1..n : i >= p => l[i].ivalue <= e.ivalue
  <2> SUFFICES ASSUME Sorted(l), NEW i \in 1..n, i >= p PROVE l[i].ivalue <= e.ivalue
    OBVIOUS
  <2>1. p \in 1..n /\ p = c /\ c \in lower
    <3>1. (lower = {} => p = n + 1) /\ (lower # {} => p = c)
      OBVIOUS
    <3> HIDE DEF lower, c
    <3>2. i >= p /\ i \in 1..n /\ p \in 1..(n + 1)
      BY <1>3
    <3> HIDE DEF p
    <3>3. p \in 1..n /\ p # n + 1
      BY <1>1, <3>2
    <3> QED BY <1>2, <3>1, <3>3
  <2>2. l[p].ivalue < e.ivalue
    BY <2>1
  <2> HIDE DEF p, c, lower
  <2>3. p < i => l[p].ivalue >= l[i].ivalue
    BY <2>1 DEF Sorted
  <2>4. p = i \/ p < i
    BY <1>1, <2>1
  <2> QED BY <1>1, <2>1, <2>2, <2>3, <2>4
<1> HIDE DEF p, lower, c
<1>7. GoodEntries(r) /\ ListKeys(r) = ListKeys(l) \cup {e.key}
      /\ \A x : ValueOf(r, x) = IF x = e.key THEN e.ivalue ELSE ValueOf(l, x)
  <2> HIDE DEF n
  <2>1. p \in 1..(Len(l) + 1)
    BY <1>3 DEF n
  <2> QED BY <1>4, <2>1, InsertedGood
<1>8. Sorted(l) => Sorted(r)
  <2> SUFFICES ASSUME Sorted(l) PROVE Sorted(r)
    OBVIOUS
  <2> HIDE DEF n
  <2>1. p \in 1..(Len(l) + 1) /\ (\A i \in 1..Len(l) : i < p => l[i].ivalue >= e.ivalue)
        /\ (\A i \in 1..Len(l) : i >= p => l[i].ivalue <= e.ivalue)
    BY <1>3, <1>5, <1>6 DEF n
  <2> QED BY <1>1, <1>4, <2>1, InsertedSorted
<1> QED BY <1>7, <1>8 DEF Put, r

\* In a table of strings a new entry comes first.
LEMMA InsertFirstIs ==
    ASSUME NEW l, GoodEntries(l), NEW e \in ListEntries, e.key \notin ListKeys(l)
    PROVE  Put(l, <<e>> \o l, e.key, e.ivalue)
<1> DEFINE n == Len(l)
           b == <<e>>
           r == b \o l
           p == 1
<1>1. l \in Seq(ListEntries) /\ n \in Nat
  BY ListFacts DEF GoodEntries
<1>2. b \in Seq(ListEntries) /\ Len(b) = 1 /\ b[1] = e
  OBVIOUS
<1> HIDE DEF b
<1>3. r \in Seq(ListEntries) /\ Len(r) = Len(b) + n
      /\ \A i \in 1..(Len(b) + n) : r[i] = IF i <= Len(b) THEN b[i] ELSE l[i - Len(b)]
  BY <1>1, <1>2, ConcatProperties
<1> HIDE DEF r
<1>4. Len(r) = n + 1 /\ \A i \in 1..(n + 1) : r[i] = IF i <= 1 THEN b[i] ELSE l[i - 1]
  BY <1>1, <1>2, <1>3
<1>5. r[1] = e
  <2>1. 1 \in 1..(n + 1)
    BY <1>1
  <2> QED BY <2>1, <1>2, <1>4
<1>6. ASSUME NEW i \in 1..n PROVE ~ (i < p) /\ r[i + 1] = l[i]
  <2>1. i + 1 \in 1..(n + 1) /\ ~ (i + 1 <= 1) /\ (i + 1) - 1 = i
    BY <1>1
  <2> QED BY <2>1, <1>4
<1>7. Inserted(r, l, p, e) /\ p \in 1..(Len(l) + 1)
  BY <1>1, <1>4, <1>5, <1>6 DEF Inserted
<1> HIDE DEF p
<1>8. GoodEntries(r) /\ ListKeys(r) = ListKeys(l) \cup {e.key}
      /\ \A x : ValueOf(r, x) = IF x = e.key THEN e.ivalue ELSE ValueOf(l, x)
  BY <1>3, <1>7, InsertedGood
<1> QED BY <1>8 DEF Put, r, b

----------------------------------------------------------------------------
(* The hash table.  Each entry has a time at which it was put in (t); an    *)
(* entry leads to the latest of those that are older, the head to the       *)
(* latest of all.                                                           *)

Cells == 1..HashSize
HashCells == [use : BOOLEAN, key : Keys \cup {Nobody}, prev : 0..HashSize, next : 0..HashSize]
InUse(hash) == {i \in Cells : hash[i].use}
UsedKeys(hash) == {hash[i].key : i \in InUse(hash)}
HeadOf(hash, i) == dbHash[hash[i].key]

\* The entries that are behind i in its chain.
Behind(hash, t, i) == {j \in InUse(hash) : /\ j > Heads /\ HeadOf(hash, j) = HeadOf(hash, i)
                                           /\ i <= Heads \/ t[j] < t[i]}

Leads(hash, t, i) ==
    \/ hash[i].next = 0 /\ Behind(hash, t, i) = {}
    \/ /\ hash[i].next \in Behind(hash, t, i) /\ hash[hash[i].next].prev = i
       /\ \A j \in Behind(hash, t, i) : t[j] <= t[hash[i].next]

Linked(hash, t, c) ==
    /\ \A i \in InUse(hash) :
          /\ t[i] < c /\ hash[i].key \in Keys /\ Leads(hash, t, i)
          /\ i <= Heads => HeadOf(hash, i) = i /\ hash[i].prev = 0
          /\ i > Heads => /\ HeadOf(hash, i) \in InUse(hash) /\ hash[i].prev \in InUse(hash)
                          /\ hash[hash[i].prev].next = i
    /\ \A i, j \in InUse(hash) : /\ i > Heads /\ j > Heads /\ t[i] = t[j] => i = j
                                 /\ hash[i].key = hash[j].key => i = j

GoodHash(hash) == /\ hash \in [Cells -> HashCells]
                  /\ \E t \in [Cells -> Nat], c \in Nat : Linked(hash, t, c)

\* Sizes, and where keys belong.
LEMMA Sizes ==
    /\ HashSize \in Nat /\ Heads \in Nat /\ Heads # 0 /\ Heads <= HashSize /\ IsFiniteSet(Keys)
    /\ Cardinality(Keys) \in Nat /\ HashSize >= Heads + Cardinality(Keys)
    /\ \A k \in Keys : dbHash[k] \in 1..Heads /\ dbHash[k] \in Cells /\ dbHash[k] <= Heads
<1>1. Cardinality(Keys) \in Nat
  BY RankAssumption, FS_CardinalityType
<1>2. HashSize \in Nat /\ Heads \in Nat /\ Heads # 0 /\ HashSize >= Heads + Cardinality(Keys)
  BY RankAssumption
<1>3. Heads <= HashSize
  BY <1>1, <1>2
<1>4. \A k \in Keys : dbHash[k] \in 1..Heads
  BY RankAssumption
<1>5. \A k \in Keys : dbHash[k] \in Cells /\ dbHash[k] <= Heads
  BY <1>2, <1>3, <1>4 DEF Cells
<1> QED BY <1>1, <1>2, <1>3, <1>4, <1>5, RankAssumption

\* What is behind an entry is finite.
LEMMA BehindIsFinite ==
    ASSUME NEW hash, NEW t, NEW i
    PROVE  IsFiniteSet(Behind(hash, t, i)) /\ Cardinality(Behind(hash, t, i)) \in Nat
           /\ Cardinality(Behind(hash, t, i)) + 1 <= HashSize
<1> DEFINE a == Heads + 1
           B == Behind(hash, t, i)
<1>1. a \in Int /\ HashSize \in Int /\ HashSize \in Nat /\ Heads \in Nat /\ Heads # 0 /\ Heads <= HashSize
  BY Sizes
<1>2. B \subseteq a..HashSize
  BY <1>1 DEF Behind, InUse, Cells
<1>3. IsFiniteSet(a..HashSize) /\ Cardinality(a..HashSize) = IF a > HashSize THEN 0 ELSE HashSize - a + 1
  <2> HIDE DEF a
  <2> QED BY <1>1, FS_Interval
<1>4. IsFiniteSet(B) /\ Cardinality(B) <= Cardinality(a..HashSize)
  <2> HIDE DEF a, B
  <2> QED BY <1>2, <1>3, FS_Subset
<1>5. Cardinality(B) \in Nat
  <2> HIDE DEF B
  <2> QED BY <1>4, FS_CardinalityType
<1>6. Cardinality(a..HashSize) = HashSize - Heads
  BY <1>1, <1>3
<1> HIDE DEF B, a
<1> QED BY <1>1, <1>4, <1>5, <1>6 DEF B

\* What is known of the place r that a search for k has reached after n steps.
Search(hash, t, k, r, n) ==
    \/ r \in InUse(hash) /\ hash[r].key = k
    \/ r = 0 /\ k \notin UsedKeys(hash)
    \/ /\ r \in InUse(hash) /\ hash[r].key # k
       /\ \A j \in InUse(hash) : hash[j].key = k => j \in Behind(hash, t, r)
       /\ Cardinality(Behind(hash, t, r)) + n + 1 <= HashSize

\* A search begins with the head.
LEMMA SearchBegins ==
    ASSUME NEW hash \in [Cells -> HashCells], NEW t \in [Cells -> Nat], NEW c \in Nat, Linked(hash, t, c),
           NEW k \in Keys, dbHash[k] \in InUse(hash)
    PROVE  Search(hash, t, k, dbHash[k], 0)
<1> DEFINE h == dbHash[k]
<1>1. h \in InUse(hash) /\ h <= Heads /\ HeadOf(hash, h) = h
  BY Sizes DEF Linked
<1>2. ASSUME hash[h].key # k, NEW j \in InUse(hash), hash[j].key = k
      PROVE  j \in Behind(hash, t, h)
  <2>1. HeadOf(hash, j) = h
    BY <1>2 DEF HeadOf
  <2>2. j <= Heads => j = h
    BY <2>1 DEF Linked
  <2>3. j > Heads
    <3>1. j \in Nat /\ Heads \in Nat
      BY Sizes DEF InUse, Cells
    <3>2. ~ (j <= Heads)
      BY <1>2, <2>2
    <3> QED BY <3>1, <3>2
  <2> QED BY <1>1, <2>1, <2>3 DEF Behind
<1>3. Cardinality(Behind(hash, t, h)) + 0 + 1 <= HashSize
  <2> DEFINE m == Cardinality(Behind(hash, t, h))
  <2>1. m \in Nat /\ m + 1 <= HashSize
    BY BehindIsFinite
  <2> HIDE DEF m
  <2>2. m + 0 + 1 <= HashSize
    BY <2>1, Sizes
  <2> QED BY <2>2 DEF m
<1> HIDE DEF h
<1>4. Search(hash, t, k, h, 0)
  BY <1>1, <1>2, <1>3 DEF Search
<1> QED BY <1>4 DEF h

\* It goes on with the next.
LEMMA SearchGoesOn ==
    ASSUME NEW hash \in [Cells -> HashCells], NEW t \in [Cells -> Nat], NEW c \in Nat, Linked(hash, t, c),
           NEW k \in Keys, NEW r, NEW n \in Nat, Search(hash, t, k, r, n),
           NEW q, q = IF r = 0 \/ (hash[r].use /\ hash[r].key = k) THEN r ELSE hash[r].next
    PROVE  Search(hash, t, k, q, n + 1)
<1>1. CASE r \in InUse(hash) /\ hash[r].key = k
  <2>1. q = r
    BY <1>1 DEF InUse
  <2> QED BY <1>1, <2>1 DEF Search
<1>2. CASE r = 0 /\ k \notin UsedKeys(hash)
  BY <1>2 DEF Search
<1>3. CASE /\ r \in InUse(hash) /\ hash[r].key # k
           /\ \A j \in InUse(hash) : hash[j].key = k => j \in Behind(hash, t, r)
           /\ Cardinality(Behind(hash, t, r)) + n + 1 <= HashSize
  <2>1. r # 0 /\ q = hash[r].next
    BY <1>3 DEF InUse, Cells
  <2>2. Leads(hash, t, r)
    BY <1>3 DEF Linked
  <2>3. CASE q = 0 /\ Behind(hash, t, r) = {}
    <3>1. k \notin UsedKeys(hash)
      BY <1>3, <2>3 DEF UsedKeys
    <3> QED BY <2>3, <3>1 DEF Search
  <2>4. CASE q \in Behind(hash, t, r) /\ \A j \in Behind(hash, t, r) : t[j] <= t[q]
    <3>1. q \in InUse(hash) /\ q > Heads /\ HeadOf(hash, q) = HeadOf(hash, r) /\ (r <= Heads \/ t[q] < t[r])
      BY <2>4 DEF Behind
    <3>2. CASE hash[q].key = k
      BY <3>1, <3>2 DEF Search
    <3>3. CASE hash[q].key # k
      <4>1. ASSUME NEW j \in Behind(hash, t, r), j # q PROVE j \in Behind(hash, t, q)
        <5>1. j \in InUse(hash) /\ j > Heads /\ HeadOf(hash, j) = HeadOf(hash, r) /\ t[j] <= t[q]
          BY <2>4, <4>1 DEF Behind
        <5>2. t[j] # t[q]
          BY <3>1, <4>1, <5>1 DEF Linked
        <5>3. t[j] \in Nat /\ t[q] \in Nat
          BY <3>1, <5>1 DEF InUse
        <5>4. t[j] < t[q]
          BY <5>1, <5>2, <5>3
        <5> QED BY <3>1, <5>1, <5>4 DEF Behind
      <4>2. ASSUME NEW j \in InUse(hash), hash[j].key = k PROVE j \in Behind(hash, t, q)
        BY <1>3, <3>3, <4>1, <4>2
      <4> DEFINE B == Behind(hash, t, r)
                 D == Behind(hash, t, q)
      <4>3. D \subseteq B \ {q}
        <5> SUFFICES ASSUME NEW j \in D PROVE j \in B \ {q}
          OBVIOUS
        <5>1. j \in InUse(hash) /\ j > Heads /\ HeadOf(hash, j) = HeadOf(hash, q) /\ (q <= Heads \/ t[j] < t[q])
          BY DEF Behind
        <5>2. q \in Nat /\ j \in Nat /\ r \in Nat /\ Heads \in Nat /\ t[j] \in Nat /\ t[q] \in Nat /\ t[r] \in Nat
          BY <1>3, <3>1, <5>1, Sizes DEF InUse, Cells
        <5>3. t[j] < t[q] /\ j # q /\ (r <= Heads \/ t[j] < t[r])
          BY <3>1, <5>1, <5>2
        <5> QED BY <3>1, <5>1, <5>3 DEF Behind
      <4>4. IsFiniteSet(B) /\ Cardinality(B) \in Nat /\ Cardinality(D) \in Nat
        BY BehindIsFinite
      <4>5. q \in B
        BY <2>4
      <4> HIDE DEF B, D
      <4>6. IsFiniteSet(B \ {q}) /\ Cardinality(B \ {q}) = Cardinality(B) - 1
        BY <4>4, <4>5, FS_RemoveElement
      <4>7. Cardinality(D) <= Cardinality(B \ {q})
        BY <4>3, <4>6, FS_Subset
      <4>8. Cardinality(D) + (n + 1) + 1 <= HashSize
        <5>1. Cardinality(B) + n + 1 <= HashSize
          BY <1>3 DEF B
        <5> QED BY <5>1, <4>4, <4>6, <4>7, Sizes
      <4> QED BY <3>1, <3>3, <4>2, <4>8 DEF Search, D
    <3> QED BY <3>2, <3>3
  <2> QED BY <2>1, <2>2, <2>3, <2>4 DEF Leads
<1> QED BY <1>1, <1>2, <1>3 DEF Search

Iterates(g, a, F, N) == g = [n \in 0..N |-> IF n = 0 THEN a ELSE F[g[n - 1]]]

\* A step that is made again and again leads somewhere.
LEMMA IterExists ==
    ASSUME NEW S, NEW a \in S, NEW F \in [S -> S], NEW N \in Nat
    PROVE  \E g : Iterates(g, a, F, N)
<1> DEFINE Good(g, m) == g \in [0..m -> S] /\ g[0] = a /\ \A n \in 1..m : g[n] = F[g[n - 1]]
           T == {m \in Nat : ~ \E g : Good(g, m)}
<1>1. T = {}
  <2>1. SUFFICES ASSUME T # {} PROVE FALSE
    OBVIOUS
  <2>2. PICK m \in T : \A j \in T : m <= j
    <3>1. T \in SUBSET Nat
      OBVIOUS
    <3> HIDE DEF T
    <3> QED BY <2>1, <3>1, FirstOfMany
  <2>3. m \in Nat /\ ~ \E g : Good(g, m)
    BY <2>2
  <2>4. CASE m = 0
    <3> DEFINE g == [n \in 0..0 |-> a]
    <3>1. Good(g, 0)
      OBVIOUS
    <3> HIDE DEF Good, g
    <3> QED BY <2>3, <2>4, <3>1
  <2>5. CASE m # 0
    <3> DEFINE j == m - 1
    <3>1. j \in Nat /\ j + 1 = m /\ ~ (m <= j)
      BY <2>3, <2>5
    <3>2. j \notin T
      <4> HIDE DEF T, j
      <4> QED BY <2>2, <3>1
    <3> HIDE DEF j
    <3>3. PICK h : Good(h, j)
      BY <3>1, <3>2
    <3> DEFINE g == [n \in 0..m |-> IF n = m THEN F[h[j]] ELSE h[n]]
    <3>4. \A n \in 0..m : n # m => n \in 0..j
      BY <2>3, <3>1
    <3>5. j \in 0..j /\ h[j] \in S /\ \A n \in 0..j : h[n] \in S
      BY <3>1, <3>3
    <3>6. g \in [0..m -> S]
      BY <3>4, <3>5
    <3>7. g[0] = a
      <4>1. 0 \in 0..m /\ 0 # m
        BY <2>3, <2>5
      <4> QED BY <4>1, <3>3
    <3>8. ASSUME NEW n \in 1..m PROVE g[n] = F[g[n - 1]]
      <4>1. n \in 0..m /\ n - 1 \in 0..m /\ n - 1 # m
        BY <2>3
      <4>2. g[n - 1] = h[n - 1]
        BY <4>1
      <4>3. CASE n = m
        <5>1. n - 1 = j
          BY <4>3, <3>1
        <5> QED BY <4>1, <4>2, <4>3, <5>1
      <4>4. CASE n # m
        <5>1. n \in 1..j
          BY <3>1, <4>4
        <5>2. g[n] = h[n] /\ h[n] = F[h[n - 1]]
          BY <3>3, <4>1, <4>4, <5>1
        <5> QED BY <4>2, <5>2
      <4> QED BY <4>3, <4>4
    <3> HIDE DEF g
    <3>9. Good(g, m)
      BY <3>6, <3>7, <3>8
    <3> HIDE DEF Good
    <3> QED BY <2>3, <3>9
  <2> QED BY <2>4, <2>5
<1>2. PICK g : Good(g, N)
  <2> HIDE DEF Good
  <2> QED BY <1>1
<1>3. g = [n \in 0..N |-> IF n = 0 THEN a ELSE F[g[n - 1]]]
  <2>1. g \in [0..N -> S] /\ g[0] = a /\ \A n \in 1..N : g[n] = F[g[n - 1]]
    BY <1>2
  <2>2. \A n \in 0..N : n # 0 => n \in 1..N
    OBVIOUS
  <2>3. \A n \in 0..N : g[n] = IF n = 0 THEN a ELSE F[g[n - 1]]
    BY <2>1, <2>2
  <2> QED BY <2>1, <2>3
<1> QED BY <1>3 DEF Iterates

\* The search finds the entry of the key, if there is one.
LEMMA GetEntryIs ==
    ASSUME NEW hash, GoodHash(hash), NEW k \in Keys
    PROVE  \/ tableGetEntry(hash, k) = 0 /\ k \notin UsedKeys(hash)
           \/ tableGetEntry(hash, k) \in InUse(hash) /\ hash[tableGetEntry(hash, k)].key = k
<1> DEFINE h == dbHash[k]
           F == [i \in 0 .. HashSize |-> IF i = 0 \/ (hash[i].use /\ hash[i].key = k) THEN i ELSE hash[i].next]
           G(g) == [n \in 0 .. HashSize |-> IF n = 0 THEN h ELSE F[g[n - 1]]]
           C == CHOOSE g : g = G(g)
<1>1. PICK t \in [Cells -> Nat], c \in Nat : Linked(hash, t, c)
  BY DEF GoodHash
<1>2. hash \in [Cells -> HashCells] /\ h \in Cells /\ HashSize \in Nat
  BY Sizes DEF GoodHash
<1>3. tableGetEntry(hash, k) = IF hash[h].use THEN C[HashSize] ELSE 0
  BY DEF tableGetEntry
<1>4. CASE ~ hash[h].use
  <2>1. ASSUME NEW j \in InUse(hash), hash[j].key = k PROVE FALSE
    <3>1. HeadOf(hash, j) = h /\ j \in Nat /\ Heads \in Nat
      BY <2>1, Sizes DEF HeadOf, InUse, Cells
    <3>2. HeadOf(hash, j) \in InUse(hash)
      <4>1. CASE j <= Heads
        BY <1>1, <4>1 DEF Linked
      <4>2. CASE j > Heads
        BY <1>1, <4>2 DEF Linked
      <4> QED BY <3>1, <4>1, <4>2
    <3> QED BY <1>4, <3>1, <3>2 DEF InUse
  <2>2. k \notin UsedKeys(hash)
    BY <2>1 DEF UsedKeys
  <2> QED BY <1>3, <1>4, <2>2
<1>5. CASE hash[h].use
  <2> DEFINE S == 0..HashSize
  <2>1. F \in [S -> S] /\ h \in S
    <3>1. \A i \in S : i # 0 => hash[i].next \in S
      BY <1>2 DEF Cells, HashCells
    <3>2. h \in S
      BY <1>2 DEF Cells
    <3>3. \A i \in S : (IF i = 0 \/ (hash[i].use /\ hash[i].key = k) THEN i ELSE hash[i].next) \in S
      <4> HIDE DEF S
      <4> QED BY <3>1
    <3> QED BY <3>2, <3>3
  <2>2. \A i \in S : F[i] = IF i = 0 \/ (hash[i].use /\ hash[i].key = k) THEN i ELSE hash[i].next
    OBVIOUS
  <2>3. C = G(C)
    <3>1. PICK g : Iterates(g, h, F, HashSize)
      <4> HIDE DEF F, h, S
      <4> QED BY <1>2, <2>1, IterExists
    <3>2. \E u : u = G(u)
      <4> HIDE DEF F, h
      <4> QED BY <3>1 DEF Iterates
    <3> HIDE DEF G
    <3> QED BY <3>2, Zenon
  <2>4. \A n \in S : C[n] = IF n = 0 THEN h ELSE F[C[n - 1]]
    <3> HIDE DEF C, F, h
    <3> QED BY <2>3
  <2> HIDE DEF C, G, F
  <2> DEFINE T == {n \in S : ~ (C[n] \in S /\ Search(hash, t, k, C[n], n))}
  <2>5. T = {}
    <3>1. SUFFICES ASSUME T # {} PROVE FALSE
      OBVIOUS
    <3>2. PICK n \in T : \A j \in T : n <= j
      <4>1. T \in SUBSET Nat
        BY <1>2
      <4> HIDE DEF T
      <4> QED BY <3>1, <4>1, FirstOfMany
    <3>3. n \in S /\ n \in Nat /\ ~ (C[n] \in S /\ Search(hash, t, k, C[n], n))
      BY <1>2, <3>2
    <3>4. CASE n = 0
      <4>1. C[0] = h
        BY <2>4, <3>3, <3>4
      <4>2. h \in InUse(hash)
        BY <1>2, <1>5 DEF InUse
      <4>3. Search(hash, t, k, h, 0)
        BY <1>1, <1>2, <4>2, SearchBegins
      <4> QED BY <2>1, <3>3, <3>4, <4>1, <4>3
    <3>5. CASE n # 0
      <4> DEFINE m == n - 1
                 r == C[m]
                 q == C[n]
      <4>1. m \in S /\ m \in Nat /\ m + 1 = n /\ ~ (n <= m)
        BY <1>2, <3>3, <3>5
      <4>2. m \notin T
        <5> HIDE DEF T, m
        <5> QED BY <3>2, <4>1
      <4>3. r \in S /\ Search(hash, t, k, r, m)
        <5> HIDE DEF m
        <5> QED BY <4>1, <4>2
      <4>4. q = F[r]
        BY <2>4, <3>3, <3>5
      <4> HIDE DEF m, S
      <4> HIDE DEF r, q
      <4>5. q \in S /\ q = IF r = 0 \/ (hash[r].use /\ hash[r].key = k) THEN r ELSE hash[r].next
        BY <2>1, <2>2, <4>3, <4>4
      <4>6. Search(hash, t, k, q, m + 1)
        BY <1>1, <1>2, <4>1, <4>3, <4>5, SearchGoesOn
      <4> QED BY <3>3, <4>1, <4>5, <4>6 DEF q
    <3> QED BY <3>4, <3>5
  <2>6. Search(hash, t, k, C[HashSize], HashSize)
    <3>1. HashSize \in S
      BY <1>2
    <3> HIDE DEF S
    <3> QED BY <2>5, <3>1
  <2> DEFINE r == C[HashSize]
             B == Behind(hash, t, r)
  <2>7. ~ (Cardinality(B) + HashSize + 1 <= HashSize)
    <3>1. Cardinality(B) \in Nat
      BY BehindIsFinite
    <3> HIDE DEF B
    <3> QED BY <3>1, <1>2
  <2>8. \/ r = 0 /\ k \notin UsedKeys(hash)
        \/ r \in InUse(hash) /\ hash[r].key = k
    BY <2>6, <2>7 DEF Search
  <2> HIDE DEF h
  <2> QED BY <1>3, <1>5, <2>8
<1> QED BY <1>4, <1>5

----------------------------------------------------------------------------
(* A key that comes into the hash table. *)

NewKey(hash, r, k) == GoodHash(r) /\ UsedKeys(r) = UsedKeys(hash) \cup {k}

\* What the links of the entries say, one by one.
LEMMA LinkedAt ==
    ASSUME NEW hash \in [Cells -> HashCells], NEW t \in [Cells -> Nat], NEW c \in Nat, Linked(hash, t, c), NEW i \in InUse(hash)
    PROVE  /\ i \in Cells /\ i # 0 /\ i \in Nat /\ hash[i].use /\ t[i] \in Nat /\ t[i] < c
           /\ hash[i].key \in Keys /\ HeadOf(hash, i) \in Cells /\ HeadOf(hash, i) <= Heads /\ HeadOf(hash, i) \in InUse(hash)
           /\ Leads(hash, t, i)
           /\ i <= Heads => HeadOf(hash, i) = i /\ hash[i].prev = 0
           /\ i > Heads => hash[i].prev \in InUse(hash) /\ hash[hash[i].prev].next = i
           /\ \A j \in InUse(hash) : /\ i > Heads /\ j > Heads /\ t[i] = t[j] => i = j
                                     /\ hash[i].key = hash[j].key => i = j
<1>1. i \in Cells /\ i # 0 /\ i \in Nat /\ hash[i].use /\ t[i] \in Nat
  BY Sizes DEF InUse, Cells
<1>2. t[i] < c /\ hash[i].key \in Keys /\ Leads(hash, t, i) /\ (i <= Heads => HeadOf(hash, i) = i /\ hash[i].prev = 0)
      /\ (i > Heads => HeadOf(hash, i) \in InUse(hash) /\ hash[i].prev \in InUse(hash) /\ hash[hash[i].prev].next = i)
  BY DEF Linked
<1>3. HeadOf(hash, i) \in Cells /\ HeadOf(hash, i) <= Heads
  BY <1>2, Sizes DEF HeadOf
<1>4. HeadOf(hash, i) \in InUse(hash)
  <2>1. i <= Heads \/ i > Heads
    BY <1>1, Sizes
  <2> QED BY <1>2, <2>1
<1>5. \A j \in InUse(hash) : /\ i > Heads /\ j > Heads /\ t[i] = t[j] => i = j
                             /\ hash[i].key = hash[j].key => i = j
  BY DEF Linked
<1> QED BY <1>1, <1>2, <1>3, <1>4, <1>5

OneMore(hash, r, h, k) == /\ InUse(r) = InUse(hash) \cup {h} /\ r[h].key = k
                          /\ \A i \in InUse(hash) : r[i].key = hash[i].key

\* One more entry is one more key.
LEMMA OneMoreKey ==
    ASSUME NEW hash, NEW r, NEW h, NEW k, OneMore(hash, r, h, k)
    PROVE  UsedKeys(r) = UsedKeys(hash) \cup {k}
<1>0. /\ InUse(r) = InUse(hash) \cup {h} /\ r[h].key = k
      /\ \A i \in InUse(hash) : r[i].key = hash[i].key
  BY DEF OneMore
<1>1. \A x : x \in UsedKeys(r) <=> \E i \in InUse(r) : x = r[i].key
  BY DEF UsedKeys
<1>2. \A x : x \in UsedKeys(hash) <=> \E i \in InUse(hash) : x = hash[i].key
  BY DEF UsedKeys
<1>3. ASSUME NEW x \in UsedKeys(r) PROVE x \in UsedKeys(hash) \cup {k}
  BY <1>0, <1>1, <1>2
<1>4. ASSUME NEW x \in UsedKeys(hash) \cup {k} PROVE x \in UsedKeys(r)
  BY <1>0, <1>1, <1>2
<1> QED BY <1>3, <1>4

Takes(hash, r, h, k) == /\ r[h].use = TRUE /\ r[h].key = k /\ r[h].prev = 0 /\ r[h].next = 0
                        /\ \A i \in Cells : i # h => r[i] = hash[i]

\* The head of a key is free: it has nothing behind it.
LEMMA HeadTaken ==
    ASSUME NEW hash, GoodHash(hash), NEW k \in Keys, k \notin UsedKeys(hash), NEW h, h = dbHash[k], ~ hash[h].use,
           NEW r \in [Cells -> HashCells], Takes(hash, r, h, k)
    PROVE  NewKey(hash, r, k)
<1>1. PICK t \in [Cells -> Nat], c \in Nat : Linked(hash, t, c)
  BY DEF GoodHash
<1>2. hash \in [Cells -> HashCells] /\ h \in Cells /\ h \in Nat /\ h <= Heads /\ Heads \in Nat /\ HashSize \in Nat
  BY Sizes DEF GoodHash, Cells
<1>4. /\ r[h].use = TRUE /\ r[h].key = k /\ r[h].prev = 0 /\ r[h].next = 0
      /\ \A i \in Cells : i # h => r[i] = hash[i]
  BY DEF Takes
<1> DEFINE tt == [t EXCEPT ![h] = 0]
           cc == c + 1
<1>5. tt \in [Cells -> Nat] /\ cc \in Nat /\ tt[h] = 0 /\ (\A i \in Cells : i # h => tt[i] = t[i]) /\ 0 < cc
      /\ (\A x \in Nat : x < c => x < cc)
  BY <1>1, <1>2
<1> HIDE DEF tt, cc
<1>6. InUse(r) = InUse(hash) \cup {h} /\ h \notin InUse(hash)
  <2>1. h \notin InUse(hash)
    BY DEF InUse
  <2>2. \A i \in Cells : r[i].use <=> (hash[i].use \/ i = h)
    BY <1>4
  <2> QED BY <1>2, <2>1, <2>2 DEF InUse
<1>7. HeadOf(r, h) = h /\ \A i \in InUse(hash) : i # h /\ r[i] = hash[i] /\ tt[i] = t[i] /\ HeadOf(r, i) = HeadOf(hash, i) /\ HeadOf(r, i) # h
  <2>1. HeadOf(r, h) = h
    BY <1>4 DEF HeadOf
  <2>2. ASSUME NEW i \in InUse(hash) PROVE i # h /\ r[i] = hash[i] /\ tt[i] = t[i] /\ HeadOf(r, i) = HeadOf(hash, i) /\ HeadOf(r, i) # h
    <3>1. i \in Cells /\ i # h /\ r[i] = hash[i] /\ tt[i] = t[i]
      BY <1>4, <1>5, <1>6 DEF InUse
    <3>2. HeadOf(hash, i) \in InUse(hash)
      BY <1>1, <1>2, LinkedAt
    <3> QED BY <3>1, <3>2, <1>6 DEF HeadOf
  <2> QED BY <2>1, <2>2
<1>8. Behind(r, tt, h) = {}
  <2>1. ASSUME NEW j \in Behind(r, tt, h) PROVE FALSE
    <3>1. j \in InUse(r) /\ j > Heads /\ HeadOf(r, j) = HeadOf(r, h)
      BY DEF Behind
    <3>2. j # h
      BY <1>2, <3>1
    <3> QED BY <3>1, <3>2, <1>6, <1>7
  <2> QED BY <2>1
<1>9. ASSUME NEW i \in InUse(hash) PROVE Behind(r, tt, i) = Behind(hash, t, i)
  <2>1. \A j \in InUse(r) : j > Heads => j \in InUse(hash)
    BY <1>2, <1>6
  <2> QED BY <1>6, <1>7, <2>1 DEF Behind
<1>10. ASSUME NEW i \in InUse(r)
       PROVE  /\ tt[i] < cc /\ r[i].key \in Keys /\ Leads(r, tt, i)
              /\ i <= Heads => HeadOf(r, i) = i /\ r[i].prev = 0
              /\ i > Heads => /\ HeadOf(r, i) \in InUse(r) /\ r[i].prev \in InUse(r)
                              /\ r[r[i].prev].next = i
  <2>1. CASE i = h
    <3>1. Leads(r, tt, h)
      BY <1>4, <1>8 DEF Leads
    <3>2. ~ (h > Heads)
      BY <1>2
    <3> QED BY <2>1, <3>1, <3>2, <1>4, <1>5, <1>7
  <2>2. CASE i \in InUse(hash)
    <3>1. /\ t[i] \in Nat /\ t[i] < c /\ hash[i].key \in Keys /\ Leads(hash, t, i) /\ HeadOf(hash, i) \in InUse(hash)
          /\ i <= Heads => HeadOf(hash, i) = i /\ hash[i].prev = 0
          /\ i > Heads => hash[i].prev \in InUse(hash) /\ hash[hash[i].prev].next = i
      BY <1>1, <1>2, <2>2, LinkedAt
    <3>2. Leads(r, tt, i)
      <4>1. \A j \in Behind(hash, t, i) : j \in InUse(hash)
        BY DEF Behind
      <4>2. Behind(r, tt, i) = Behind(hash, t, i) /\ r[i] = hash[i]
        BY <2>2, <1>7, <1>9
      <4>3. \A j \in Behind(hash, t, i) : r[j] = hash[j] /\ tt[j] = t[j]
        BY <4>1, <1>7
      <4>4. CASE hash[i].next = 0 /\ Behind(hash, t, i) = {}
        BY <4>2, <4>4 DEF Leads
      <4>5. CASE /\ hash[i].next \in Behind(hash, t, i) /\ hash[hash[i].next].prev = i
                 /\ \A j \in Behind(hash, t, i) : t[j] <= t[hash[i].next]
        BY <4>2, <4>3, <4>5 DEF Leads
      <4> QED BY <3>1, <4>4, <4>5 DEF Leads
    <3>3. r[i] = hash[i] /\ tt[i] = t[i] /\ HeadOf(r, i) = HeadOf(hash, i) /\ \A j \in InUse(hash) : r[j] = hash[j] /\ j \in InUse(r)
      BY <2>2, <1>6, <1>7
    <3>4. tt[i] < cc
      BY <3>1, <3>3, <1>5
    <3> QED BY <3>1, <3>2, <3>3, <3>4
  <2> QED BY <1>6, <2>1, <2>2
<1>11. ASSUME NEW i \in InUse(r), NEW j \in InUse(r)
       PROVE  /\ i > Heads /\ j > Heads /\ tt[i] = tt[j] => i = j
              /\ r[i].key = r[j].key => i = j
  <2>1. \A x \in InUse(hash) : hash[x].key # k
    BY DEF UsedKeys
  <2>2. ASSUME NEW x \in InUse(hash), NEW y \in InUse(hash)
        PROVE  /\ x > Heads /\ y > Heads /\ t[x] = t[y] => x = y
               /\ hash[x].key = hash[y].key => x = y
    BY <1>1 DEF Linked
  <2>3. ~ (h > Heads)
    BY <1>2
  <2>4. CASE i \in InUse(hash) /\ j \in InUse(hash)
    BY <1>7, <2>2, <2>4
  <2>5. CASE i = h
    <3>1. j \in InUse(hash) => r[j].key # k
      BY <1>7, <2>1
    <3> QED BY <1>4, <1>6, <2>3, <2>5, <3>1
  <2>6. CASE j = h
    <3>1. i \in InUse(hash) => r[i].key # k
      BY <1>7, <2>1
    <3> QED BY <1>4, <1>6, <2>3, <2>6, <3>1
  <2> QED BY <1>6, <2>4, <2>5, <2>6
<1>12. Linked(r, tt, cc)
  BY <1>10, <1>11 DEF Linked
<1>13. UsedKeys(r) = UsedKeys(hash) \cup {k}
  <2>1. \A i \in InUse(hash) : r[i].key = hash[i].key
    BY <1>7
  <2>2. r[h].key = k
    BY <1>4
  <2>3. OneMore(hash, r, h, k)
    BY <1>6, <2>1, <2>2 DEF OneMore
  <2> QED BY <2>3, OneMoreKey
<1> QED BY <1>5, <1>12, <1>13 DEF NewKey, GoodHash

\* There is room behind the heads for a new key.
LEMMA RoomBehind ==
    ASSUME NEW hash, GoodHash(hash), NEW k \in Keys, k \notin UsedKeys(hash)
    PROVE  \E i \in Heads + 1 .. HashSize : ~ hash[i].use
<1> DEFINE a == Heads + 1
           A == a..HashSize
           f == [i \in A |-> hash[i].key]
           K == Keys \ {k}
<1>1. SUFFICES ASSUME \A i \in A : hash[i].use PROVE FALSE
  OBVIOUS
<1>2. PICK t \in [Cells -> Nat], c \in Nat : Linked(hash, t, c)
  BY DEF GoodHash
<1>3. hash \in [Cells -> HashCells]
  BY DEF GoodHash
<1>4. A \subseteq InUse(hash)
  <2>1. \A i \in A : i \in Cells
    BY Sizes DEF Cells
  <2> QED BY <1>1, <2>1 DEF InUse
<1>5. f \in Injection(A, K)
  <2>1. \A i \in A : hash[i].key \in K
    <3>1. ASSUME NEW i \in A PROVE hash[i].key \in K
      <4>1. i \in InUse(hash)
        BY <1>4
      <4>2. hash[i].key \in Keys
        BY <4>1, <1>2, <1>3, LinkedAt
      <4>3. hash[i].key # k
        BY <4>1 DEF UsedKeys
      <4> QED BY <4>2, <4>3
    <3> QED BY <3>1
  <2>2. \A i, j \in InUse(hash) : hash[i].key = hash[j].key => i = j
    BY <1>2 DEF Linked
  <2>3. \A i, j \in A : f[i] = f[j] => i = j
    BY <1>4, <2>2
  <2>4. f \in [A -> K]
    <3> HIDE DEF A, K
    <3> QED BY <2>1
  <2> HIDE DEF A, K, f
  <2> QED BY <2>3, <2>4 DEF Injection, IsInjective
<1>6. IsFiniteSet(K) /\ Cardinality(K) = Cardinality(Keys) - 1
  BY Sizes, FS_RemoveElement
<1>7. Cardinality(A) <= Cardinality(K)
  <2> HIDE DEF A, K, f
  <2> QED BY <1>5, <1>6, FS_Injection
<1>8. a \in Int /\ HashSize \in Int
  BY Sizes
<1>9. Cardinality(A) = IF a > HashSize THEN 0 ELSE HashSize - a + 1
  <2> HIDE DEF a
  <2> QED BY <1>8, FS_Interval
<1> HIDE DEF A
<1>10. Cardinality(A) >= Cardinality(Keys)
  BY <1>9, Sizes
<1> HIDE DEF K
<1>11. Cardinality(A) \in Int
  BY <1>9, Sizes
<1> QED BY <1>6, <1>7, <1>10, <1>11, Sizes
\* What an entry that is put behind a head changes.
Chained(hash, r, h, n, k) ==
    /\ r \in [Cells -> HashCells]
    /\ r[n].use = TRUE /\ r[n].key = k /\ r[n].prev = h /\ r[n].next = hash[h].next
    /\ r[h].use = hash[h].use /\ r[h].key = hash[h].key /\ r[h].prev = hash[h].prev /\ r[h].next = n
    /\ \A i \in Cells : i # n /\ i # h =>
          /\ r[i].use = hash[i].use /\ r[i].key = hash[i].key /\ r[i].next = hash[i].next
          /\ r[i].prev = IF i = hash[h].next THEN n ELSE hash[i].prev

\* The head of a key is taken: the entry comes between it and what was behind it.
LEMMA BehindHead ==
    ASSUME NEW hash, GoodHash(hash), NEW k \in Keys, k \notin UsedKeys(hash), NEW h, h = dbHash[k], hash[h].use,
           NEW n \in Cells, n > Heads, ~ hash[n].use, NEW r, Chained(hash, r, h, n, k)
    PROVE  NewKey(hash, r, k)
<1>1. PICK t \in [Cells -> Nat], c \in Nat : Linked(hash, t, c)
  BY DEF GoodHash
<1>2. hash \in [Cells -> HashCells] /\ h \in Cells /\ h \in Nat /\ h <= Heads /\ Heads \in Nat /\ HashSize \in Nat
      /\ h # n /\ n \in Nat /\ n # 0 /\ h # 0
  BY Sizes DEF GoodHash, Cells
<1>3. h \in InUse(hash) /\ n \notin InUse(hash)
  BY <1>2 DEF InUse
<1> DEFINE tt == [t EXCEPT ![n] = c]
           cc == c + 1
           q  == hash[h].next
<1>5. tt \in [Cells -> Nat] /\ cc \in Nat /\ tt[n] = c /\ (\A i \in Cells : i # n => tt[i] = t[i]) /\ c < cc
      /\ (\A x \in Nat : x < c => x < cc)
  BY <1>1
<1> HIDE DEF tt, cc
<1>6. /\ r \in [Cells -> HashCells]
      /\ r[n].use = TRUE /\ r[n].key = k /\ r[n].prev = h /\ r[n].next = q
      /\ r[h].use = hash[h].use /\ r[h].key = hash[h].key /\ r[h].prev = hash[h].prev /\ r[h].next = n
      /\ \A i \in Cells : i # n /\ i # h =>
            /\ r[i].use = hash[i].use /\ r[i].key = hash[i].key /\ r[i].next = hash[i].next
            /\ r[i].prev = IF i = q THEN n ELSE hash[i].prev
  BY DEF Chained
<1>7. Leads(hash, t, h) /\ q # n /\ (q # 0 => q \in Behind(hash, t, h) /\ hash[q].prev = h /\ \A j \in Behind(hash, t, h) : t[j] <= t[q])
      /\ (q = 0 => Behind(hash, t, h) = {})
  <2>1. Leads(hash, t, h)
    BY <1>1, <1>2, <1>3, LinkedAt
  <2>2. \A j \in Behind(hash, t, h) : j \in InUse(hash) /\ j # 0
    BY <1>1, <1>2, LinkedAt DEF Behind
  <2> QED BY <2>1, <2>2, <1>2, <1>3 DEF Leads
<1>8. \A i \in InUse(hash) : i \in Cells /\ i # n /\ i # 0 /\ i \in Nat /\ t[i] \in Nat /\ t[i] < c /\ tt[i] = t[i]
  BY <1>1, <1>2, <1>3, <1>5, LinkedAt
<1>9. \A i \in InUse(hash) : /\ r[i].use = hash[i].use /\ r[i].key = hash[i].key /\ HeadOf(r, i) = HeadOf(hash, i)
                             /\ i # h => r[i].next = hash[i].next /\ r[i].prev = IF i = q THEN n ELSE hash[i].prev
  BY <1>6, <1>8 DEF HeadOf
<1>10. InUse(r) = InUse(hash) \cup {n}
  <2>1. \A i \in Cells : i # n => (r[i].use <=> hash[i].use)
    BY <1>2, <1>6
  <2>2. r[n].use
    BY <1>6
  <2> QED BY <2>1, <2>2 DEF InUse
<1>11. HeadOf(r, n) = h /\ HeadOf(hash, h) = h
  <2>1. HeadOf(r, n) = h
    BY <1>6 DEF HeadOf
  <2>2. HeadOf(hash, h) = h
    BY <1>1, <1>2, <1>3, LinkedAt
  <2> QED BY <2>1, <2>2
<1>12. \A x \in InUse(hash) : hash[x].key # k
  BY DEF UsedKeys
<1> HIDE DEF q
\* What is behind whom.
<1>13. ASSUME NEW i \in InUse(hash), i # h PROVE Behind(r, tt, i) = Behind(hash, t, i)
  <2>1. ASSUME NEW j PROVE j \in Behind(r, tt, i) <=> j \in Behind(hash, t, i)
    <3>1. CASE j = n
      <4>1. j \notin Behind(hash, t, i)
        BY <1>3, <3>1 DEF Behind
      <4>2. ASSUME n \in Behind(r, tt, i) PROVE FALSE
        <5>1. HeadOf(r, n) = HeadOf(r, i) /\ (i <= Heads \/ tt[n] < tt[i])
          BY <4>2 DEF Behind
        <5>2. HeadOf(hash, i) = h
          BY <5>1, <1>9, <1>11
        <5>3. i <= Heads => i = h
          BY <1>1, <1>2, <5>2, LinkedAt
        <5>4. c < t[i]
          BY <5>1, <5>3, <1>5, <1>8, <1>13
        <5> QED BY <5>4, <1>1, <1>8
      <4> QED BY <3>1, <4>1, <4>2
    <3>2. CASE j # n
      BY <3>2, <1>8, <1>9, <1>10 DEF Behind
    <3> QED BY <3>1, <3>2
  <2> QED BY <2>1
<1>14. Behind(r, tt, h) = Behind(hash, t, h) \cup {n}
  <2>1. ASSUME NEW j PROVE j \in Behind(r, tt, h) <=> j \in Behind(hash, t, h) \cup {n}
    <3>1. CASE j = n
      <4>1. n \in Behind(r, tt, h)
        BY <1>2, <1>3, <1>9, <1>10, <1>11 DEF Behind
      <4> QED BY <3>1, <4>1
    <3>2. CASE j # n
      BY <3>2, <1>2, <1>3, <1>8, <1>9, <1>10 DEF Behind
    <3> QED BY <3>1, <3>2
  <2> QED BY <2>1
<1>15. Behind(r, tt, n) = Behind(hash, t, h)
  <2>1. ASSUME NEW j PROVE j \in Behind(r, tt, n) <=> j \in Behind(hash, t, h)
    <3>1. CASE j = n
      <4>1. n \notin Behind(r, tt, n)
        <5>1. ~ (n <= Heads) /\ ~ (tt[n] < tt[n])
          BY <1>2, <1>5
        <5> QED BY <5>1 DEF Behind
      <4>2. n \notin Behind(hash, t, h)
        BY <1>3 DEF Behind
      <4> QED BY <3>1, <4>1, <4>2
    <3>2. CASE j # n
      <4>1. ~ (n <= Heads) /\ h <= Heads /\ HeadOf(hash, h) = HeadOf(r, n)
        BY <1>2, <1>11
      <4>2. j \in InUse(hash) => tt[j] < tt[n]
        BY <1>5, <1>8
      <4> QED BY <3>2, <4>1, <4>2, <1>9, <1>10 DEF Behind
    <3> QED BY <3>1, <3>2
  <2> QED BY <2>1
\* Everybody leads to the latest.
<1>16. \A j \in Behind(hash, t, h) : j \in InUse(hash) /\ j > Heads /\ tt[j] = t[j] /\ t[j] <= c /\ t[j] \in Nat /\ j # h
  <2>1. \A j \in Behind(hash, t, h) : j \in InUse(hash) /\ j > Heads
    BY DEF Behind
  <2> QED BY <2>1, <1>1, <1>2, <1>8
<1>17. Leads(r, tt, h)
  <2>1. n \in Behind(r, tt, h) /\ r[n].prev = h
    BY <1>6, <1>14
  <2>2. ASSUME NEW j \in Behind(r, tt, h) PROVE tt[j] <= tt[n]
    <3>1. j = n \/ j \in Behind(hash, t, h)
      BY <1>14
    <3>2. c <= c
      BY <1>1
    <3> QED BY <3>1, <3>2, <1>5, <1>16
  <2> QED BY <2>1, <2>2, <1>6 DEF Leads
<1>18. Leads(r, tt, n)
  <2>1. CASE q = 0
    BY <2>1, <1>6, <1>7, <1>15 DEF Leads
  <2>2. CASE q # 0
    <3>1. q \in Behind(r, tt, n)
      BY <2>2, <1>7, <1>15
    <3>2. r[q].prev = n
      BY <2>2, <1>7, <1>9, <1>16
    <3>3. \A j \in Behind(r, tt, n) : tt[j] <= tt[q]
      BY <2>2, <1>7, <1>15, <1>16
    <3> QED BY <3>1, <3>2, <3>3, <1>6 DEF Leads
  <2> QED BY <2>1, <2>2
<1>19. ASSUME NEW i \in InUse(hash), i # h PROVE Leads(r, tt, i)
  <2>1. Leads(hash, t, i)
    BY <1>1, <1>2, LinkedAt
  <2>2. r[i].next = hash[i].next /\ Behind(r, tt, i) = Behind(hash, t, i)
    BY <1>9, <1>13, <1>19
  <2>3. CASE hash[i].next = 0 /\ Behind(hash, t, i) = {}
    BY <2>2, <2>3 DEF Leads
  <2>4. CASE /\ hash[i].next \in Behind(hash, t, i) /\ hash[hash[i].next].prev = i
             /\ \A j \in Behind(hash, t, i) : t[j] <= t[hash[i].next]
    <3> DEFINE s == hash[i].next
    <3>1. s \in InUse(hash) /\ s > Heads /\ s # h /\ \A j \in Behind(hash, t, i) : j \in InUse(hash)
      <4>1. s \in InUse(hash) /\ s > Heads /\ \A j \in Behind(hash, t, i) : j \in InUse(hash)
        BY <2>4 DEF Behind
      <4>2. s # h
        BY <4>1, <1>2, <1>8
      <4> QED BY <4>1, <4>2
    <3>2. s # q
      BY <2>4, <1>7, <1>8, <1>19, <3>1
    <3>3. r[s].prev = i
      BY <2>4, <3>1, <3>2, <1>9
    <3>4. \A j \in Behind(r, tt, i) : tt[j] <= tt[s]
      BY <2>2, <2>4, <3>1, <1>8
    <3> QED BY <2>2, <2>4, <3>3, <3>4 DEF Leads
  <2> QED BY <2>1, <2>3, <2>4 DEF Leads
\* The links back.
<1>20. ASSUME NEW i \in InUse(r)
       PROVE  /\ tt[i] < cc /\ r[i].key \in Keys /\ Leads(r, tt, i)
              /\ i <= Heads => HeadOf(r, i) = i /\ r[i].prev = 0
              /\ i > Heads => /\ HeadOf(r, i) \in InUse(r) /\ r[i].prev \in InUse(r)
                              /\ r[r[i].prev].next = i
  <2>1. CASE i = n
    <3>1. ~ (n <= Heads)
      BY <1>2
    <3> QED BY <2>1, <3>1, <1>3, <1>5, <1>6, <1>10, <1>11, <1>18
  <2>2. CASE i \in InUse(hash)
    <3>1. /\ t[i] \in Nat /\ t[i] < c /\ hash[i].key \in Keys /\ HeadOf(hash, i) \in InUse(hash)
          /\ i <= Heads => HeadOf(hash, i) = i /\ hash[i].prev = 0
          /\ i > Heads => hash[i].prev \in InUse(hash) /\ hash[hash[i].prev].next = i
      BY <1>1, <1>2, <2>2, LinkedAt
    <3>2. Leads(r, tt, i)
      BY <2>2, <1>17, <1>19
    <3>3. tt[i] < cc
      BY <2>2, <3>1, <1>5, <1>8
    <3>4. r[i].key \in Keys /\ HeadOf(r, i) = HeadOf(hash, i) /\ HeadOf(r, i) \in InUse(r)
      BY <2>2, <3>1, <1>9, <1>10
    <3>5. ASSUME i > Heads PROVE r[i].prev \in InUse(r) /\ r[r[i].prev].next = i
      <4>1. i # h
        BY <3>5, <1>2
      <4>2. CASE i = q
        BY <2>2, <4>1, <4>2, <1>6, <1>9, <1>10
      <4>3. CASE i # q
        <5> DEFINE p == hash[i].prev
        <5>1. r[i].prev = p /\ p \in InUse(hash) /\ hash[p].next = i
          BY <2>2, <4>1, <4>3, <3>1, <3>5, <1>9
        <5>2. p # h
          BY <4>3, <5>1 DEF q
        <5>3. r[p].next = i
          BY <5>1, <5>2, <1>9
        <5> QED BY <5>1, <5>3, <1>10
      <4> QED BY <4>2, <4>3
    <3>6. ASSUME i <= Heads PROVE r[i].prev = 0
      <4>1. i # q
        <5>1. q = 0 \/ (q \in Nat /\ q > Heads)
          BY <1>7, <1>8, <1>16
        <5> QED BY <2>2, <3>6, <5>1, <1>2, <1>8
      <4>2. r[i].prev = hash[i].prev
        BY <2>2, <4>1, <1>6, <1>9
      <4> QED BY <3>1, <3>6, <4>2
    <3> QED BY <3>1, <3>2, <3>3, <3>4, <3>5, <3>6
  <2> QED BY <1>10, <2>1, <2>2
<1>21. ASSUME NEW i \in InUse(r), NEW j \in InUse(r)
       PROVE  /\ i > Heads /\ j > Heads /\ tt[i] = tt[j] => i = j
              /\ r[i].key = r[j].key => i = j
  <2>1. ASSUME NEW x \in InUse(hash), NEW y \in InUse(hash)
        PROVE  /\ x > Heads /\ y > Heads /\ t[x] = t[y] => x = y
               /\ hash[x].key = hash[y].key => x = y
    BY <1>1 DEF Linked
  <2>2. \A x \in InUse(hash) : tt[x] # c /\ r[x].key # k
    BY <1>8, <1>9, <1>12
  <2>3. tt[n] = c /\ r[n].key = k
    BY <1>5, <1>6
  <2>4. CASE i \in InUse(hash) /\ j \in InUse(hash)
    BY <1>8, <1>9, <2>1, <2>4
  <2>5. CASE i = n
    BY <1>10, <2>2, <2>3, <2>5
  <2>6. CASE j = n
    BY <1>10, <2>2, <2>3, <2>6
  <2> QED BY <1>10, <2>4, <2>5, <2>6
<1>22. Linked(r, tt, cc)
  BY <1>20, <1>21 DEF Linked
<1>23. UsedKeys(r) = UsedKeys(hash) \cup {k}
  <2>1. OneMore(hash, r, n, k)
    BY <1>6, <1>9, <1>10 DEF OneMore
  <2> QED BY <2>1, OneMoreKey
<1> QED BY <1>5, <1>6, <1>22, <1>23 DEF NewKey, GoodHash

\* A key that is put into the table, in its head or behind it.
LEMMA InsertNodeIs ==
    ASSUME NEW hash, GoodHash(hash), NEW k \in Keys, k \notin UsedKeys(hash)
    PROVE  NewKey(hash, tableInsertNode(hash, k), k)
<1> DEFINE h == dbHash[k]
           r == tableInsertNode(hash, k)
           n == CHOOSE i \in Heads + 1 .. HashSize : ~ hash[i].use
           q == hash[h].next
           u == [use |-> TRUE, key |-> k, prev |-> 0, next |-> 0]
           f(i) == CASE i = n -> [use |-> TRUE, key |-> k, prev |-> h, next |-> q]
                     [] i = h -> [hash[h] EXCEPT !.next = n]
                     [] i = q /\ i # n -> [hash[i] EXCEPT !.prev = n]
                     [] OTHER -> hash[i]
<1>1. hash \in [Cells -> HashCells] /\ h \in Cells /\ h \in Nat /\ h <= Heads /\ Heads \in Nat /\ HashSize \in Nat /\ DOMAIN hash = Cells
  BY Sizes DEF GoodHash, Cells
<1>2. n \in Cells /\ n > Heads /\ ~ hash[n].use
  <2>1. \E i \in Heads + 1 .. HashSize : ~ hash[i].use
    BY RoomBehind
  <2>2. n \in Heads + 1 .. HashSize /\ ~ hash[n].use
    BY <2>1
  <2> HIDE DEF n
  <2> QED BY <1>1, <2>2 DEF Cells
<1>3. r = IF ~ hash[h].use THEN [hash EXCEPT ![h] = u] ELSE [i \in DOMAIN hash |-> f(i)]
  BY DEF tableInsertNode
<1> HIDE DEF n, r
<1>4. CASE ~ hash[h].use
  <2>1. r = [hash EXCEPT ![h] = u]
    BY <1>3, <1>4
  <2>2. u \in HashCells
    BY <1>1 DEF HashCells
  <2>3. r \in [Cells -> HashCells] /\ Takes(hash, r, h, k)
    BY <1>1, <2>1, <2>2 DEF Takes
  <2> HIDE DEF h
  <2>4. h = dbHash[k]
    BY DEF h
  <2> QED BY <1>4, <2>3, <2>4, HeadTaken DEF r
<1>5. CASE hash[h].use
  <2>1. r = [i \in DOMAIN hash |-> f(i)]
    BY <1>3, <1>5
  <2>2. \A i \in Cells : r[i] = f(i)
    BY <1>1, <2>1
  <2>3. h # n /\ q \in 0..HashSize /\ h \in 0..HashSize /\ n \in 0..HashSize
    BY <1>1, <1>2 DEF Cells, HashCells
  <2>18. q # h
    <3>1. PICK t \in [Cells -> Nat], c \in Nat : Linked(hash, t, c)
      BY DEF GoodHash
    <3>2. Leads(hash, t, h) /\ h # 0
      BY <1>1, <1>5, <3>1, LinkedAt DEF InUse
    <3>3. q = 0 \/ q > Heads
      BY <3>2 DEF Leads, Behind
    <3> QED BY <1>1, <3>2, <3>3
  <2> HIDE DEF h, q
  <2>14. r[n] = [use |-> TRUE, key |-> k, prev |-> h, next |-> q]
    <3>1. f(n) = [use |-> TRUE, key |-> k, prev |-> h, next |-> q]
      BY <2>3
    <3> HIDE DEF f
    <3> QED BY <1>2, <2>2, <3>1
  <2>15. r[h] = [hash[h] EXCEPT !.next = n]
    <3>1. f(h) = [hash[h] EXCEPT !.next = n]
      BY <2>3, <2>18
    <3> HIDE DEF f
    <3> QED BY <1>1, <2>2, <3>1
  <2>16. ASSUME NEW i \in Cells, i # n, i # h, i = q PROVE r[i] = [hash[i] EXCEPT !.prev = n]
    <3>1. f(i) = [hash[i] EXCEPT !.prev = n]
      BY <2>16
    <3> HIDE DEF f
    <3> QED BY <2>2, <3>1
  <2>17. ASSUME NEW i \in Cells, i # n, i # h, i # q PROVE r[i] = hash[i]
    <3>1. f(i) = hash[i]
      BY <2>17
    <3> HIDE DEF f
    <3> QED BY <2>2, <3>1
  <2> HIDE DEF f
  <2>5. \A i \in Cells : r[i] \in HashCells
    <3>1. \A i \in Cells : hash[i] \in HashCells /\ hash[i].use \in BOOLEAN /\ hash[i].key \in Keys \cup {Nobody}
                           /\ hash[i].prev \in 0..HashSize /\ hash[i].next \in 0..HashSize
      BY <1>1 DEF HashCells
    <3>2. r[n] \in HashCells
      BY <2>3, <2>14 DEF HashCells
    <3>3. r[h] \in HashCells
      BY <1>1, <2>3, <2>15, <3>1 DEF HashCells
    <3>4. ASSUME NEW i \in Cells, i # n, i # h PROVE r[i] \in HashCells
      <4>1. CASE i = q
        <5>1. r[i] = [hash[i] EXCEPT !.prev = n]
          BY <2>16, <3>4, <4>1
        <5> QED BY <2>3, <3>1, <5>1 DEF HashCells
      <4>2. CASE i # q
        BY <2>17, <3>1, <3>4, <4>2
      <4> QED BY <4>1, <4>2
    <3> QED BY <3>2, <3>3, <3>4
  <2>6. r \in [Cells -> HashCells]
    BY <1>1, <2>1, <2>5
  <2>7. r[n].use = TRUE /\ r[n].key = k /\ r[n].prev = h /\ r[n].next = q
    BY <2>14
  <2>8. r[h].use = hash[h].use /\ r[h].key = hash[h].key /\ r[h].prev = hash[h].prev /\ r[h].next = n
    <3>1. hash[h] \in HashCells
      BY <1>1
    <3> QED BY <2>15, <3>1 DEF HashCells
  <2>9. ASSUME NEW i \in Cells, i # n, i # h
        PROVE  /\ r[i].use = hash[i].use /\ r[i].key = hash[i].key /\ r[i].next = hash[i].next
               /\ r[i].prev = IF i = q THEN n ELSE hash[i].prev
    <3>1. hash[i] \in HashCells
      BY <1>1
    <3>2. CASE i = q
      <4>1. r[i] = [hash[i] EXCEPT !.prev = n]
        BY <2>16, <2>9, <3>2
      <4> QED BY <3>1, <3>2, <4>1 DEF HashCells
    <3>3. CASE i # q
      BY <2>17, <2>9, <3>3
    <3> QED BY <3>2, <3>3
  <2>10. Chained(hash, r, h, n, k)
    BY <2>6, <2>7, <2>8, <2>9 DEF Chained, q
  <2>11. h = dbHash[k]
    BY DEF h
  <2>12. NewKey(hash, r, k)
    BY <1>2, <1>5, <2>10, <2>11, BehindHead
  <2> QED BY <2>12 DEF r
<1> QED BY <1>4, <1>5
----------------------------------------------------------------------------
(* A key that leaves the hash table. *)

LessKey(hash, r, k) == GoodHash(r) /\ UsedKeys(r) = UsedKeys(hash) \ {k}

\* What the release of an entry changes.
ReleasedCell(hash, r, i) ==
    /\ r \in [Cells -> HashCells]
    /\ r[i].use = FALSE
    /\ \A j \in Cells : j # i =>
          /\ r[j].use = hash[j].use /\ r[j].key = hash[j].key
          /\ r[j].next = IF j = hash[i].prev THEN hash[i].next ELSE hash[j].next
          /\ r[j].prev = IF j = hash[i].next THEN hash[i].prev ELSE hash[j].prev

\* An entry, its neighbours, and what is behind them.
LEMMA Neighbours ==
    ASSUME NEW hash \in [Cells -> HashCells], NEW t \in [Cells -> Nat], NEW c \in Nat, Linked(hash, t, c),
           NEW i \in InUse(hash), i > Heads \/ hash[i].next = 0,
           NEW p, p = hash[i].prev, NEW q, q = hash[i].next
    PROVE  /\ p # i /\ q # i /\ (p = 0 \/ p # q)
           /\ q = 0 \/ (q \in Behind(hash, t, i) /\ q \in InUse(hash) /\ q > Heads /\ hash[q].prev = i)
           /\ p = 0 => i <= Heads /\ q = 0
           /\ p # 0 => i > Heads /\ p \in InUse(hash) /\ hash[p].next = i /\ Behind(hash, t, p) = Behind(hash, t, i) \cup {i}
           /\ \A j \in InUse(hash) : hash[j].next = i => j = p
           /\ \A j \in InUse(hash) : HeadOf(hash, j) = i => j = i
<1>1. /\ i \in Cells /\ i # 0 /\ i \in Nat /\ t[i] \in Nat /\ Leads(hash, t, i)
      /\ i <= Heads => HeadOf(hash, i) = i /\ p = 0
      /\ i > Heads => p \in InUse(hash) /\ hash[p].next = i
  BY LinkedAt
<1>2. Heads \in Nat
  BY Sizes
<1>3. \A j \in InUse(hash) : j \in Nat /\ j # 0 /\ t[j] \in Nat /\ Leads(hash, t, j) /\ (j <= Heads => HeadOf(hash, j) = j)
                             /\ HeadOf(hash, j) <= Heads
                             /\ \A x \in InUse(hash) : j > Heads /\ x > Heads /\ t[j] = t[x] => j = x
  BY LinkedAt
<1>4. \A j : Behind(hash, t, j) \subseteq InUse(hash)
  BY DEF Behind
<1>5. q = 0 \/ (q \in Behind(hash, t, i) /\ q \in InUse(hash) /\ q > Heads /\ hash[q].prev = i)
  BY <1>1, <1>4 DEF Leads, Behind
<1>6. q # i
  <2>1. i \notin Behind(hash, t, i)
    BY <1>1, <1>2 DEF Behind
  <2> QED BY <1>1, <1>5, <2>1
<1>7. \A j \in InUse(hash) : hash[j].next = i => j = p
  BY <1>1, <1>3 DEF Leads
<1>8. CASE i <= Heads
  <2>1. q = 0 /\ p = 0 /\ p # i
    BY <1>1, <1>2, <1>8
  <2>2. Behind(hash, t, i) = {} /\ HeadOf(hash, i) = i
    <3>1. 0 \notin Behind(hash, t, i)
      BY <1>3, <1>4
    <3> QED BY <1>1, <1>8, <2>1, <3>1 DEF Leads
  <2>3. ASSUME NEW j \in InUse(hash), HeadOf(hash, j) = i PROVE j = i
    <3>1. CASE j <= Heads
      BY <1>3, <2>3, <3>1
    <3>2. CASE j > Heads
      <4>1. j \in Behind(hash, t, i)
        BY <1>8, <2>2, <2>3, <3>2 DEF Behind
      <4> QED BY <2>2, <4>1
    <3> QED BY <1>2, <1>3, <3>1, <3>2
  <2> QED BY <1>5, <1>6, <1>7, <1>8, <2>1, <2>3
<1>9. CASE i > Heads
  <2>1. p \in InUse(hash) /\ hash[p].next = i /\ p # 0
    BY <1>1, <1>3, <1>9
  <2>2. i \in Behind(hash, t, p) /\ \A j \in Behind(hash, t, p) : t[j] <= t[i]
    <3>1. \A j : Leads(hash, t, j) /\ hash[j].next # 0 =>
                   hash[j].next \in Behind(hash, t, j) /\ \A x \in Behind(hash, t, j) : t[x] <= t[hash[j].next]
      BY DEF Leads
    <3>2. Leads(hash, t, p) /\ hash[p].next # 0
      BY <1>1, <1>3, <2>1
    <3>3. hash[p].next \in Behind(hash, t, p) /\ \A x \in Behind(hash, t, p) : t[x] <= t[hash[p].next]
      BY <3>1, <3>2
    <3> QED BY <2>1, <3>3
  <2>3. HeadOf(hash, i) = HeadOf(hash, p) /\ (p <= Heads \/ t[i] < t[p])
    BY <2>2 DEF Behind
  <2>4. p # i
    BY <1>1, <1>2, <1>9, <2>3
  <2>5. p # q
    <3>1. ASSUME p = q PROVE FALSE
      <4>1. q \in Behind(hash, t, i) /\ q > Heads
        BY <1>5, <2>1, <3>1
      <4>2. t[q] < t[i]
        BY <1>1, <1>2, <1>9, <4>1 DEF Behind
      <4>3. t[p] \in Nat /\ p \in Nat
        BY <1>3, <2>1
      <4> QED BY <1>1, <1>2, <2>3, <3>1, <4>1, <4>2, <4>3
    <3> QED BY <3>1
  <2>6. ASSUME NEW j PROVE j \in Behind(hash, t, p) <=> j \in Behind(hash, t, i) \cup {i}
    <3>1. CASE j = i
      BY <2>2, <3>1
    <3>2. CASE j # i /\ j \in InUse(hash) /\ j > Heads
      <4>1. j \in Nat /\ t[j] \in Nat /\ t[i] \in Nat /\ t[j] # t[i] /\ t[p] \in Nat
        BY <1>1, <1>3, <1>9, <2>1, <3>2
      <4>2. ASSUME j \in Behind(hash, t, p) PROVE j \in Behind(hash, t, i)
        <5>1. t[j] < t[i]
          BY <2>2, <4>1, <4>2
        <5>2. HeadOf(hash, j) = HeadOf(hash, i)
          BY <2>3, <4>2 DEF Behind
        <5> QED BY <3>2, <5>1, <5>2 DEF Behind
      <4>3. ASSUME j \in Behind(hash, t, i) PROVE j \in Behind(hash, t, p)
        <5>1. HeadOf(hash, j) = HeadOf(hash, p) /\ (i <= Heads \/ t[j] < t[i])
          BY <2>3, <4>3 DEF Behind
        <5>2. p <= Heads \/ t[j] < t[p]
          BY <1>1, <1>2, <1>9, <2>3, <4>1, <5>1
        <5> QED BY <3>2, <5>1, <5>2 DEF Behind
      <4> QED BY <3>2, <4>2, <4>3
    <3>3. CASE j # i /\ ~ (j \in InUse(hash) /\ j > Heads)
      BY <3>3 DEF Behind
    <3> QED BY <3>1, <3>2, <3>3
  <2>7. \A j \in InUse(hash) : HeadOf(hash, j) = i => j = i
    BY <1>1, <1>2, <1>3, <1>9
  <2>8. Behind(hash, t, p) = Behind(hash, t, i) \cup {i}
    BY <2>6
  <2> HIDE <2>6
  <2> QED BY <1>5, <1>6, <1>7, <1>9, <2>1, <2>4, <2>5, <2>7, <2>8
<1> QED BY <1>1, <1>2, <1>8, <1>9

\* One entry less is one key less.
LEMMA OneLessKey ==
    ASSUME NEW hash, NEW r, NEW i \in InUse(hash), InUse(r) = InUse(hash) \ {i},
           \A j \in InUse(r) : r[j].key = hash[j].key, \A j \in InUse(hash) : hash[j].key = hash[i].key => j = i
    PROVE  UsedKeys(r) = UsedKeys(hash) \ {hash[i].key}
<1>1. \A x : x \in UsedKeys(r) <=> \E j \in InUse(r) : x = r[j].key
  BY DEF UsedKeys
<1>2. \A x : x \in UsedKeys(hash) <=> \E j \in InUse(hash) : x = hash[j].key
  BY DEF UsedKeys
<1>3. ASSUME NEW x \in UsedKeys(r) PROVE x \in UsedKeys(hash) \ {hash[i].key}
  BY <1>1, <1>2
<1>4. ASSUME NEW x \in UsedKeys(hash) \ {hash[i].key} PROVE x \in UsedKeys(r)
  <2>1. PICK j \in InUse(hash) : x = hash[j].key
    BY <1>2
  <2>2. j \in InUse(r) /\ x = r[j].key
    BY <2>1
  <2> QED BY <1>1, <2>2
<1> QED BY <1>3, <1>4

\* The entry before it leads to the one behind it.
LEMMA ReleasedGood ==
    ASSUME NEW hash, GoodHash(hash), NEW i \in InUse(hash), i > Heads \/ hash[i].next = 0, NEW r, ReleasedCell(hash, r, i)
    PROVE  LessKey(hash, r, hash[i].key)
<1> DEFINE p == hash[i].prev
           q == hash[i].next
           k == hash[i].key
<1>1. PICK t \in [Cells -> Nat], c \in Nat : Linked(hash, t, c)
  BY DEF GoodHash
<1>2. hash \in [Cells -> HashCells] /\ i \in Cells /\ i \in Nat /\ Heads \in Nat /\ hash[i].use
  BY Sizes DEF GoodHash, Cells, InUse
<1>3. /\ p # i /\ q # i /\ (p = 0 \/ p # q)
      /\ q = 0 \/ (q \in Behind(hash, t, i) /\ q \in InUse(hash) /\ q > Heads /\ hash[q].prev = i)
      /\ p = 0 => i <= Heads /\ q = 0
      /\ p # 0 => i > Heads /\ p \in InUse(hash) /\ hash[p].next = i /\ Behind(hash, t, p) = Behind(hash, t, i) \cup {i}
      /\ \A j \in InUse(hash) : hash[j].next = i => j = p
      /\ \A j \in InUse(hash) : HeadOf(hash, j) = i => j = i
  BY <1>1, <1>2, Neighbours
<1>4. /\ r \in [Cells -> HashCells] /\ r[i].use = FALSE
      /\ \A j \in Cells : j # i =>
            /\ r[j].use = hash[j].use /\ r[j].key = hash[j].key
            /\ r[j].next = IF j = p THEN q ELSE hash[j].next
            /\ r[j].prev = IF j = q THEN p ELSE hash[j].prev
  BY DEF ReleasedCell
<1>5. InUse(r) = InUse(hash) \ {i}
  <2>1. \A j \in Cells : r[j].use <=> (hash[j].use /\ j # i)
    BY <1>4
  <2> QED BY <2>1 DEF InUse
<1>6. ASSUME NEW j \in InUse(r)
      PROVE  /\ j \in InUse(hash) /\ j # i /\ j # 0 /\ j \in Nat /\ r[j].key = hash[j].key /\ HeadOf(r, j) = HeadOf(hash, j)
             /\ r[j].next = IF j = p THEN q ELSE hash[j].next
             /\ r[j].prev = IF j = q THEN p ELSE hash[j].prev
             /\ t[j] < c /\ hash[j].key \in Keys /\ HeadOf(hash, j) \in InUse(hash)
             /\ j <= Heads => HeadOf(hash, j) = j /\ hash[j].prev = 0
             /\ j > Heads => hash[j].prev \in InUse(hash) /\ hash[hash[j].prev].next = j
             /\ Leads(hash, t, j)
  <2>1. j \in InUse(hash) /\ j # i /\ j \in Cells
    BY <1>5 DEF InUse
  <2>2. r[j].key = hash[j].key /\ HeadOf(r, j) = HeadOf(hash, j)
    BY <1>4, <2>1 DEF HeadOf
  <2>3. /\ j # 0 /\ j \in Nat /\ t[j] < c /\ hash[j].key \in Keys /\ HeadOf(hash, j) \in InUse(hash)
        /\ j <= Heads => HeadOf(hash, j) = j /\ hash[j].prev = 0
        /\ j > Heads => hash[j].prev \in InUse(hash) /\ hash[hash[j].prev].next = j
        /\ Leads(hash, t, j)
    BY <1>1, <1>2, <2>1, LinkedAt
  <2> HIDE DEF p, q
  <2> QED BY <1>4, <2>1, <2>2, <2>3
<1> HIDE DEF p, q
<1>7. ASSUME NEW j \in InUse(r) PROVE Behind(r, t, j) = Behind(hash, t, j) \ {i}
  <2>1. ASSUME NEW x PROVE x \in Behind(r, t, j) <=> x \in Behind(hash, t, j) \ {i}
    <3>1. CASE x \in InUse(r)
      <4>1. x \in InUse(hash) /\ x # i /\ HeadOf(r, x) = HeadOf(hash, x) /\ HeadOf(r, j) = HeadOf(hash, j)
        BY <3>1, <1>6
      <4> QED BY <3>1, <4>1 DEF Behind
    <3>2. CASE x \notin InUse(r)
      BY <3>2, <1>5 DEF Behind
    <3> QED BY <3>1, <3>2
  <2> QED BY <2>1
<1>8. ASSUME NEW j \in InUse(r) PROVE Leads(r, t, j)
  <2>1. CASE j = p
    <3>1. Behind(r, t, j) = Behind(hash, t, i) /\ r[j].next = q
      <4>1. j # 0 /\ r[j].next = q
        BY <2>1, <1>6
      <4>2. Behind(hash, t, j) = Behind(hash, t, i) \cup {i}
        BY <2>1, <4>1, <1>3
      <4>3. i \notin Behind(hash, t, i)
        BY <1>1, <1>2 DEF Behind
      <4> QED BY <4>1, <4>2, <4>3, <1>7
    <3>2. Leads(hash, t, i)
      BY <1>1, <1>2, LinkedAt
    <3>3. CASE q = 0
      <4>1. 0 \notin Behind(hash, t, i)
        <5>1. 0 \notin InUse(hash)
          BY <1>1, <1>2, LinkedAt
        <5> QED BY <5>1 DEF Behind
      <4>2. Behind(hash, t, i) = {}
        BY <3>2, <3>3, <4>1 DEF Leads, q
      <4> QED BY <3>1, <3>3, <4>2 DEF Leads
    <3>4. CASE q # 0
      <4>1. q \in Behind(hash, t, i) /\ \A x \in Behind(hash, t, i) : t[x] <= t[q]
        BY <3>2, <3>4 DEF Leads, q
      <4>2. q \in InUse(r)
        BY <3>4, <1>3, <1>5
      <4>3. r[q].prev = j
        BY <2>1, <4>2, <1>6
      <4> QED BY <3>1, <4>1, <4>3 DEF Leads
    <3> QED BY <3>3, <3>4
  <2>2. CASE j # p
    <3> DEFINE s == hash[j].next
    <3>1. Leads(hash, t, j) /\ r[j].next = s /\ j \in InUse(hash) /\ s # i
      BY <2>2, <1>3, <1>6
    <3>2. CASE s = 0 /\ Behind(hash, t, j) = {}
      <4>1. Behind(r, t, j) = {}
        BY <3>2, <1>7
      <4> QED BY <3>1, <3>2, <4>1 DEF Leads
    <3>3. CASE s \in Behind(hash, t, j) /\ hash[s].prev = j /\ \A x \in Behind(hash, t, j) : t[x] <= t[s]
      <4>1. s \in Behind(r, t, j) /\ \A x \in Behind(r, t, j) : t[x] <= t[s]
        BY <3>1, <3>3, <1>7
      <4>2. s \in InUse(r)
        BY <4>1 DEF Behind
      <4>3. s # q
        <5>1. j # i /\ s # 0
          BY <4>2, <1>6
        <5> QED BY <3>3, <5>1, <1>3
      <4>4. r[s].prev = j
        BY <3>3, <4>2, <4>3, <1>6
      <4> QED BY <3>1, <4>1, <4>4 DEF Leads
    <3> QED BY <3>1, <3>2, <3>3 DEF Leads
  <2> QED BY <2>1, <2>2
<1>9. ASSUME NEW j \in InUse(r)
      PROVE  /\ t[j] < c /\ r[j].key \in Keys /\ Leads(r, t, j)
             /\ j <= Heads => HeadOf(r, j) = j /\ r[j].prev = 0
             /\ j > Heads => /\ HeadOf(r, j) \in InUse(r) /\ r[j].prev \in InUse(r)
                             /\ r[r[j].prev].next = j
  <2>1. t[j] < c /\ r[j].key \in Keys /\ Leads(r, t, j) /\ HeadOf(r, j) = HeadOf(hash, j)
    BY <1>6, <1>8
  <2>2. ASSUME j <= Heads PROVE HeadOf(r, j) = j /\ r[j].prev = 0
    <3>1. j # q
      <4>1. q = 0 \/ (q \in Nat /\ q > Heads)
        <5>1. \A x \in InUse(hash) : x \in Nat
          BY <1>1, <1>2, LinkedAt
        <5> QED BY <5>1, <1>3
      <4>2. j \in Nat /\ j # 0
        BY <1>6
      <4> QED BY <2>2, <4>1, <4>2, <1>2
    <3> QED BY <2>2, <3>1, <1>6
  <2>3. ASSUME j > Heads PROVE HeadOf(r, j) \in InUse(r) /\ r[j].prev \in InUse(r) /\ r[r[j].prev].next = j
    <3>1. HeadOf(r, j) \in InUse(r)
      <4>1. HeadOf(hash, j) \in InUse(hash) /\ HeadOf(hash, j) # i /\ HeadOf(r, j) = HeadOf(hash, j)
        BY <1>3, <1>6
      <4> QED BY <4>1, <1>5
    <3>2. CASE j = q
      <4>1. q # 0 /\ p # 0
        BY <3>2, <1>3, <1>6
      <4>2. p \in InUse(r) /\ r[j].prev = p
        BY <3>2, <4>1, <1>3, <1>5, <1>6
      <4>3. r[p].next = q
        BY <4>2, <1>6
      <4> QED BY <3>1, <3>2, <4>2, <4>3
    <3>3. CASE j # q
      <4> DEFINE x == hash[j].prev
      <4>1. r[j].prev = x /\ x \in InUse(hash) /\ hash[x].next = j /\ j # i
        BY <2>3, <3>3, <1>6
      <4>2. x # i
        BY <3>3, <4>1 DEF q
      <4>3. x # p
        <5>1. j # 0 /\ x # 0
          <6>1. \A y \in InUse(hash) : y # 0
            BY <1>1, <1>2, LinkedAt
          <6> QED BY <4>1, <6>1, <1>6
        <5> QED BY <4>1, <5>1, <1>3
      <4>4. x \in InUse(r)
        BY <4>1, <4>2, <1>5
      <4>5. r[x].next = j
        BY <4>1, <4>3, <4>4, <1>6
      <4> QED BY <3>1, <4>1, <4>4, <4>5
    <3> QED BY <3>2, <3>3
  <2> QED BY <2>1, <2>2, <2>3
<1>10. \A x, y \in InUse(r) : /\ x > Heads /\ y > Heads /\ t[x] = t[y] => x = y
                              /\ r[x].key = r[y].key => x = y
  <2>1. \A x, y \in InUse(hash) : /\ x > Heads /\ y > Heads /\ t[x] = t[y] => x = y
                                  /\ hash[x].key = hash[y].key => x = y
    BY <1>1 DEF Linked
  <2> QED BY <2>1, <1>6
<1>11. Linked(r, t, c)
  BY <1>9, <1>10 DEF Linked
<1>12. UsedKeys(r) = UsedKeys(hash) \ {k}
  <2>1. \A j \in InUse(hash) : hash[j].key = hash[i].key => j = i
    BY <1>1 DEF Linked
  <2>2. \A j \in InUse(r) : r[j].key = hash[j].key
    BY <1>6
  <2> QED BY <1>5, <2>1, <2>2, OneLessKey
<1> QED BY <1>1, <1>4, <1>11, <1>12 DEF LessKey, GoodHash

\* tableReleaseNode of an entry that has nothing behind it, or is no head.
LEMMA ReleaseNodeIs ==
    ASSUME NEW hash, GoodHash(hash), NEW i \in InUse(hash), i > Heads \/ hash[i].next = 0
    PROVE  LessKey(hash, tableReleaseNode(hash, i), hash[i].key)
<1> DEFINE p == hash[i].prev
           q == hash[i].next
           r == tableReleaseNode(hash, i)
           f(j) == CASE j = i -> [hash[i] EXCEPT !.use = FALSE, !.key = Nobody]
                     [] j = p /\ j # i -> [hash[j] EXCEPT !.next = q]
                     [] j = q /\ j # i -> [hash[j] EXCEPT !.prev = p]
                     [] OTHER -> hash[j]
<1>1. hash \in [Cells -> HashCells] /\ i \in Cells /\ DOMAIN hash = Cells
  BY DEF GoodHash, InUse
<1>2. p # i /\ q # i /\ (p = 0 \/ p # q)
  <2>1. PICK t \in [Cells -> Nat], c \in Nat : Linked(hash, t, c)
    BY DEF GoodHash
  <2> QED BY <1>1, <2>1, Neighbours
<1>3. p \in 0..HashSize /\ q \in 0..HashSize /\ 0 \notin Cells
  BY <1>1, Sizes DEF HashCells, Cells
<1>4. r = [j \in DOMAIN hash |-> f(j)]
  BY DEF tableReleaseNode
<1>5. \A j \in Cells : r[j] = f(j)
  BY <1>1, <1>4
<1> HIDE DEF r, p, q
<1>6. r[i] = [hash[i] EXCEPT !.use = FALSE, !.key = Nobody]
  <2>1. f(i) = [hash[i] EXCEPT !.use = FALSE, !.key = Nobody]
    BY <1>2
  <2> HIDE DEF f
  <2> QED BY <1>1, <1>5, <2>1
<1>7. ASSUME NEW j \in Cells, j # i, j = p PROVE r[j] = [hash[j] EXCEPT !.next = q] /\ j # q
  <2>1. j # q
    BY <1>2, <1>3, <1>7
  <2>2. f(j) = [hash[j] EXCEPT !.next = q]
    BY <1>7, <2>1
  <2> HIDE DEF f
  <2> QED BY <1>5, <2>1, <2>2
<1>8. ASSUME NEW j \in Cells, j # i, j = q PROVE r[j] = [hash[j] EXCEPT !.prev = p] /\ j # p
  <2>1. j # p
    BY <1>2, <1>3, <1>8
  <2>2. f(j) = [hash[j] EXCEPT !.prev = p]
    BY <1>8, <2>1
  <2> HIDE DEF f
  <2> QED BY <1>5, <2>1, <2>2
<1>9. ASSUME NEW j \in Cells, j # i, j # p, j # q PROVE r[j] = hash[j]
  <2>1. f(j) = hash[j]
    BY <1>9
  <2> HIDE DEF f
  <2> QED BY <1>5, <2>1
<1>10. r[i] \in HashCells /\ r[i].use = FALSE
  <2>1. hash[i] \in HashCells
    BY <1>1
  <2>2. r[i].use = FALSE
    BY <1>6, <2>1 DEF HashCells
  <2>3. r[i] \in HashCells
    BY <1>6, <2>1 DEF HashCells
  <2> QED BY <2>2, <2>3
<1> HIDE DEF f
<1>11. ASSUME NEW j \in Cells, j # i
       PROVE  /\ r[j] \in HashCells /\ r[j].use = hash[j].use /\ r[j].key = hash[j].key
              /\ r[j].next = IF j = p THEN q ELSE hash[j].next
              /\ r[j].prev = IF j = q THEN p ELSE hash[j].prev
  <2>1. hash[j] \in HashCells
    BY <1>1
  <2>2. CASE j = p
    <3>1. r[j] = [hash[j] EXCEPT !.next = q] /\ j # q
      BY <1>7, <1>11, <2>2
    <3>2. r[j] \in HashCells
      BY <1>3, <2>1, <3>1 DEF HashCells
    <3>3. r[j].use = hash[j].use /\ r[j].key = hash[j].key /\ r[j].next = q /\ r[j].prev = hash[j].prev
      BY <2>1, <3>1 DEF HashCells
    <3> QED BY <2>2, <3>1, <3>2, <3>3
  <2>3. CASE j = q
    <3>1. r[j] = [hash[j] EXCEPT !.prev = p] /\ j # p
      BY <1>8, <1>11, <2>3
    <3>2. r[j] \in HashCells
      BY <1>3, <2>1, <3>1 DEF HashCells
    <3>3. r[j].use = hash[j].use /\ r[j].key = hash[j].key /\ r[j].next = hash[j].next /\ r[j].prev = p
      BY <2>1, <3>1 DEF HashCells
    <3> QED BY <2>3, <3>1, <3>2, <3>3
  <2>4. CASE j # p /\ j # q
    BY <1>9, <1>11, <2>1, <2>4
  <2> QED BY <2>2, <2>3, <2>4
<1>12. r \in [Cells -> HashCells]
  BY <1>1, <1>4, <1>10, <1>11
<1>13. ReleasedCell(hash, r, i)
  BY <1>10, <1>11, <1>12 DEF ReleasedCell, p, q
<1>14. LessKey(hash, r, hash[i].key)
  BY <1>13, ReleasedGood
<1> QED BY <1>14 DEF r
----------------------------------------------------------------------------
(* A table: the hash table holds the keys of the list. *)

Types == {"DB_INT_SORTED", "DB_STRING"}
GoodTable(t) == /\ GoodEntries(t.list) /\ GoodHash(t.hash) /\ UsedKeys(t.hash) = ListKeys(t.list)
                /\ type = "DB_INT_SORTED" => Sorted(t.list)
Tables == {t \in [list : Seq(ListEntries), hash : [Cells -> HashCells]] : GoodTable(t)}

\* Whoever is given a good list and a good hash table has a table.
LEMMA TableFrom ==
    ASSUME NEW l, NEW h, GoodEntries(l), GoodHash(h), UsedKeys(h) = ListKeys(l), type = "DB_INT_SORTED" => Sorted(l),
           NEW t, t = [list |-> l, hash |-> h]
    PROVE  t \in Tables /\ t.list = l /\ t.hash = h
<1>1. t.list = l /\ t.hash = h
  OBVIOUS
<1>2. l \in Seq(ListEntries) /\ h \in [Cells -> HashCells]
  BY DEF GoodEntries, GoodHash
<1>3. t \in [list : Seq(ListEntries), hash : [Cells -> HashCells]]
  BY <1>2
<1>4. GoodTable(t)
  BY <1>1 DEF GoodTable
<1> QED BY <1>1, <1>3, <1>4 DEF Tables

\* What a table is.
LEMMA TableIs ==
    ASSUME NEW t \in Tables
    PROVE  /\ GoodEntries(t.list) /\ GoodHash(t.hash) /\ UsedKeys(t.hash) = ListKeys(t.list)
           /\ type = "DB_INT_SORTED" => Sorted(t.list)
           /\ t = [list |-> t.list, hash |-> t.hash]
<1>1. t \in [list : Seq(ListEntries), hash : [Cells -> HashCells]] /\ GoodTable(t)
  BY DEF Tables
<1>2. t = [list |-> t.list, hash |-> t.hash]
  BY <1>1
<1> QED BY <1>1, <1>2 DEF GoodTable

\* In a list of other keys nothing of k is found.
LEMMA FoundOrNot ==
    ASSUME NEW t \in Tables, NEW k \in Keys
    PROVE  /\ tableGetEntry(t.hash, k) = 0 => k \notin ListKeys(t.list)
           /\ tableGetEntry(t.hash, k) # 0 => /\ k \in ListKeys(t.list) /\ tableGetEntry(t.hash, k) \in InUse(t.hash)
                                              /\ t.hash[tableGetEntry(t.hash, k)].key = k
<1> DEFINE i == tableGetEntry(t.hash, k)
           h == t.hash
<1>1. GoodHash(h) /\ UsedKeys(h) = ListKeys(t.list)
  BY TableIs
<1>2. \/ i = 0 /\ k \notin UsedKeys(h)
      \/ i \in InUse(h) /\ h[i].key = k
  BY <1>1, GetEntryIs
<1>3. i \in InUse(h) => i # 0
  <2>1. 0 \notin Cells
    BY Sizes DEF Cells
  <2> HIDE DEF i, h
  <2> QED BY <2>1 DEF InUse
<1>4. i \in InUse(h) /\ h[i].key = k => k \in UsedKeys(h)
  <2> HIDE DEF i, h
  <2> QED BY DEF UsedKeys
<1> HIDE DEF i, h
<1>5. /\ i = 0 => k \notin ListKeys(t.list)
      /\ i # 0 => k \in ListKeys(t.list) /\ i \in InUse(h) /\ h[i].key = k
  BY <1>1, <1>2, <1>3, <1>4
<1> QED BY <1>5 DEF i, h

Updates(t, u, k, v) == u \in Tables /\ Put(t.list, u.list, k, v)

\* A new key.
LEMMA NewIs ==
    ASSUME NEW t \in Tables, NEW k \in Keys, k \notin ListKeys(t.list), NEW v, NEW l, Put(t.list, l, k, v),
           type = "DB_INT_SORTED" => Sorted(l), NEW u, u = [list |-> l, hash |-> tableInsertNode(t.hash, k)]
    PROVE  Updates(t, u, k, v)
<1> DEFINE h == tableInsertNode(t.hash, k)
<1>1. GoodHash(t.hash) /\ UsedKeys(t.hash) = ListKeys(t.list)
  BY TableIs
<1>2. NewKey(t.hash, h, k)
  BY <1>1, InsertNodeIs
<1>3. GoodHash(h) /\ UsedKeys(h) = ListKeys(t.list) \cup {k}
  BY <1>1, <1>2 DEF NewKey
<1>4. GoodEntries(l) /\ ListKeys(l) = ListKeys(t.list) \cup {k}
  BY DEF Put
<1> HIDE DEF h
<1>5. u = [list |-> l, hash |-> h]
  BY DEF h
<1>6. UsedKeys(h) = ListKeys(l)
  BY <1>3, <1>4
<1>7. u \in Tables /\ u.list = l
  BY <1>3, <1>4, <1>5, <1>6, TableFrom
<1> QED BY <1>7 DEF Updates

\* A key that is there.
LEMMA OldIs ==
    ASSUME NEW t \in Tables, NEW k \in ListKeys(t.list), NEW v, NEW l, Put(t.list, l, k, v),
           type = "DB_INT_SORTED" => Sorted(l), NEW u, u = [list |-> l, hash |-> t.hash]
    PROVE  Updates(t, u, k, v)
<1> DEFINE h == t.hash
<1>1. GoodHash(h) /\ UsedKeys(h) = ListKeys(t.list)
  BY TableIs
<1>2. GoodEntries(l) /\ ListKeys(l) = ListKeys(t.list)
  BY DEF Put
<1>3. u = [list |-> l, hash |-> h] /\ UsedKeys(h) = ListKeys(l)
  BY <1>1, <1>2
<1> HIDE DEF h
<1>4. u \in Tables /\ u.list = l
  BY <1>1, <1>2, <1>3, TableFrom
<1> QED BY <1>4 DEF Updates

\* An update changes the value of one key and nothing else.
LEMMA UpdatedIs ==
    ASSUME NEW t \in Tables, NEW k \in Keys, NEW v \in Values, type \in Types
    PROVE  Updates(t, Updated(t, k, v), k, v)
<1> DEFINE l  == t.list
           e  == Entry(l, k, v)
           at == At(l, k)
           u  == Updated(t, k, v)
<1>1. GoodEntries(l) /\ l \in Seq(ListEntries) /\ (type = "DB_INT_SORTED" => Sorted(l)) /\ t = [list |-> l, hash |-> t.hash]
  BY TableIs DEF GoodEntries
<1>2. e \in ListEntries /\ e.key = k /\ e.ivalue = v
  BY <1>1, EntryIs
<1>3. k \in ListKeys(l) => at \in 1..Len(l) /\ l[at].key = k
  BY <1>1, AtIs
<1>4. CASE tableGetEntry(t.hash, k) = 0
  <2>1. k \notin ListKeys(l)
    BY <1>4, FoundOrNot
  <2>2. CASE type = "DB_INT_SORTED"
    <3> DEFINE r == dbInsertNodeByIValue(l, e)
    <3>1. u = [list |-> r, hash |-> tableInsertNode(t.hash, k)]
      BY <1>4, <2>2 DEF Updated, UpdatedInt
    <3>2. Put(l, r, k, v) /\ Sorted(r)
      <4>1. e.key \notin ListKeys(l)
        BY <1>2, <2>1
      <4> HIDE DEF e, l
      <4>2. Put(l, r, e.key, e.ivalue) /\ (Sorted(l) => Sorted(r))
        BY <1>1, <1>2, <4>1, InsertByValueIs
      <4> QED BY <1>1, <1>2, <2>2, <4>2
    <3> HIDE DEF r, u
    <3> QED BY <2>1, <3>1, <3>2, NewIs DEF u
  <2>3. CASE type # "DB_INT_SORTED"
    <3> DEFINE r == <<e>> \o l
    <3>1. u = [list |-> r, hash |-> tableInsertNode(t.hash, k)]
      BY <1>4, <2>3 DEF Updated, UpdatedString
    <3>2. Put(l, r, k, v)
      <4>1. e.key \notin ListKeys(l)
        BY <1>2, <2>1
      <4> HIDE DEF e, l
      <4>2. Put(l, r, e.key, e.ivalue)
        BY <1>1, <1>2, <4>1, InsertFirstIs
      <4> QED BY <1>2, <4>2
    <3> HIDE DEF r, u
    <3> QED BY <2>1, <2>3, <3>1, <3>2, NewIs DEF u
  <2> QED BY <2>2, <2>3
<1>5. CASE tableGetEntry(t.hash, k) # 0
  <2>1. k \in ListKeys(l) /\ at \in 1..Len(l) /\ l[at].key = k
    BY <1>3, <1>5, FoundOrNot
  <2>2. CASE type = "DB_INT_SORTED"
    <3> DEFINE r == Moved(l, at, v)
    <3>1. u = [t EXCEPT !.list = r]
      BY <1>5, <2>2 DEF Updated, UpdatedInt
    <3>2. Put(l, r, k, v) /\ Sorted(r)
      <4> HIDE DEF l, at
      <4>1. Put(l, r, l[at].key, v) /\ (Sorted(l) => Sorted(r))
        BY <1>1, <2>1, MovedIs
      <4> QED BY <1>1, <2>1, <2>2, <4>1
    <3> HIDE DEF r
    <3>3. u = [list |-> r, hash |-> t.hash]
      BY <1>1, <3>1
    <3> HIDE DEF u
    <3> QED BY <2>1, <3>2, <3>3, OldIs DEF u
  <2>3. CASE type # "DB_INT_SORTED"
    <3> DEFINE r == [l EXCEPT ![at].ivalue = v]
               f == r[at]
    <3>1. u = [t EXCEPT !.list = r]
      BY <1>1, <1>5, <2>3 DEF Updated, UpdatedString
    <3>2. Put(l, r, k, v)
      <4> HIDE DEF l, at
      <4>1. DOMAIN l = 1..Len(l) /\ Len(l) \in Nat /\ \A i \in 1..Len(l) : l[i] \in ListEntries
        BY <1>1, ListFacts
      <4>2. f = [l[at] EXCEPT !.ivalue = v]
        BY <2>1, <4>1
      <4>3. l[at] \in ListEntries
        BY <2>1, <4>1
      <4>4. f.key = k /\ f.ivalue = v /\ f \in ListEntries
        BY <2>1, <4>2, <4>3 DEF ListEntries
      <4>5. \A i \in 1..Len(l) : r[i] = IF i = at THEN f ELSE l[i]
        BY <4>1
      <4>6. DOMAIN r = 1..Len(l)
        BY <4>1
      <4> HIDE DEF f
      <4>7. \A i \in 1..Len(l) : r[i] \in ListEntries
        BY <4>1, <4>4, <4>5
      <4>8. r = [i \in 1..Len(l) |-> r[i]]
        BY <4>1, <4>6
      <4> HIDE DEF r
      <4>9. r \in Seq(ListEntries) /\ Len(r) = Len(l)
        BY <4>1, <4>7, <4>8, IsASeq
      <4>10. Replaced(r, l, at, f)
        BY <4>5, <4>9 DEF Replaced
      <4>11. f.key = l[at].key
        BY <2>1, <4>4
      <4>12. Put(l, r, f.key, f.ivalue)
        BY <1>1, <2>1, <4>10, <4>11, ReplacedGood
      <4> QED BY <4>4, <4>12
    <3> HIDE DEF r
    <3>3. u = [list |-> r, hash |-> t.hash]
      BY <1>1, <3>1
    <3> HIDE DEF u
    <3> QED BY <2>1, <2>3, <3>2, <3>3, OldIs DEF u
  <2> QED BY <2>2, <2>3
<1> QED BY <1>4, <1>5
----------------------------------------------------------------------------
(* What dbRead makes of the lines of a file. *)

Numbered(g, a, F, N) == g = [n \in 0..N |-> IF n = 0 THEN a ELSE F[<<g[n - 1], n>>]]

\* Steps that depend on their number lead somewhere as well.
LEMMA NumberedExists ==
    ASSUME NEW S, NEW a \in S, NEW N \in Nat, NEW F \in [S \X (1..N) -> S]
    PROVE  \E g \in [0..N -> S] : Numbered(g, a, F, N)
<1> DEFINE Good(g, m) == g \in [0..m -> S] /\ g[0] = a /\ \A n \in 1..m : g[n] = F[<<g[n - 1], n>>]
           T == {m \in 0..N : ~ \E g : Good(g, m)}
<1>1. T = {}
  <2>1. SUFFICES ASSUME T # {} PROVE FALSE
    OBVIOUS
  <2>2. PICK m \in T : \A j \in T : m <= j
    <3>1. T \in SUBSET Nat
      OBVIOUS
    <3> HIDE DEF T
    <3> QED BY <2>1, <3>1, FirstOfMany
  <2>3. m \in 0..N /\ m \in Nat /\ ~ \E g : Good(g, m)
    BY <2>2
  <2>4. CASE m = 0
    <3> DEFINE g == [n \in 0..0 |-> a]
    <3>1. Good(g, 0)
      OBVIOUS
    <3> HIDE DEF Good, g
    <3> QED BY <2>3, <2>4, <3>1
  <2>5. CASE m # 0
    <3> DEFINE j == m - 1
    <3>1. j \in 0..N /\ j \in Nat /\ j + 1 = m /\ ~ (m <= j)
      BY <2>3, <2>5
    <3>2. j \notin T
      <4> HIDE DEF T, j
      <4> QED BY <2>2, <3>1
    <3> HIDE DEF j
    <3>3. PICK h : Good(h, j)
      BY <3>1, <3>2
    <3> DEFINE w == F[<<h[j], m>>]
               g == [n \in 0..m |-> IF n = m THEN w ELSE h[n]]
    <3>4. \A n \in 0..m : n # m => n \in 0..j
      BY <2>3, <3>1
    <3>5. j \in 0..j /\ h[j] \in S /\ \A n \in 0..j : h[n] \in S
      BY <3>1, <3>3
    <3>10. w \in S
      <4>1. m \in 1..N
        BY <2>3, <2>5
      <4>2. <<h[j], m>> \in S \X (1..N)
        BY <3>5, <4>1
      <4> QED BY <4>2
    <3> HIDE DEF w
    <3>6. g \in [0..m -> S]
      BY <3>4, <3>5, <3>10
    <3>7. g[0] = a
      <4>1. 0 \in 0..m /\ 0 # m
        BY <2>3, <2>5
      <4> QED BY <4>1, <3>3
    <3>8. ASSUME NEW n \in 1..m PROVE g[n] = F[<<g[n - 1], n>>]
      <4>1. n \in 0..m /\ n - 1 \in 0..m /\ n - 1 # m
        BY <2>3
      <4>2. g[n - 1] = h[n - 1]
        BY <4>1
      <4>3. CASE n = m
        <5>1. n - 1 = j
          BY <4>3, <3>1
        <5>2. g[n] = w
          BY <4>1, <4>3
        <5> QED BY <4>2, <4>3, <5>1, <5>2 DEF w
      <4>4. CASE n # m
        <5>1. n \in 1..j
          BY <3>1, <4>4
        <5>2. g[n] = h[n] /\ h[n] = F[<<h[n - 1], n>>]
          BY <3>3, <4>1, <4>4, <5>1
        <5> QED BY <4>2, <5>2
      <4> QED BY <4>3, <4>4
    <3> HIDE DEF g
    <3>9. Good(g, m)
      BY <3>6, <3>7, <3>8
    <3> HIDE DEF Good
    <3> QED BY <2>3, <3>9
  <2> QED BY <2>4, <2>5
<1>2. PICK g : Good(g, N)
  <2>1. N \in 0..N
    OBVIOUS
  <2> HIDE DEF Good
  <2> QED BY <1>1, <2>1
<1>3. g = [n \in 0..N |-> IF n = 0 THEN a ELSE F[<<g[n - 1], n>>]]
  <2>1. g \in [0..N -> S] /\ g[0] = a /\ \A n \in 1..N : g[n] = F[<<g[n - 1], n>>]
    BY <1>2
  <2>2. \A n \in 0..N : n # 0 => n \in 1..N
    OBVIOUS
  <2>3. \A n \in 0..N : g[n] = IF n = 0 THEN a ELSE F[<<g[n - 1], n>>]
    BY <2>1, <2>2
  <2> QED BY <2>1, <2>3
<1>4. g \in [0..N -> S]
  BY <1>2
<1> QED BY <1>3, <1>4 DEF Numbered

\* What a list knows when the first n lines have been entered.
Entered(l, lines, n) ==
    /\ ListKeys(l) = {lines[i].key : i \in 1..n}
    /\ \A i \in 1..n : ValueOf(l, lines[i].key) = lines[i].ivalue
    /\ \A x : (\A i \in 1..n : lines[i].key # x) => ValueOf(l, x) = Nobody

\* An empty table.
LEMMA NoTableIs ==
    ASSUME NEW t, t = [list |-> <<>>, hash |-> NoTable]
    PROVE  t \in Tables /\ t.list = <<>> /\ \A lines : Entered(t.list, lines, 0)
<1>1. NoTable \in [Cells -> HashCells] /\ \A i \in Cells : NoTable[i].use = FALSE
  <2>1. Blank \in HashCells /\ Blank.use = FALSE
    BY Sizes DEF Blank, HashCells
  <2> QED BY <2>1 DEF NoTable, Cells
<1> DEFINE h == NoTable
           l == <<>>
<1>2. InUse(h) = {} /\ h \in [Cells -> HashCells]
  BY <1>1 DEF InUse
<1> HIDE DEF h
<1>3. UsedKeys(h) = {}
  BY <1>2 DEF UsedKeys
<1>4. GoodHash(h)
  <2> DEFINE tt == [i \in Cells |-> 0]
  <2>1. tt \in [Cells -> Nat] /\ 0 \in Nat
    OBVIOUS
  <2>2. Linked(h, tt, 0)
    BY <1>2 DEF Linked
  <2> HIDE DEF tt
  <2> QED BY <1>2, <2>1, <2>2 DEF GoodHash
<1>5. l \in Seq(ListEntries) /\ Len(l) = 0 /\ 1..Len(l) = {}
  OBVIOUS
<1>6. GoodEntries(l) /\ ListKeys(l) = {} /\ Sorted(l)
  BY <1>5 DEF GoodEntries, ListKeys, Sorted
<1>7. t = [list |-> l, hash |-> h]
  BY DEF h
<1>8. \A x : ValueOf(l, x) = Nobody
  <2> HIDE DEF l
  <2> QED BY <1>6, ValueIs
<1>9. \A lines : Entered(l, lines, 0)
  <2>1. 1..0 = {}
    OBVIOUS
  <2> HIDE DEF l
  <2> QED BY <1>6, <1>8, <2>1 DEF Entered
<1> HIDE DEF l
<1>10. t \in Tables /\ t.list = l
  BY <1>3, <1>4, <1>6, <1>7, TableFrom
<1> QED BY <1>9, <1>10 DEF l

\* One more line.
LEMMA OneMoreLine ==
    ASSUME NEW lines, GoodEntries(lines), NEW n \in 1..Len(lines), NEW l, Entered(l, lines, n - 1),
           NEW r, Put(l, r, lines[n].key, lines[n].ivalue)
    PROVE  Entered(r, lines, n)
<1> DEFINE m == n - 1
<1>1. Len(lines) \in Nat /\ (\A i, j \in 1..Len(lines) : lines[i].key = lines[j].key => i = j)
  BY ListFacts DEF GoodEntries
<1>2. 1..n \subseteq 1..Len(lines) /\ 1..m \subseteq 1..n /\ n \in 1..n /\ \A i \in 1..n : i # n => i \in 1..m
  BY <1>1
<1>3. \A i \in 1..m : i # n
  BY <1>1
<1>4. /\ ListKeys(l) = {lines[i].key : i \in 1..m}
      /\ \A i \in 1..m : ValueOf(l, lines[i].key) = lines[i].ivalue
      /\ \A x : (\A i \in 1..m : lines[i].key # x) => ValueOf(l, x) = Nobody
  BY DEF Entered
<1>5. /\ ListKeys(r) = ListKeys(l) \cup {lines[n].key}
      /\ \A x : ValueOf(r, x) = IF x = lines[n].key THEN lines[n].ivalue ELSE ValueOf(l, x)
  BY DEF Put
<1> HIDE DEF m
<1>6. ListKeys(r) = {lines[i].key : i \in 1..n}
  <2>1. ASSUME NEW x PROVE x \in ListKeys(r) <=> x \in {lines[i].key : i \in 1..n}
    <3>1. x \in ListKeys(r) <=> (x = lines[n].key \/ \E i \in 1..m : x = lines[i].key)
      BY <1>4, <1>5
    <3> QED BY <3>1, <1>2
  <2> QED BY <2>1
<1>7. ASSUME NEW i \in 1..n PROVE ValueOf(r, lines[i].key) = lines[i].ivalue
  <2>1. CASE i = n
    BY <1>5, <2>1
  <2>2. CASE i # n
    <3>1. i \in 1..m /\ lines[i].key # lines[n].key
      BY <1>1, <1>2, <2>2
    <3> QED BY <3>1, <1>4, <1>5
  <2> QED BY <2>1, <2>2
<1>8. ASSUME NEW x, \A i \in 1..n : lines[i].key # x PROVE ValueOf(r, x) = Nobody
  <2>1. x # lines[n].key /\ \A i \in 1..m : lines[i].key # x
    BY <1>2, <1>8
  <2> QED BY <2>1, <1>4, <1>5
<1> QED BY <1>6, <1>7, <1>8 DEF Entered

\* A file is read as the map that it is.
LEMMA ReadIs ==
    ASSUME NEW lines, GoodEntries(lines), type \in Types, dbRead(lines)
    PROVE  \E t \in Tables : /\ list' = t.list /\ hashtable' = t.hash /\ updated' = (lines # <<>>)
                             /\ \A x : ValueOf(t.list, x) = ValueOf(lines, x)
<1> DEFINE N == Len(lines)
           a == [list |-> <<>>, hash |-> NoTable]
           S == Tables
           step(t, n) == Updated(t, lines[n].key, lines[n].ivalue)
           F == [p \in S \X (1..N) |-> step(p[1], p[2])]
           G(g) == [n \in 0 .. N |-> IF n = 0 THEN a ELSE step(g[n - 1], n)]
           C == CHOOSE g : g = G(g)
<1>1. Becomes(C[N]) /\ updated' = (lines # <<>>)
  BY DEF dbRead
<1>2. N \in Nat /\ (\A i \in 1..N : lines[i].key \in Keys /\ lines[i].ivalue \in Values)
      /\ \A i, j \in 1..N : lines[i].key = lines[j].key => i = j
  BY ListFacts DEF GoodEntries
<1>3. a \in S /\ a.list = <<>> /\ Entered(a.list, lines, 0)
  <2> HIDE DEF a
  <2>1. a = [list |-> <<>>, hash |-> NoTable]
    BY DEF a
  <2> QED BY <2>1, NoTableIs
<1>4. ASSUME NEW t \in S, NEW n \in 1..N PROVE step(t, n) \in S /\ Put(t.list, step(t, n).list, lines[n].key, lines[n].ivalue)
  <2> HIDE DEF S
  <2> DEFINE k == lines[n].key
             v == lines[n].ivalue
  <2>1. k \in Keys /\ v \in Values /\ t \in Tables
    BY <1>2 DEF S
  <2> HIDE DEF k, v
  <2>2. Updates(t, Updated(t, k, v), k, v)
    BY <2>1, UpdatedIs
  <2> QED BY <2>2 DEF Updates, k, v, S
<1> HIDE DEF a, S, step, C, N
<1>5. F \in [S \X (1..N) -> S]
  BY <1>4
<1>6. \A t \in S, n \in 1..N : F[<<t, n>>] = step(t, n)
  OBVIOUS
<1> HIDE DEF F
<1>7. PICK h \in [0..N -> S] : Numbered(h, a, F, N)
  BY <1>2, <1>3, <1>5, NumberedExists
<1>8. h = G(h)
  <2>1. h = [n \in 0..N |-> IF n = 0 THEN a ELSE F[<<h[n - 1], n>>]]
    BY <1>7 DEF Numbered
  <2>2. \A n \in 0..N : n # 0 => n \in 1..N /\ h[n - 1] \in S
    BY <1>2, <1>7
  <2>3. \A n \in 0..N : n # 0 => F[<<h[n - 1], n>>] = step(h[n - 1], n)
    BY <1>6, <2>2
  <2> QED BY <2>1, <2>3
<1>9. C = G(C)
  <2>1. \E g : g = G(g)
    BY <1>8
  <2> HIDE DEF G
  <2> QED BY <2>1, Zenon DEF C
<1>10. C[0] = a /\ \A n \in 1..N : C[n] = step(C[n - 1], n)
  <2>1. \A n \in 0..N : C[n] = IF n = 0 THEN a ELSE step(C[n - 1], n)
    BY <1>9
  <2>2. 0 \in 0..N /\ \A n \in 1..N : n \in 0..N /\ n # 0
    BY <1>2
  <2> QED BY <2>1, <2>2
<1> HIDE DEF G
<1> DEFINE T == {n \in 0..N : ~ (C[n] \in S /\ Entered(C[n].list, lines, n))}
<1>11. T = {}
  <2>1. SUFFICES ASSUME T # {} PROVE FALSE
    OBVIOUS
  <2>2. PICK n \in T : \A j \in T : n <= j
    <3>1. T \in SUBSET Nat
      BY <1>2
    <3> HIDE DEF T
    <3> QED BY <2>1, <3>1, FirstOfMany
  <2>3. n \in 0..N /\ n \in Nat /\ ~ (C[n] \in S /\ Entered(C[n].list, lines, n))
    BY <1>2, <2>2
  <2>4. CASE n = 0
    BY <1>3, <1>10, <2>3, <2>4
  <2>5. CASE n # 0
    <3> DEFINE m == n - 1
               t == C[m]
               u == C[n]
    <3>1. m \in 0..N /\ n \in 1..N /\ ~ (n <= m)
      BY <1>2, <2>3, <2>5
    <3>2. m \notin T
      <4> HIDE DEF T, m
      <4> QED BY <2>2, <3>1
    <3>3. t \in S /\ Entered(t.list, lines, m)
      <4> HIDE DEF m
      <4> QED BY <3>1, <3>2
    <3>4. u = step(t, n)
      BY <1>10, <3>1
    <3> HIDE DEF t, u
    <3>5. u \in S /\ Put(t.list, u.list, lines[n].key, lines[n].ivalue)
      BY <1>4, <3>1, <3>3, <3>4
    <3>6. Entered(u.list, lines, n)
      BY <3>1, <3>3, <3>5, OneMoreLine DEF N
    <3> QED BY <2>3, <3>5, <3>6 DEF u
  <2> QED BY <2>4, <2>5
<1>12. C[N] \in S /\ Entered(C[N].list, lines, N)
  <2>1. N \in 0..N
    BY <1>2
  <2> QED BY <1>11, <2>1
<1> DEFINE t == C[N]
<1> HIDE DEF t, T
<1>13. t \in S /\ Entered(t.list, lines, N)
  BY <1>12 DEF t
<1>14. \A x : ValueOf(t.list, x) = ValueOf(lines, x)
  <2>1. /\ \A i \in 1..N : ValueOf(lines, lines[i].key) = lines[i].ivalue
        /\ \A x : x \notin ListKeys(lines) => ValueOf(lines, x) = Nobody
    BY ValueIs DEF N
  <2>2. \A x : x \in ListKeys(lines) <=> \E i \in 1..N : x = lines[i].key
    BY DEF ListKeys, N
  <2> QED BY <1>13, <2>1, <2>2 DEF Entered
<1>15. list' = t.list /\ hashtable' = t.hash
  BY <1>1 DEF Becomes, t
<1> QED BY <1>1, <1>13, <1>14, <1>15 DEF S
----------------------------------------------------------------------------
(* The inductive invariant. *)

TableInv == /\ GoodEntries(list) /\ GoodHash(hashtable) /\ UsedKeys(hashtable) = ListKeys(list)
            /\ type = "DB_INT_SORTED" => Sorted(list)
FileInv  == /\ GoodEntries(file)
            /\ ~ updated => \A x : ValueOf(list, x) = ValueOf(file, x)
RankInv  == type \in Types /\ updated \in BOOLEAN /\ TableInv /\ FileInv

\* What the invariant says of the table as a value.
LEMMA TableOfNow ==
    ASSUME TableInv
    PROVE  Table \in Tables /\ Table.list = list /\ Table.hash = hashtable
<1>1. GoodEntries(list) /\ GoodHash(hashtable) /\ UsedKeys(hashtable) = ListKeys(list) /\ (type = "DB_INT_SORTED" => Sorted(list))
  BY DEF TableInv
<1> DEFINE t == Table
<1>2. t = [list |-> list, hash |-> hashtable]
  BY DEF Table
<1> HIDE DEF t
<1>3. t \in Tables /\ t.list = list /\ t.hash = hashtable
  BY <1>1, <1>2, TableFrom
<1> QED BY <1>3 DEF t

\* A table that becomes the present one.
LEMMA Becoming ==
    ASSUME NEW t \in Tables, list' = t.list, hashtable' = t.hash, type' = type
    PROVE  TableInv'
<1>1. GoodEntries(t.list) /\ GoodHash(t.hash) /\ UsedKeys(t.hash) = ListKeys(t.list) /\ (type = "DB_INT_SORTED" => Sorted(t.list))
  BY TableIs
<1>2. GoodEntries(list') /\ GoodHash(hashtable') /\ UsedKeys(hashtable') = ListKeys(list') /\ (type' = "DB_INT_SORTED" => Sorted(list'))
  BY <1>1
<1> QED BY <1>2 DEF TableInv

\* An empty table and an empty file.
LEMMA RankInitInv == RankInit => RankInv
<1> SUFFICES ASSUME RankInit PROVE RankInv
  OBVIOUS
<1> DEFINE t == Table
<1>1. type \in Types /\ updated \in BOOLEAN /\ list = <<>> /\ hashtable = NoTable /\ updated = FALSE /\ file = <<>>
  BY DEF RankInit, Types
<1>2. t = [list |-> <<>>, hash |-> NoTable]
  BY <1>1 DEF Table
<1>3. t.list = list /\ t.hash = hashtable
  BY DEF Table
<1> HIDE DEF t
<1>4. t \in Tables
  BY <1>2, NoTableIs
<1>5. GoodEntries(t.list) /\ GoodHash(t.hash) /\ UsedKeys(t.hash) = ListKeys(t.list) /\ (type = "DB_INT_SORTED" => Sorted(t.list))
  BY <1>4, TableIs
<1>6. TableInv
  BY <1>3, <1>5 DEF TableInv
<1>7. FileInv
  BY <1>1, <1>6 DEF FileInv, TableInv
<1> QED BY <1>1, <1>6, <1>7 DEF RankInv

\* dbUpdateEntry
LEMMA UpdateInv ==
    ASSUME RankInv, NEW k \in Keys, NEW v \in Values, dbUpdateEntry(k, v)
    PROVE  RankInv' /\ Put(list, list', k, v)
<1> DEFINE u == Updated(Table, k, v)
<1>1. type \in Types /\ TableInv /\ GoodEntries(file)
  BY DEF RankInv, FileInv
<1>2. Table \in Tables /\ Table.list = list
  BY <1>1, TableOfNow
<1>3. Updates(Table, u, k, v)
  BY <1>1, <1>2, UpdatedIs
<1>4. u \in Tables /\ Put(list, u.list, k, v)
  BY <1>2, <1>3 DEF Updates
<1>5. list' = u.list /\ hashtable' = u.hash /\ updated' = TRUE /\ type' = type /\ file' = file
  BY DEF dbUpdateEntry, Becomes
<1> HIDE DEF u
<1>6. TableInv'
  BY <1>4, <1>5, Becoming
<1>7. FileInv'
  BY <1>1, <1>5 DEF FileInv
<1>8. Put(list, list', k, v)
  BY <1>4, <1>5
<1> QED BY <1>1, <1>5, <1>6, <1>7, <1>8 DEF RankInv

\* What a deletion does to keys and values.
Cut(l, r, k) == /\ GoodEntries(r) /\ ListKeys(r) = ListKeys(l) \ {k} /\ k \in ListKeys(l)
                /\ \A x : ValueOf(r, x) = IF x = k THEN Nobody ELSE ValueOf(l, x)

\* dbExtractNodeByKey
LEMMA DeleteInv ==
    ASSUME RankInv, HeadDeletes = FALSE, NEW k \in Keys, dbDeleteEntry(k)
    PROVE  RankInv' /\ Cut(list, list', k)
<1> DEFINE i  == tableGetEntry(hashtable, k)
           at == At(list, k)
           r  == RemoveAt(list, at)
           h  == tableReleaseNode(hashtable, i)
           t  == [list |-> r, hash |-> h]
<1>1. type \in Types /\ TableInv /\ GoodEntries(file)
  BY DEF RankInv, FileInv
<1>2. i # 0 /\ (i > Heads \/ hashtable[i].next = 0) /\ list' = r /\ hashtable' = h /\ updated' = TRUE /\ type' = type /\ file' = file
  BY DEF dbDeleteEntry, Becomes
<1>3. Table \in Tables /\ Table.list = list /\ Table.hash = hashtable
  BY <1>1, TableOfNow
<1>4. k \in ListKeys(list) /\ i \in InUse(hashtable) /\ hashtable[i].key = k
  BY <1>2, <1>3, FoundOrNot
<1>5. GoodEntries(list) /\ list \in Seq(ListEntries) /\ GoodHash(hashtable) /\ UsedKeys(hashtable) = ListKeys(list)
      /\ (type = "DB_INT_SORTED" => Sorted(list))
  BY <1>1 DEF TableInv, GoodEntries
<1>6. at \in 1..Len(list) /\ list[at].key = k
  BY <1>4, <1>5, AtIs
<1>7. LessKey(hashtable, h, k)
  <2> HIDE DEF i
  <2>1. LessKey(hashtable, h, hashtable[i].key)
    BY <1>2, <1>4, <1>5, ReleaseNodeIs
  <2> QED BY <1>4, <2>1
<1>8. r \in Seq(ListEntries) /\ Removed(r, list, at)
  <2> HIDE DEF at
  <2> QED BY <1>5, <1>6, RemoveAtIs
<1> HIDE DEF i, at, r, h
<1>9. /\ GoodEntries(r) /\ ListKeys(r) = ListKeys(list) \ {k}
      /\ \A x : ValueOf(r, x) = IF x = k THEN Nobody ELSE ValueOf(list, x)
  <2>1. /\ GoodEntries(r) /\ ListKeys(r) = ListKeys(list) \ {list[at].key}
        /\ \A x : ValueOf(r, x) = IF x = list[at].key THEN Nobody ELSE ValueOf(list, x)
    BY <1>5, <1>6, <1>8, RemovedGood
  <2> QED BY <1>6, <2>1
<1>10. type = "DB_INT_SORTED" => Sorted(r)
  BY <1>5, <1>6, <1>8, RemovedSorted
<1>11. GoodHash(h) /\ UsedKeys(h) = ListKeys(r)
  BY <1>5, <1>7, <1>9 DEF LessKey
<1>12. TableInv'
  BY <1>2, <1>9, <1>10, <1>11 DEF TableInv
<1>13. FileInv'
  BY <1>1, <1>2 DEF FileInv
<1>14. Cut(list, list', k)
  BY <1>2, <1>4, <1>9 DEF Cut
<1> QED BY <1>1, <1>2, <1>12, <1>13, <1>14 DEF RankInv

\* dbFlush
LEMMA FlushInv ==
    ASSUME RankInv, dbFlush
    PROVE  RankInv'
<1>1. TableInv'
  BY DEF RankInv, TableInv, dbFlush
<1>2. FileInv'
  BY DEF RankInv, FileInv, TableInv, dbFlush
<1> QED BY <1>1, <1>2 DEF RankInv, dbFlush

\* A file that is read when the process starts again.
LEMMA ReadInv ==
    ASSUME type \in Types, GoodEntries(file'), dbRead(file'), type' = type
    PROVE  RankInv' /\ \A x : ValueOf(list', x) = ValueOf(file', x)
<1> DEFINE lines == file'
<1>1. GoodEntries(lines) /\ dbRead(lines)
  OBVIOUS
<1> HIDE DEF lines
<1>2. PICK t \in Tables : /\ list' = t.list /\ hashtable' = t.hash /\ updated' = (lines # <<>>)
                          /\ \A x : ValueOf(t.list, x) = ValueOf(lines, x)
  BY <1>1, ReadIs
<1>3. TableInv'
  BY <1>2, Becoming
<1>4. \A x : ValueOf(list', x) = ValueOf(file', x)
  BY <1>2 DEF lines
<1>5. FileInv'
  BY <1>4 DEF FileInv
<1>6. updated' \in BOOLEAN
  BY <1>2
<1> QED BY <1>3, <1>4, <1>5, <1>6 DEF RankInv

PartOf(r, l) == /\ GoodEntries(r) /\ ListKeys(r) \subseteq ListKeys(l)
                /\ \A x : ValueOf(r, x) = IF x \in ListKeys(r) THEN ValueOf(l, x) ELSE Nobody

\* A part of a list.
LEMMA PartOfList ==
    ASSUME NEW l, GoodEntries(l), NEW n \in 0..Len(l), NEW r, r = SubSeq(l, 1, n)
    PROVE  PartOf(r, l)
<1>1. l \in Seq(ListEntries) /\ Len(l) \in Nat /\ DOMAIN l = 1..Len(l) /\ (\A i \in 1..Len(l) : l[i] \in ListEntries)
      /\ \A i, j \in 1..Len(l) : l[i].key = l[j].key => i = j
  BY ListFacts DEF GoodEntries
<1>2. r = [i \in 1..n |-> l[i]] /\ n \in Nat /\ \A i \in 1..n : i \in 1..Len(l)
  <2>1. n \in Nat /\ \A i \in 1..n : i \in 1..Len(l)
    BY <1>1
  <2>2. r = [i \in 1..n |-> l[i]]
    BY <1>1
  <2> QED BY <2>1, <2>2
<1>3. \A i \in 1..n : r[i] = l[i] /\ r[i] \in ListEntries
  BY <1>1, <1>2
<1>4. r \in Seq(ListEntries) /\ Len(r) = n
  <2>1. r = [i \in 1..n |-> r[i]]
    BY <1>2
  <2> QED BY <1>2, <1>3, <2>1, IsASeq
<1>5. GoodEntries(r)
  BY <1>1, <1>2, <1>3, <1>4 DEF GoodEntries
<1>6. ListKeys(r) \subseteq ListKeys(l)
  BY <1>2, <1>3, <1>4 DEF ListKeys
<1>7. ASSUME NEW x PROVE ValueOf(r, x) = IF x \in ListKeys(r) THEN ValueOf(l, x) ELSE Nobody
  <2>1. CASE x \in ListKeys(r)
    <3>1. PICK i \in 1..n : x = r[i].key
      BY <1>4, <2>1 DEF ListKeys
    <3>2. ValueOf(r, r[i].key) = r[i].ivalue
      BY <1>4, <1>5, ValueIs
    <3>3. ValueOf(l, l[i].key) = l[i].ivalue
      BY <1>2, ValueIs
    <3> QED BY <1>3, <2>1, <3>1, <3>2, <3>3
  <2>2. CASE x \notin ListKeys(r)
    BY <1>5, <2>2, ValueIs
  <2> QED BY <2>1, <2>2
<1> QED BY <1>5, <1>6, <1>7 DEF PartOf

\* The process is started again.
LEMMA RestartInv ==
    ASSUME RankInv, RestartServer
    PROVE  RankInv' /\ file' = file /\ \A x : ValueOf(list', x) = ValueOf(file, x)
<1>1. type \in Types /\ GoodEntries(file) /\ dbRead(file) /\ file' = file /\ type' = type
  BY DEF RankInv, FileInv, RestartServer
<1>2. GoodEntries(file') /\ dbRead(file')
  BY <1>1
<1>3. RankInv' /\ \A x : ValueOf(list', x) = ValueOf(file', x)
  BY <1>1, <1>2, ReadInv
<1> QED BY <1>1, <1>3

\* It had ended while it wrote.
LEMMA RestartFlushInv ==
    ASSUME RankInv, RestartInFlush
    PROVE  /\ RankInv' /\ GoodEntries(file') /\ ListKeys(file') \subseteq ListKeys(list)
           /\ \A x : ValueOf(list', x) = ValueOf(file', x)
           /\ \A x : ValueOf(file', x) = IF x \in ListKeys(file') THEN ValueOf(list, x) ELSE Nobody
<1>1. type \in Types /\ type' = type /\ GoodEntries(list)
  BY DEF RankInv, TableInv, RestartInFlush
<1>2. PICK n \in 0..Len(list) : file' = SubSeq(list, 1, n) /\ dbRead(SubSeq(list, 1, n))
  BY DEF RestartInFlush
<1> DEFINE r == SubSeq(list, 1, n)
<1>3. /\ GoodEntries(r) /\ ListKeys(r) \subseteq ListKeys(list)
      /\ \A x : ValueOf(r, x) = IF x \in ListKeys(r) THEN ValueOf(list, x) ELSE Nobody
  <2>1. PartOf(r, list)
    BY <1>1, PartOfList
  <2> HIDE DEF r
  <2> QED BY <2>1 DEF PartOf
<1>4. file' = r /\ dbRead(r)
  BY <1>2
<1> HIDE DEF r
<1>5. GoodEntries(file') /\ dbRead(file')
  BY <1>3, <1>4
<1>6. RankInv' /\ \A x : ValueOf(list', x) = ValueOf(file', x)
  BY <1>1, <1>5, ReadInv
<1> QED BY <1>3, <1>4, <1>5, <1>6

\* The hash table and the list agree, whatever is entered, deleted, written and
\* read, while no head of a chain is deleted.
THEOREM TableTypes ==
    ASSUME HeadDeletes = FALSE
    PROVE  RankSpec => []RankInv
<1>1. RankInit => RankInv
  BY RankInitInv
<1>2. RankInv /\ [RankNext]_rankVars => RankInv'
  <2> SUFFICES ASSUME RankInv, [RankNext]_rankVars PROVE RankInv'
    OBVIOUS
  <2>1. ASSUME NEW k \in Keys, NEW v \in Values, dbUpdateEntry(k, v) PROVE RankInv'
    BY <2>1, UpdateInv
  <2>2. ASSUME NEW k \in Keys, dbDeleteEntry(k) PROVE RankInv'
    BY <2>2, DeleteInv
  <2>3. CASE dbFlush
    BY <2>3, FlushInv
  <2>4. CASE RestartServer
    BY <2>4, RestartInv
  <2>5. CASE RestartInFlush
    BY <2>5, RestartFlushInv
  <2>6. CASE UNCHANGED rankVars
    BY <2>6 DEF RankInv, TableInv, FileInv, rankVars, tableVars
  <2> QED BY <2>1, <2>2, <2>3, <2>4, <2>5, <2>6 DEF RankNext
<1> QED BY <1>1, <1>2, PTL DEF RankSpec
----------------------------------------------------------------------------
(* Ranks. *)

OneToOne(f, S, T) == /\ f \in [S -> T] /\ (\A y \in T : \E x \in S : f[x] = y)
                     /\ \A x, y \in S : f[x] = f[y] => x = y

\* Sets of which each element has one of the other are as large.
LEMMA OneToOneIs ==
    ASSUME NEW S, NEW T, NEW f, OneToOne(f, S, T), IsFiniteSet(S)
    PROVE  Cardinality(T) = Cardinality(S)
<1>1. f \in [S -> T] /\ (\A y \in T : \E x \in S : f[x] = y) /\ \A x, y \in S : f[x] = f[y] => x = y
  BY DEF OneToOne
<1>2. f \in Injection(S, T)
  BY <1>1 DEF Injection, IsInjective
<1>3. f \in Surjection(S, T)
  BY <1>1 DEF Surjection
<1>4. ExistsBijection(S, T)
  BY <1>2, <1>3 DEF ExistsBijection, Bijection
<1> QED BY <1>4, FS_Bijection

\* A table has as many entries in its list as cells in use.
LEMMA AsManyEntries ==
    ASSUME TableInv
    PROVE  Len(list) = Cardinality({i \in 1 .. HashSize : hashtable[i].use})
<1> DEFINE D == 1..Len(list)
           K == ListKeys(list)
           U == InUse(hashtable)
           f == [i \in D |-> list[i].key]
           g == [i \in U |-> hashtable[i].key]
<1>1. GoodEntries(list) /\ GoodHash(hashtable) /\ UsedKeys(hashtable) = K
  BY DEF TableInv
<1>2. Len(list) \in Nat /\ list \in Seq(ListEntries) /\ \A i, j \in D : list[i].key = list[j].key => i = j
  BY <1>1, ListFacts DEF GoodEntries
<1>3. OneToOne(f, D, K)
  <2>1. \A i \in D : list[i].key \in K
    BY <1>2, ListFacts
  <2>2. \A x \in K : \E i \in D : x = list[i].key
    BY DEF ListKeys
  <2> HIDE DEF D, K
  <2>3. f \in [D -> K] /\ (\A x \in K : \E i \in D : f[i] = x) /\ \A i, j \in D : f[i] = f[j] => i = j
    BY <1>2, <2>1, <2>2
  <2> HIDE DEF f
  <2> QED BY <2>3 DEF OneToOne
<1>4. OneToOne(g, U, K)
  <2>1. PICK t \in [Cells -> Nat], c \in Nat : Linked(hashtable, t, c)
    BY <1>1 DEF GoodHash
  <2>2. \A i, j \in U : hashtable[i].key = hashtable[j].key => i = j
    BY <2>1 DEF Linked
  <2>3. (\A i \in U : hashtable[i].key \in K) /\ \A x \in K : \E i \in U : x = hashtable[i].key
    BY <1>1 DEF UsedKeys
  <2> HIDE DEF U, K
  <2>4. g \in [U -> K] /\ (\A x \in K : \E i \in U : g[i] = x) /\ \A i, j \in U : g[i] = g[j] => i = j
    BY <2>2, <2>3
  <2> HIDE DEF g
  <2> QED BY <2>4 DEF OneToOne
<1>5. IsFiniteSet(D) /\ Cardinality(D) = Len(list)
  <2> DEFINE a == 1
             b == Len(list)
  <2>1. a \in Int /\ b \in Int /\ b \in Nat /\ a = 1
    BY <1>2
  <2>2. D = a..b
    OBVIOUS
  <2> HIDE DEF D, a, b
  <2>3. IsFiniteSet(a..b) /\ Cardinality(a..b) = IF a > b THEN 0 ELSE b - a + 1
    BY <2>1, FS_Interval
  <2>4. Cardinality(a..b) = b
    BY <2>1, <2>3
  <2> QED BY <2>2, <2>3, <2>4 DEF b
<1>6. IsFiniteSet(U)
  <2> DEFINE b == HashSize
             a == 1
  <2>1. a \in Int /\ b \in Int /\ Cells = a..b
    BY Sizes DEF Cells
  <2>2. U \subseteq Cells
    BY DEF InUse
  <2> HIDE DEF U, a, b
  <2>3. IsFiniteSet(a..b)
    BY <2>1, FS_Interval
  <2> QED BY <2>1, <2>2, <2>3, FS_Subset
<1> HIDE DEF D, U, K, f, g
<1>7. Cardinality(K) = Cardinality(D) /\ Cardinality(K) = Cardinality(U)
  BY <1>3, <1>4, <1>5, <1>6, OneToOneIs
<1>8. U = {i \in 1 .. HashSize : hashtable[i].use}
  BY DEF U, InUse, Cells
<1> QED BY <1>5, <1>7, <1>8

\* FirstOf(i) is the first place of those with the value of the one at i.
LEMMA FirstOfIs ==
    ASSUME TableInv, NEW i \in 1..Len(list)
    PROVE  /\ FirstOf(i) \in 1..i /\ \A n \in FirstOf(i)..i : list[n].ivalue = list[i].ivalue
           /\ FirstOf(i) = 1 \/ list[FirstOf(i) - 1].ivalue # list[FirstOf(i)].ivalue
<1> DEFINE same(j) == \A n \in j .. i : list[n].ivalue = list[i].ivalue
           first(j) == /\ \A n \in j .. i : list[n].ivalue = list[i].ivalue
                       /\ j = 1 \/ list[j - 1].ivalue # list[j].ivalue
           T == {j \in 1..i : same(j)}
<1>1. Len(list) \in Nat /\ i \in Nat /\ i \in 1..i
  BY ListFacts DEF TableInv, GoodEntries
<1>2. i \in T
  <2>1. \A n \in i..i : n = i
    BY <1>1
  <2> QED BY <1>1, <2>1
<1>3. PICK j \in T : \A m \in T : j <= m
  <2>1. T \in SUBSET Nat
    BY <1>1
  <2> HIDE DEF T
  <2> QED BY <1>2, <2>1, FirstOfMany
<1>4. j \in 1..i /\ j \in Nat /\ same(j)
  BY <1>1, <1>3
<1>5. first(j)
  <2>1. ASSUME j # 1, list[j - 1].ivalue = list[j].ivalue PROVE FALSE
    <3> DEFINE m == j - 1
    <3>1. m \in 1..i /\ ~ (j <= m) /\ j \in j..i /\ \A n \in m..i : n = m \/ n \in j..i
      BY <1>1, <1>4, <2>1
    <3>2. list[m].ivalue = list[i].ivalue
      BY <1>4, <2>1, <3>1
    <3> HIDE DEF m
    <3>3. same(m)
      BY <1>4, <3>1, <3>2
    <3>4. m \in T
      BY <3>1, <3>3
    <3> HIDE DEF T
    <3> QED BY <1>3, <3>1, <3>4
  <2> QED BY <1>4, <2>1
<1>6. FirstOf(i) = CHOOSE x \in 1..i : first(x)
  BY DEF FirstOf
<1> DEFINE y == CHOOSE x \in 1..i : first(x)
<1>7. y \in 1..i /\ first(y)
  <2>1. \E x \in 1..i : first(x)
    BY <1>4, <1>5
  <2> HIDE DEF first
  <2> QED BY <2>1
<1> HIDE DEF y
<1> QED BY <1>6, <1>7 DEF y

\* Whatever is before that place is better, and nothing behind it.
LEMMA BetterAreBefore ==
    ASSUME TableInv, Sorted(list), NEW i \in 1..Len(list)
    PROVE  FirstOf(i) - 1 = Cardinality({f \in Range(list) : f.ivalue > list[i].ivalue})
<1> DEFINE j == FirstOf(i)
           v == list[i].ivalue
           B == {f \in Range(list) : f.ivalue > v}
           m == j - 1
           D == 1..m
           g == [n \in D |-> list[n]]
<1>1. /\ Len(list) \in Nat /\ i \in Nat /\ DOMAIN list = 1..Len(list)
      /\ \A n \in 1..Len(list) : list[n].ivalue \in Nat
      /\ \A x, y \in 1..Len(list) : list[x].key = list[y].key => x = y
      /\ \A x, y \in 1..Len(list) : x < y => list[x].ivalue >= list[y].ivalue
  BY ListFacts DEF TableInv, GoodEntries, Sorted
<1>2. /\ j \in 1..i /\ (\A n \in j..i : list[n].ivalue = v)
      /\ j = 1 \/ list[j - 1].ivalue # list[j].ivalue
  BY FirstOfIs
<1> HIDE DEF j
<1>3. m \in Nat /\ j \in Nat /\ D \subseteq 1..Len(list) /\ v \in Nat /\ j \in j..i /\ j \in 1..Len(list) /\ list[j].ivalue = v
  BY <1>1, <1>2
<1> HIDE DEF v
<1>4. ASSUME NEW n \in D PROVE list[n].ivalue > v
  <2>1. j # 1 /\ m \in 1..Len(list) /\ n \in 1..Len(list) /\ n <= m /\ m < j
    BY <1>1, <1>2, <1>3
  <2>2. list[m].ivalue > v
    <3>1. list[m].ivalue >= list[j].ivalue /\ list[m].ivalue # list[j].ivalue
      BY <1>1, <1>2, <1>3, <2>1
    <3> QED BY <1>1, <1>3, <2>1, <3>1
  <2>3. n = m \/ list[n].ivalue >= list[m].ivalue
    BY <1>1, <1>3, <2>1
  <2> QED BY <1>1, <1>3, <2>1, <2>2, <2>3
<1>5. ASSUME NEW n \in 1..Len(list), list[n].ivalue > v PROVE n \in D
  <2>1. CASE n >= j
    <3>1. list[n].ivalue <= list[j].ivalue
      BY <1>1, <1>3, <2>1
    <3> QED BY <1>1, <1>3, <1>5, <3>1
  <2>2. CASE ~ (n >= j)
    BY <1>1, <1>3, <2>2
  <2> QED BY <2>1, <2>2
<1>6. OneToOne(g, D, B)
  <2>1. \A n \in D : list[n] \in B
    BY <1>1, <1>3, <1>4 DEF Range
  <2>2. \A x \in B : \E n \in D : x = list[n]
    BY <1>1, <1>5 DEF Range
  <2>3. \A x, y \in D : list[x] = list[y] => x = y
    BY <1>1, <1>3
  <2> HIDE DEF D, B
  <2>4. g \in [D -> B] /\ (\A x \in B : \E n \in D : g[n] = x) /\ \A x, y \in D : g[x] = g[y] => x = y
    BY <2>1, <2>2, <2>3
  <2> HIDE DEF g
  <2> QED BY <2>4 DEF OneToOne
<1>7. IsFiniteSet(D) /\ Cardinality(D) = m
  <2> DEFINE a == 1
  <2>1. a \in Int /\ m \in Int /\ a = 1 /\ D = a..m
    BY <1>3
  <2> HIDE DEF D, a, m
  <2>2. IsFiniteSet(a..m) /\ Cardinality(a..m) = IF a > m THEN 0 ELSE m - a + 1
    BY <2>1, FS_Interval
  <2>3. Cardinality(a..m) = m
    BY <1>3, <2>1, <2>2
  <2> QED BY <2>1, <2>2, <2>3
<1> HIDE DEF D, B, g, m
<1>8. Cardinality(B) = m
  BY <1>6, <1>7, OneToOneIs
<1> QED BY <1>8 DEF B, m, j, v

\* The first rank of the range is that of the first place.
LEMMA FirstRank ==
    ASSUME TableInv, NEW i \in 1..Len(list)
    PROVE  Cardinality({FirstOf(j) : j \in 1 .. i}) = 1 <=> FirstOf(i) = 1
<1> DEFINE R == {FirstOf(j) : j \in 1 .. i}
<1>1. Len(list) \in Nat /\ i \in Nat /\ i \in 1..i /\ 1 \in 1..i /\ \A j \in 1..i : j \in 1..Len(list) /\ j \in Nat
  BY ListFacts DEF TableInv, GoodEntries
<1>2. FirstOf(1) = 1
  <2>1. FirstOf(1) \in 1..1
    BY <1>1, FirstOfIs
  <2> QED BY <2>1
<1>3. 1 \in R /\ FirstOf(i) \in R
  BY <1>1, <1>2
<1>4. IsFiniteSet(R)
  <2> DEFINE a == 1
  <2>1. a \in Int /\ i \in Int /\ a = 1
    BY <1>1
  <2>2. \A j \in 1..i : FirstOf(j) \in 1..i
    <3>1. ASSUME NEW j \in 1..i PROVE FirstOf(j) \in 1..i
      <4>1. FirstOf(j) \in 1..j
        BY <1>1, FirstOfIs
      <4> QED BY <1>1, <4>1
    <3> QED BY <3>1
  <2>3. R \subseteq a..i
    BY <2>2
  <2> HIDE DEF a, R
  <2>4. IsFiniteSet(a..i)
    BY <2>1, FS_Interval
  <2> QED BY <2>3, <2>4, FS_Subset
<1>5. ASSUME FirstOf(i) = 1, NEW j \in 1..i PROVE FirstOf(j) = 1
  <2> DEFINE x == FirstOf(j)
             y == FirstOf(j) - 1
  <2>1. x \in 1..j /\ (x = 1 \/ list[y].ivalue # list[x].ivalue)
    BY <1>1, FirstOfIs
  <2>2. \A n \in 1..i : list[n].ivalue = list[i].ivalue
    BY <1>5, FirstOfIs
  <2>3. x # 1 => y \in 1..i /\ x \in 1..i
    BY <1>1, <2>1
  <2> HIDE DEF x, y
  <2>4. x = 1
    BY <2>1, <2>2, <2>3
  <2> QED BY <2>4 DEF x
<1>6. FirstOf(i) = 1 => R = {1}
  BY <1>3, <1>5
<1> HIDE DEF R
<1>7. Cardinality(R) = 1 => R = {1}
  <2>1. ASSUME Cardinality(R) = 1 PROVE R = {1}
    <3>1. \E x : R = {x}
      BY <1>4, <2>1, FS_Singleton
    <3> QED BY <1>3, <3>1
  <2> QED BY <2>1
<1>8. R = {1} => Cardinality(R) = 1
  BY FS_Singleton
<1>9. R = {1} => FirstOf(i) = 1
  BY <1>3
<1>10. Cardinality(R) = 1 <=> FirstOf(i) = 1
  BY <1>6, <1>7, <1>8, <1>9
<1> QED BY <1>10 DEF R

\* The invariant implies that ranks are by value.
LEMMA RanksFollow ==
    ASSUME TableInv
    PROVE  RanksByValue
<1>1. Len(list) = Cardinality({i \in 1 .. HashSize : hashtable[i].use})
  BY AsManyEntries
<1>2. ASSUME type = "DB_INT_SORTED", NEW e \in Range(list)
      PROVE  /\ dbGetEntryRank(e.key).rank = Cardinality({f \in Range(list) : f.ivalue > e.ivalue})
             /\ dbGetEntryRank(e.key).rank = 0 <=> [rank |-> 1, key |-> e.key] \in dbGetEntryRankRange(1, 1)
  <2> DEFINE D == 1..Len(list)
  <2>1. /\ Sorted(list) /\ Len(list) \in Nat /\ DOMAIN list = D
        /\ \A x, y \in D : list[x].key = list[y].key => x = y
    BY <1>2, ListFacts DEF TableInv, GoodEntries
  <2>2. PICK i \in D : e = list[i]
    BY <2>1 DEF Range
  <2> DEFINE at == CHOOSE x \in DOMAIN list : list[x].key = e.key /\ \A y \in 1 .. x - 1 : list[y].key # e.key
  <2>3. at = i
    <3>1. list[i].key = e.key /\ \A y \in 1 .. i - 1 : list[y].key # e.key
      <4>1. \A y \in 1 .. i - 1 : y \in D /\ y # i
        BY <2>1
      <4> QED BY <2>1, <2>2, <4>1
    <3>2. \E x \in D : list[x].key = e.key /\ \A y \in 1 .. x - 1 : list[y].key # e.key
      BY <3>1
    <3>3. at \in D /\ list[at].key = e.key
      BY <2>1, <3>2
    <3> HIDE DEF at, D
    <3> QED BY <2>1, <2>2, <3>3
  <2>4. dbGetEntryRank(e.key).rank = FirstOf(at) - 1
    BY DEF dbGetEntryRank
  <2> HIDE DEF at
  <2>5. dbGetEntryRank(e.key).rank = FirstOf(i) - 1
    BY <2>3, <2>4
  <2>6. FirstOf(i) - 1 = Cardinality({f \in Range(list) : f.ivalue > list[i].ivalue})
    BY <2>1, BetterAreBefore
  <2>7. FirstOf(i) \in Nat
    <3>1. FirstOf(i) \in 1..i
      BY FirstOfIs
    <3> QED BY <3>1
  <2> DEFINE rank(x) == Cardinality({FirstOf(y) : y \in 1 .. x})
  <2>8. \A x \in D : rank(x) = 1 <=> FirstOf(x) = 1
    BY FirstRank
  <2> DEFINE w == [rank |-> 1, key |-> e.key]
             W == dbGetEntryRankRange(1, 1)
  <2>9. W = {[rank |-> rank(x), key |-> list[x].key] : x \in {y \in DOMAIN list : rank(y) \in 1 .. 1}}
    BY DEF dbGetEntryRankRange
  <2> HIDE DEF rank, W
  <2>10. \A c : c \in 1..1 <=> c = 1
    OBVIOUS
  <2>11. w \in W => FirstOf(i) = 1
    <3> SUFFICES ASSUME w \in W PROVE FirstOf(i) = 1
      OBVIOUS
    <3>1. PICK x \in {y \in DOMAIN list : rank(y) \in 1 .. 1} : w = [rank |-> rank(x), key |-> list[x].key]
      BY <2>9
    <3>2. x \in D /\ rank(x) = 1 /\ list[x].key = e.key
      BY <2>1, <2>10, <3>1
    <3>3. x = i
      BY <2>1, <2>2, <3>2
    <3> QED BY <2>8, <3>2, <3>3
  <2>12. FirstOf(i) = 1 => w \in W
    <3> SUFFICES ASSUME FirstOf(i) = 1 PROVE w \in W
      OBVIOUS
    <3>1. rank(i) = 1 /\ i \in {y \in DOMAIN list : rank(y) \in 1 .. 1}
      BY <2>1, <2>8, <2>10
    <3>2. w = [rank |-> rank(i), key |-> list[i].key]
      BY <2>2, <3>1
    <3> QED BY <2>9, <3>1, <3>2
  <2>13. FirstOf(i) - 1 = 0 <=> FirstOf(i) = 1
    BY <2>7
  <2>14. dbGetEntryRank(e.key).rank = Cardinality({f \in Range(list) : f.ivalue > e.ivalue})
    BY <2>2, <2>5, <2>6
  <2> HIDE DEF w
  <2>15. dbGetEntryRank(e.key).rank = 0 <=> w \in W
    BY <2>5, <2>11, <2>12, <2>13
  <2> QED BY <2>14, <2>15 DEF w, W
<1> QED BY <1>1, <1>2 DEF RanksByValue

\* A rank is the number of the entries that are better, and the two requests for
\* ranks agree on who is first: in every state, while no head of a chain is deleted.
THEOREM RanksAreByValue ==
    ASSUME HeadDeletes = FALSE
    PROVE  RankSpec => []RanksByValue
<1>1. RankSpec => []RankInv
  BY TableTypes
<1>2. RankInv => RanksByValue
  BY RanksFollow DEF RankInv
<1> QED BY <1>1, <1>2, PTL
----------------------------------------------------------------------------
(* The refinement. *)

Current == [k \in Keys |-> IF tableGetEntry(hashtable, k) = 0 THEN Nobody ELSE list[At(list, k)].ivalue]
OnFile  == [k \in Keys |-> ValueOf(file, k)]

FoundValue(l, h, k) == IF tableGetEntry(h, k) = 0 THEN Nobody ELSE l[At(l, k)].ivalue

\* What the hash table leads to is what the list says.
LEMMA FoundIs ==
    ASSUME NEW l, NEW h, GoodEntries(l), GoodHash(h), UsedKeys(h) = ListKeys(l), NEW k \in Keys
    PROVE  FoundValue(l, h, k) = ValueOf(l, k)
<1> DEFINE at == At(l, k)
           i  == tableGetEntry(h, k)
<1>1. \/ i = 0 /\ k \notin UsedKeys(h)
      \/ i \in InUse(h) /\ h[i].key = k
  BY GetEntryIs
<1>2. FoundValue(l, h, k) = IF i = 0 THEN Nobody ELSE l[at].ivalue
  BY DEF FoundValue
<1> HIDE DEF i
<1>3. CASE i = 0 /\ k \notin UsedKeys(h)
  BY <1>2, <1>3, ValueIs
<1>4. CASE i \in InUse(h) /\ h[i].key = k
  <2>1. k \in ListKeys(l) /\ i # 0
    BY <1>4, Sizes DEF UsedKeys, InUse, Cells
  <2>2. at \in 1..Len(l) /\ l[at].key = k
    BY <2>1, AtIs
  <2> HIDE DEF at
  <2>3. ValueOf(l, l[at].key) = l[at].ivalue
    BY <2>2, ValueIs
  <2> QED BY <1>2, <2>1, <2>2, <2>3
<1> QED BY <1>1, <1>3, <1>4

\* So it is in a state,
LEMMA CurrentIs ==
    ASSUME TableInv
    PROVE  Current = [k \in Keys |-> ValueOf(list, k)]
<1>1. \A k \in Keys : FoundValue(list, hashtable, k) = ValueOf(list, k)
  BY FoundIs DEF TableInv
<1>2. Current = [k \in Keys |-> FoundValue(list, hashtable, k)]
  BY DEF Current, FoundValue
<1> QED BY <1>1, <1>2

\* and in the next one.
LEMMA CurrentBecomes ==
    ASSUME TableInv'
    PROVE  Current' = [k \in Keys |-> ValueOf(list', k)]
<1>1. \A k \in Keys : FoundValue(list', hashtable', k) = ValueOf(list', k)
  BY FoundIs DEF TableInv
<1>2. Current' = [k \in Keys |-> FoundValue(list', hashtable', k)]
  BY DEF Current, FoundValue
<1> QED BY <1>1, <1>2

\* What the steps of a ranking are, of these two maps.
LEMMA RankingSteps ==
    /\ RankingOf!RankingInit <=> Current = [k \in Keys |-> Nobody] /\ OnFile = [k \in Keys |-> Nobody]
    /\ \A k, v : RankingOf!Put(k, v) <=> Current' = [Current EXCEPT ![k] = v] /\ OnFile' = OnFile
    /\ \A k : RankingOf!Remove(k) <=> Current' = [Current EXCEPT ![k] = Nobody] /\ OnFile' = OnFile
    /\ RankingOf!Save <=> OnFile' = Current /\ Current' = Current
    /\ RankingOf!Restart <=> Current' = OnFile /\ OnFile' = OnFile
    /\ RankingOf!SaveCut <=> \E written \in SUBSET Keys :
                                 /\ OnFile' = [k \in Keys |-> IF k \in written THEN Current[k] ELSE Nobody]
                                 /\ Current' = OnFile'
    /\ UNCHANGED RankingOf!rankingVars <=> Current' = Current /\ OnFile' = OnFile
BY DEF RankingOf!RankingInit, RankingOf!Put, RankingOf!Remove, RankingOf!Save, RankingOf!Restart,
       RankingOf!SaveCut, RankingOf!rankingVars, Current, OnFile

\* A table begins as an empty ranking.
LEMMA RankingBegins == RankInit => RankingOf!RankingInit
<1> SUFFICES ASSUME RankInit PROVE RankingOf!RankingInit
  OBVIOUS
<1>1. TableInv /\ list = <<>> /\ file = <<>> /\ GoodEntries(list)
  BY RankInitInv DEF RankInv, RankInit, TableInv
<1>2. \A k : k \notin ListKeys(list)
  <2> DEFINE l == <<>>
  <2>1. Len(l) = 0 /\ 1..0 = {}
    OBVIOUS
  <2>2. list = l
    BY <1>1
  <2> HIDE DEF l
  <2> QED BY <2>1, <2>2 DEF ListKeys
<1>3. \A k : ValueOf(list, k) = Nobody
  BY <1>1, <1>2, ValueIs
<1>4. Current = [k \in Keys |-> Nobody]
  BY <1>1, <1>3, CurrentIs
<1>5. OnFile = [k \in Keys |-> Nobody]
  BY <1>1, <1>3 DEF OnFile
<1> QED BY <1>4, <1>5, RankingSteps

\* Each operation is a step of the ranking, or none.
LEMMA RankingGoesOn ==
    ASSUME RankInv, [RankNext]_rankVars, HeadDeletes = FALSE
    PROVE  [RankingOf!RankingNext]_(RankingOf!rankingVars)
<1> DEFINE Goal == [RankingOf!RankingNext]_(RankingOf!rankingVars)
<1>1. Current = [k \in Keys |-> ValueOf(list, k)] /\ GoodEntries(list)
  BY CurrentIs DEF RankInv, TableInv
<1>2. ASSUME NEW k \in Keys, NEW v \in Values, dbUpdateEntry(k, v) PROVE Goal
  <2>1. RankInv' /\ Put(list, list', k, v)
    BY <1>2, UpdateInv
  <2>2. Current' = [x \in Keys |-> ValueOf(list', x)]
    BY <2>1, CurrentBecomes DEF RankInv
  <2>3. \A x : ValueOf(list', x) = IF x = k THEN v ELSE ValueOf(list, x)
    BY <2>1 DEF Put
  <2>4. Current' = [Current EXCEPT ![k] = v]
    BY <1>1, <2>2, <2>3
  <2>5. OnFile' = OnFile
    BY <1>2 DEF OnFile, dbUpdateEntry
  <2>6. RankingOf!Put(k, v)
    BY <2>4, <2>5, RankingSteps
  <2> QED BY <1>2, <2>6 DEF RankingOf!RankingNext
<1>3. ASSUME NEW k \in Keys, dbDeleteEntry(k) PROVE Goal
  <2>1. RankInv' /\ Cut(list, list', k)
    BY <1>3, DeleteInv
  <2>2. Current' = [x \in Keys |-> ValueOf(list', x)]
    BY <2>1, CurrentBecomes DEF RankInv
  <2>3. \A x : ValueOf(list', x) = IF x = k THEN Nobody ELSE ValueOf(list, x)
    BY <2>1 DEF Cut
  <2>4. Current' = [Current EXCEPT ![k] = Nobody]
    BY <1>1, <2>2, <2>3
  <2>5. OnFile' = OnFile
    BY <1>3 DEF OnFile, dbDeleteEntry
  <2>6. RankingOf!Remove(k)
    BY <2>4, <2>5, RankingSteps
  <2> QED BY <1>3, <2>6 DEF RankingOf!RankingNext
<1>4. ASSUME dbFlush PROVE Goal
  <2>1. Current' = Current
    BY <1>4 DEF Current, dbFlush
  <2>2. CASE updated
    <3>1. file' = list
      BY <1>4, <2>2 DEF dbFlush
    <3>2. OnFile' = Current
      BY <1>1, <3>1 DEF OnFile
    <3>3. RankingOf!Save
      BY <2>1, <3>2, RankingSteps
    <3> QED BY <3>3 DEF RankingOf!RankingNext
  <2>3. CASE ~ updated
    <3>1. OnFile' = OnFile
      BY <1>4, <2>3 DEF dbFlush, OnFile
    <3> QED BY <2>1, <3>1, RankingSteps
  <2> QED BY <2>2, <2>3
<1>5. ASSUME RestartServer PROVE Goal
  <2>1. RankInv' /\ file' = file /\ \A x : ValueOf(list', x) = ValueOf(file, x)
    BY <1>5, RestartInv
  <2>2. Current' = [x \in Keys |-> ValueOf(list', x)]
    BY <2>1, CurrentBecomes DEF RankInv
  <2>3. Current' = OnFile /\ OnFile' = OnFile
    BY <2>1, <2>2 DEF OnFile
  <2>4. RankingOf!Restart
    BY <2>3, RankingSteps
  <2> QED BY <2>4 DEF RankingOf!RankingNext
<1>6. ASSUME RestartInFlush PROVE Goal
  <2>1. /\ RankInv' /\ \A x : ValueOf(list', x) = ValueOf(file', x)
        /\ \A x : ValueOf(file', x) = IF x \in ListKeys(file') THEN ValueOf(list, x) ELSE Nobody
    BY <1>6, RestartFlushInv
  <2>2. Current' = [x \in Keys |-> ValueOf(list', x)]
    BY <2>1, CurrentBecomes DEF RankInv
  <2>3. Current' = OnFile'
    BY <2>1, <2>2 DEF OnFile
  <2> DEFINE W == {x \in Keys : x \in ListKeys(file')}
  <2>4. W \in SUBSET Keys /\ OnFile' = [k \in Keys |-> IF k \in W THEN Current[k] ELSE Nobody]
    <3>1. \A k \in Keys : k \in W <=> k \in ListKeys(file')
      OBVIOUS
    <3>2. W \in SUBSET Keys
      OBVIOUS
    <3>3. OnFile' = [k \in Keys |-> ValueOf(file', k)]
      BY DEF OnFile
    <3> HIDE DEF W
    <3> QED BY <1>1, <2>1, <3>1, <3>2, <3>3
  <2> HIDE DEF W
  <2>5. RankingOf!SaveCut
    BY <2>3, <2>4, RankingSteps
  <2> QED BY <2>5 DEF RankingOf!RankingNext
<1>7. ASSUME UNCHANGED rankVars PROVE Goal
  <2>1. Current' = Current /\ OnFile' = OnFile
    BY <1>7 DEF rankVars, tableVars, Current, OnFile
  <2> QED BY <2>1, RankingSteps
<1> QED BY <1>2, <1>3, <1>4, <1>5, <1>6, <1>7 DEF RankNext

\* The hash table, the list and the file are one map from keys to values, which a
\* restart restores as it was written last, or as far as it was written: for any
\* number of keys, any hash and any size of the table.
THEOREM TablesAreMaps ==
    ASSUME HeadDeletes = FALSE
    PROVE  RankSpec => ImplementsRanking
<1>1. RankSpec => []RankInv
  BY TableTypes
<1>2. RankInit => RankingOf!RankingInit
  BY RankingBegins
<1>3. RankInv /\ [RankNext]_rankVars => [RankingOf!RankingNext]_(RankingOf!rankingVars)
  BY RankingGoesOn
<1> QED BY <1>1, <1>2, <1>3, PTL DEF RankSpec, ImplementsRanking, RankingOf!RankingSpec
==============================================================================

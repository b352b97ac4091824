------------------------------- MODULE MemLock -------------------------------
(***************************************************************************)
(* The lock table of the account server: saac/lock.c and lockUser() of     *)
(* saac/char.c.  Each of the 256 hash buckets is a list of nodes that is   *)
(* never shortened.  A node in use holds the lock of one account; a node   *)
(* that is not in use is recycled, and keeps the process number and, when  *)
(* it was released by DeleteMemLockServer, the strings of its last user.   *)
(* Entries stands for the 256 buckets, MoreNodes for the 32 nodes the code *)
(* allocates when a bucket is full, getHash for the hash of the cdkey.     *)
(***************************************************************************)
EXTENDS Integers, Sequences, FiniteSets

CONSTANTS CdKeys,     \* account names, none of them the empty string
          Servers,    \* names of game servers
          Processes,  \* process numbers of logins
          Entries,    \* indices of the hash buckets
          getHash,    \* bucket of an account
          MoreNodes   \* nodes added to a bucket that is full

ASSUME HashAssumption  == getHash \in [CdKeys -> Entries]
ASSUME NodesAssumption == MoreNodes \in Nat \ {0}
ASSUME NamesAssumption == /\ "" \notin CdKeys /\ IsFiniteSet(CdKeys)
                          /\ {"", "none"} \cap Servers = {}
                          /\ Processes \subseteq Nat

VARIABLES userlock,   \* the node list of each bucket
          ret         \* what the last call returned

vars == <<userlock, ret>>

Node == [use : BOOLEAN, cdkey : CdKeys \cup {""}, server : Servers \cup {""},
         process : Processes \cup {0}]

\* Mutant: a node whose process number was never set.
FreeNode_Unset == [use |-> FALSE, cdkey |-> "", server |-> "", process |-> -1]

\* A node as calloc leaves it.
FreeNode == [use |-> FALSE, cdkey |-> "", server |-> "", process |-> 0]

NewNodes == [i \in 1 .. MoreNodes |-> FreeNode]

\* What calls return: a number, and for a query the name of a server.
Code(c)  == [code |-> c, server |-> ""]
Found(s) == [code |-> 1, server |-> s]

EmptyTable == [e \in Entries |-> <<FreeNode>>]

Init == /\ userlock = EmptyTable
        /\ ret = Code(0)

----------------------------------------------------------------------------
\* The nodes in use for an account, and the account being locked at all.
Holds(n, k)        == n.use /\ n.cdkey = k
NodesIn(nodes, k)  == {i \in DOMAIN nodes : Holds(nodes[i], k)}
NodesOf(k)         == NodesIn(userlock[getHash[k]], k)
isMemLocked(k)     == NodesOf(k) # {}

\* Mutant: grows as soon as one node is in use, instead of when all are.
Full_AnyUsed(nodes) == \E i \in DOMAIN nodes : nodes[i].use

Full(nodes) == \A i \in DOMAIN nodes : nodes[i].use

\* i is the first node that is not in use.
FirstFree(nodes, i) == /\ ~ nodes[i].use
                       /\ \A j \in DOMAIN nodes : j < i => nodes[j].use

\* A full bucket first grows by MoreNodes; the first free node takes the lock.
Grown(nodes) == IF Full(nodes) THEN nodes \o NewNodes ELSE nodes

InsertMemLock(k, s, p) ==
    LET e     == getHash[k]
        nodes == Grown(userlock[e])
    IN  \E i \in DOMAIN nodes :
          /\ FirstFree(nodes, i)
          /\ userlock' = [userlock EXCEPT ![e] =
               [nodes EXCEPT ![i] = [use |-> TRUE, cdkey |-> k, server |-> s, process |-> p]]]

\* The first node in use for k is freed; its process number survives.
DeleteMemLock(k) ==
    LET e == getHash[k]
    IN  \E i \in NodesOf(k) :
          /\ \A j \in NodesOf(k) : i <= j
          /\ userlock' = [userlock EXCEPT ![e][i] =
               [use |-> FALSE, cdkey |-> "", server |-> "", process |-> userlock[e][i].process]]
          /\ ret' = Code(userlock[e][i].process)

----------------------------------------------------------------------------
\* Mutant: a lock that does not ask isLocked first.
LockUser_Unchecked(k, s, p) == InsertMemLock(k, s, p) /\ ret' = Code(0)

\* lockUser(..., lock = 1)
LockUser(k, s, p) ==
    \/ /\ isMemLocked(k)
       /\ ret' = Code(-1)
       /\ UNCHANGED userlock
    \/ /\ ~ isMemLocked(k)
       /\ InsertMemLock(k, s, p)
       /\ ret' = Code(0)

\* lockUser(..., lock = 0): returns the process number, or -1
UnlockUser(k) ==
    \/ /\ isMemLocked(k)
       /\ DeleteMemLock(k)
    \/ /\ ~ isMemLocked(k)
       /\ ret' = Code(-1)
       /\ UNCHANGED userlock

\* Only the use flag is cleared: the strings stay in the recycled node.
Released(n, s) == IF n.use /\ n.server = s THEN [n EXCEPT !.use = FALSE] ELSE n

\* Mutant: the walk over a bucket stops at the first lock it drops.
DeleteMemLockServer_FirstOnly(s) ==
    /\ userlock' = [e \in Entries |->
         [i \in DOMAIN userlock[e] |->
            IF \E j \in 1 .. i - 1 : userlock[e][j].use /\ userlock[e][j].server = s
            THEN userlock[e][i] ELSE Released(userlock[e][i], s)]]
    /\ UNCHANGED ret

DeleteMemLockServer(s) ==
    /\ userlock' = [e \in Entries |->
                      [i \in DOMAIN userlock[e] |-> Released(userlock[e][i], s)]]
    /\ UNCHANGED ret

\* GetMemLockServer and LockNode_getGname: server of the first node in use for k
GetMemLockServer(k) ==
    /\ \/ ~ isMemLocked(k) /\ ret' = Code(0)
       \/ \E i \in NodesOf(k) : /\ \A j \in NodesOf(k) : i <= j
                                /\ ret' = Found(userlock[getHash[k]][i].server)
    /\ UNCHANGED userlock

\* The table lives in memory only: a restart runs Lock_Init again.
Lock_Init == userlock' = EmptyTable /\ UNCHANGED ret

Next ==
    \/ \E k \in CdKeys, s \in Servers, p \in Processes : LockUser(k, s, p)
    \/ \E k \in CdKeys : UnlockUser(k)
    \/ \E k \in CdKeys : GetMemLockServer(k)
    \/ \E s \in Servers : DeleteMemLockServer(s)
    \/ Lock_Init

Spec == Init /\ [][Next]_vars

----------------------------------------------------------------------------
\* Every node is well formed and every bucket has at least its first node.
TypeOK ==
    /\ userlock \in [Entries -> Seq(Node)]
    /\ \A e \in Entries : Len(userlock[e]) > 0
    /\ ret \in [code : Processes \cup {-1, 0, 1}, server : Servers \cup {""}]

\* A node in use sits in the bucket of its account: a search never misses it.
InItsBucket ==
    \A e \in Entries : \A i \in DOMAIN userlock[e] :
        userlock[e][i].use => /\ userlock[e][i].cdkey \in CdKeys
                              /\ userlock[e][i].server \in Servers
                              /\ userlock[e][i].process \in Processes
                              /\ getHash[userlock[e][i].cdkey] = e

\* An account has at most one node in use, although InsertMemLock itself
\* never looks (its callers test isLocked) and nodes are recycled out of
\* order: were there two, one unlock would leave the account locked.
OneNodePerKey ==
    \A e \in Entries : \A i, j \in DOMAIN userlock[e] :
        /\ userlock[e][i].use /\ userlock[e][j].use
        /\ userlock[e][i].cdkey = userlock[e][j].cdkey
        => i = j

\* Released nodes are recycled before a bucket grows again: a bucket grows
\* only while it holds fewer nodes than it has accounts, so repeated logins
\* and logouts do not leak memory.
BucketBounded ==
    \A e \in Entries :
        \/ Len(userlock[e]) = 1
        \/ Len(userlock[e]) - MoreNodes < Cardinality({k \in CdKeys : getHash[k] = e})

\* The lock that a node list gives account k.
Unlocked == [server |-> "none", process |-> 0]
HolderIn(nodes, k) ==
    IF NodesIn(nodes, k) = {}
    THEN Unlocked
    ELSE LET n == nodes[CHOOSE i \in NodesIn(nodes, k) : TRUE]
         IN  [server |-> n.server, process |-> n.process]
HeldBy(k) == HolderIn(userlock[getHash[k]], k)

UL == INSTANCE UserLock WITH owner <- [k \in CdKeys |-> HeldBy(k)]

\* The hash table with recycled nodes is a map from accounts to holders: each
\* call returns and does what the map says, whatever was locked before.
ImplementsUserLock == UL!Spec
=============================================================================

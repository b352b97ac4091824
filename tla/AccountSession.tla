---------------------------- MODULE AccountSession ----------------------------
(***************************************************************************)
(* Logging in to Stone Age: game servers (gmsv) with their connections,    *)
(* the account server (saac) with its lock table and character files, and  *)
(* the TCP streams between them.  It models callfromcli.c, callfromac.c,   *)
(* net.c and char/char.c of gmsv and recv.c, char.c and main.c of saac, as *)
(* far as they decide who may be online with an account.                   *)
(*                                                                         *)
(* A connection is named by its fdid, which the code never reuses while a  *)
(* message about it can be on its way.  The lock table is the map that     *)
(* module MemLock implements.  A character is in the memory of a game      *)
(* server exactly while its connection is in state LOGIN.                  *)
(***************************************************************************)
EXTENDS Integers, Sequences, FiniteSets

CONSTANTS CdKeys,    \* accounts
          Servers,   \* game servers
          Conns,     \* fdids of a game server
          MaxQueue,  \* clients wait while a server's streams hold this many messages
          MaxConns,  \* connections that are in use at a time, of all servers
          Enabled    \* what clients do and what fails in an instance of the model

ASSUME QueueAssumption == {MaxQueue, MaxConns} \subseteq Nat \ {0}
ASSUME EnabledAssumption ==
    Enabled \subseteq {"List", "Logout", "Delete", "Create", "Periodic", "Crash", "CrashAC"}
ASSUME NamesAssumption == "none" \notin CdKeys \cup Servers

VARIABLES conn,     \* conn[g][c]: the connection c of game server g
          up,       \* the game servers that run
          gs,       \* the game servers that the account server is connected to
          lock,     \* the server that holds the lock of an account
          store,    \* the accounts that have a character file
          toAC,     \* the stream of each game server to the account server
          toGS,     \* and back
          forced    \* accounts whose lock was taken from a server that still needed it

vars == <<conn, up, gs, lock, store, toAC, toGS, forced>>

States == {"FREE", "NOTLOGIN", "WHILEDOWNLOADCHARLIST", "WHILELOGIN", "LOGIN",
           "WHILECREATE", "WHILECHARDELETE", "WHILELOGOUTSAVE", "WHILECANNOTLOGIN"}

Conn     == [state : States, key : CdKeys \cup {"none"}, close : BOOLEAN]
FreeConn == [state |-> "FREE", key |-> "none", close |-> FALSE]
NewConn  == [state |-> "NOTLOGIN", key |-> "none", close |-> FALSE]

(* Requests to the account server and its answers.  Answers to List, Save and *)
(* Delete move a connection on whether they report success or not.            *)
Request == [type : {"List", "Load", "Save", "SaveUnlock", "Delete", "Unlock"},
            key : CdKeys, id : Conns]
UCheckAnswer == [type : {"UCheck"}, key : CdKeys, online : BOOLEAN]
Answer  == [type : {"ListDone", "SaveDone", "DeleteDone"}, id : Conns]
           \cup [type : {"LoadDone", "UnlockDone"}, id : Conns, ok : BOOLEAN]
Order   == [type : {"UCheck", "Kick"}, key : CdKeys]

Req(t, k, c)   == [type |-> t, key |-> k, id |-> c]
Done(t, c)     == [type |-> t, id |-> c]
DoneOk(t, c, b) == [type |-> t, id |-> c, ok |-> b]
Kick(k)        == [type |-> "Kick", key |-> k]
UCheck(k)      == [type |-> "UCheck", key |-> k]

\* The messages in the sequence q, and those that name the connection c.
In(q)        == {q[i] : i \in DOMAIN q}
About(q, c)  == {m \in In(q) : "id" \in DOMAIN m /\ m.id = c}

Init == /\ conn = [g \in Servers |-> [c \in Conns |-> FreeConn]]
        /\ up = Servers
        /\ gs = Servers
        /\ lock = [k \in CdKeys |-> "none"]
        /\ store = CdKeys
        /\ toAC = [g \in Servers |-> <<>>]
        /\ toGS = [g \in Servers |-> <<>>]
        /\ forced = {}

----------------------------------------------------------------------------
(* The game server: its clients. *)

InUse(g, c)    == conn[g][c].state # "FREE"
Online(g, c)   == conn[g][c].state = "LOGIN"
SessionsOf(g, k) == {c \in Conns : Online(g, c) /\ conn[g][c].key = k}

\* The bound of the model: clients wait while a stream is congested.
Room(g) == /\ g \in up
           /\ \A h \in Servers : Len(toAC[h]) + Len(toGS[h]) < MaxQueue

SendAC(g, m)    == toAC' = [toAC EXCEPT ![g] = Append(@, m)]
SetState(g, c, s) == conn' = [conn EXCEPT ![g][c].state = s]

\* CONNECT_setCloseRequest, of each of the connections D
setCloseRequest(g, D) ==
    [c \in Conns |-> [conn[g][c] EXCEPT !.close = conn[g][c].close \/ c \in D]]

\* accept and initConnectOne: the connection gets an fdid of its own.
Accept(g, c) ==
    /\ Room(g)
    /\ ~ InUse(g, c)
    /\ Cardinality({gc \in Servers \X Conns : InUse(gc[1], gc[2])}) < MaxConns
    /\ About(toAC[g], c) \cup About(toGS[g], c) = {}
    /\ conn' = [conn EXCEPT ![g][c] = NewConn]
    /\ UNCHANGED <<up, gs, lock, store, toAC, toGS, forced>>

\* lssproto_ClientLogin_recv
ClientLogin(g, c, k) ==
    /\ Room(g)
    /\ conn[g][c].state = "NOTLOGIN"
    /\ conn' = [conn EXCEPT ![g][c].key = k]
    /\ UNCHANGED <<up, gs, lock, store, toAC, toGS, forced>>

\* Mutant: a client that still waits for an answer may ask.
Ask_Busy(g, c, request, state) ==
    /\ Room(g)
    /\ ~ Online(g, c)
    /\ conn[g][c].key # "none"
    /\ SetState(g, c, state)
    /\ SendAC(g, Req(request, conn[g][c].key, c))
    /\ UNCHANGED <<up, gs, lock, store, toGS, forced>>

\* A client that named its account and is not busy asks the account server.
Ask(g, c, request, state) ==
    /\ Room(g)
    /\ conn[g][c].state = "NOTLOGIN"
    /\ conn[g][c].key # "none"
    /\ SetState(g, c, state)
    /\ SendAC(g, Req(request, conn[g][c].key, c))
    /\ UNCHANGED <<up, gs, lock, store, toGS, forced>>

\* lssproto_CharLogin_recv
CharLogin(g, c) == Ask(g, c, "Load", "WHILELOGIN")

\* lssproto_CharDelete_recv
CharDelete(g, c) == Ask(g, c, "Delete", "WHILECHARDELETE")

\* lssproto_CreateNewChar_recv and CHAR_createNewChar: a save without unlock
CreateNewChar(g, c) == Ask(g, c, "Save", "WHILECREATE")

\* lssproto_CharList_recv: first asks every session of the account on this
\* server to close.
CharList(g, c) ==
    LET k == conn[g][c].key
    IN  /\ Room(g)
        /\ conn[g][c].state = "NOTLOGIN"
        /\ k # "none"
        /\ conn' = [conn EXCEPT ![g] = [setCloseRequest(g, SessionsOf(g, k))
                                          EXCEPT ![c].state = "WHILEDOWNLOADCHARLIST"]]
        /\ SendAC(g, Req("List", k, c))
        /\ UNCHANGED <<up, gs, lock, store, toGS, forced>>

\* lssproto_CharLogout_recv and CHAR_logout
CharLogout(g, c) ==
    /\ Room(g)
    /\ Online(g, c)
    /\ SetState(g, c, "WHILELOGOUTSAVE")
    /\ SendAC(g, Req("SaveUnlock", conn[g][c].key, c))
    /\ UNCHANGED <<up, gs, lock, store, toGS, forced>>

\* chardatasavecheck: the periodic save keeps the lock.
PeriodicSave(g, c) ==
    /\ Room(g)
    /\ Online(g, c)
    /\ SendAC(g, Req("Save", conn[g][c].key, c))
    /\ UNCHANGED <<conn, up, gs, lock, store, toGS, forced>>

\* CONNECT_endOne: only a connection with a character saves and unlocks.
EndOne(g, c) ==
    /\ conn' = [conn EXCEPT ![g][c] = FreeConn]
    /\ \/ Online(g, c) /\ SendAC(g, Req("SaveUnlock", conn[g][c].key, c))
       \/ ~ Online(g, c) /\ UNCHANGED toAC
    /\ UNCHANGED <<up, gs, lock, store, toGS, forced>>

\* The client goes away, in any state, or is timed out while it lists.
Disconnect(g, c) == Room(g) /\ InUse(g, c) /\ EndOne(g, c)

\* The turn of a connection in netloop that it was asked to close.
CloseTurn(g, c) == g \in up /\ InUse(g, c) /\ conn[g][c].close /\ EndOne(g, c)

----------------------------------------------------------------------------
(* The game server: answers and orders of the account server. *)

TakeGS(g) == toGS' = [toGS EXCEPT ![g] = Tail(@)]

\* getfdFromFdid: an answer for a connection that is gone is dropped.
Alive(g, m) == InUse(g, m.id)

ACCharList_recv(g, m) ==
    /\ m.type = "ListDone"
    /\ IF Alive(g, m) THEN SetState(g, m.id, "NOTLOGIN") ELSE UNCHANGED conn
    /\ UNCHANGED toAC

\* CHAR_login may fail on what it loaded: then the lock is given back.
ACCharLoad_recv(g, m) ==
    /\ m.type = "LoadDone"
    /\ \/ ~ Alive(g, m) /\ UNCHANGED <<conn, toAC>>
       \/ Alive(g, m) /\ ~ m.ok /\ SetState(g, m.id, "NOTLOGIN") /\ UNCHANGED toAC
       \/ Alive(g, m) /\ m.ok /\ SetState(g, m.id, "LOGIN") /\ UNCHANGED toAC
       \/ /\ Alive(g, m) /\ m.ok
          /\ SetState(g, m.id, "WHILECANNOTLOGIN")
          /\ SendAC(g, Req("Unlock", conn[g][m.id].key, m.id))

\* Mutant: only a client that logs out gets its state back.
ACCharSave_recv_LogoutOnly(g, m) ==
    /\ m.type = "SaveDone"
    /\ IF conn[g][m.id].state = "WHILELOGOUTSAVE"
       THEN SetState(g, m.id, "NOTLOGIN") ELSE UNCHANGED conn
    /\ UNCHANGED toAC

\* The answer to a save does not say which save it answers.
ACCharSave_recv(g, m) ==
    /\ m.type = "SaveDone"
    /\ IF conn[g][m.id].state \in {"WHILECREATE", "WHILELOGOUTSAVE"}
       THEN SetState(g, m.id, "NOTLOGIN") ELSE UNCHANGED conn
    /\ UNCHANGED toAC

ACCharDelete_recv(g, m) ==
    /\ m.type = "DeleteDone"
    /\ IF conn[g][m.id].state = "WHILECHARDELETE"
       THEN SetState(g, m.id, "NOTLOGIN") ELSE UNCHANGED conn
    /\ UNCHANGED toAC

\* A refused unlock is asked for again, unless the refusal says that the
\* account "hasn't been locked": no answer of the account server says so.
ACLock_recv(g, m) ==
    /\ m.type = "UnlockDone"
    /\ \/ /\ conn[g][m.id].state = "WHILECANNOTLOGIN" /\ m.ok
          /\ SetState(g, m.id, "NOTLOGIN")
          /\ UNCHANGED toAC
       \/ /\ conn[g][m.id].state = "WHILECANNOTLOGIN" /\ ~ m.ok
          /\ SendAC(g, Req("Unlock", conn[g][m.id].key, m.id))
          /\ UNCHANGED conn
       \/ conn[g][m.id].state # "WHILECANNOTLOGIN" /\ UNCHANGED <<conn, toAC>>

\* A connection counts as logged in from its first request on.
getfdFromCdkeyWithLogin(g, k) ==
    {c \in Conns : InUse(g, c) /\ conn[g][c].state # "NOTLOGIN" /\ conn[g][c].key = k}

ACUCheck_recv(g, m) ==
    /\ m.type = "UCheck"
    /\ SendAC(g, [type |-> "UCheck", key |-> m.key,
                  online |-> getfdFromCdkeyWithLogin(g, m.key) # {}])
    /\ UNCHANGED conn

\* Mutant: only a connection that is not yet online is asked to close.
ACKick_recv_Busy(g, m) ==
    /\ m.type = "Kick"
    /\ conn' = [conn EXCEPT ![g] = setCloseRequest(g,
         {c \in Conns : InUse(g, c) /\ ~ Online(g, c) /\ conn[g][c].key = m.key})]
    /\ UNCHANGED toAC

\* Every connection of the account is asked to close, in whatever state.
ACKick_recv(g, m) ==
    /\ m.type = "Kick"
    /\ conn' = [conn EXCEPT ![g] = setCloseRequest(g, {c \in Conns : InUse(g, c) /\ conn[g][c].key = m.key})]
    /\ UNCHANGED toAC

HandleGS(g) ==
    /\ g \in up
    /\ toGS[g] # <<>>
    /\ TakeGS(g)
    /\ LET m == Head(toGS[g])
       IN  \/ ACCharList_recv(g, m) \/ ACCharLoad_recv(g, m) \/ ACCharSave_recv(g, m)
           \/ ACCharDelete_recv(g, m) \/ ACLock_recv(g, m)
           \/ ACUCheck_recv(g, m) \/ ACKick_recv(g, m)
    /\ UNCHANGED <<up, gs, lock, store, forced>>

----------------------------------------------------------------------------
(* The account server. *)

\* What the account server sends to each server; a server that has crashed
\* does not get it.
Reply(g, m)   == [h \in Servers |-> IF h = g THEN <<m>> ELSE <<>>]
KickAll(k)    == [h \in Servers |-> IF h \in gs THEN <<Kick(k)>> ELSE <<>>]
KickBut(g, k) == [h \in Servers |-> IF h \in gs /\ h # g THEN <<Kick(k)>> ELSE <<>>]
a ++ b        == [h \in Servers |-> a[h] \o b[h]]
Nothing       == [h \in Servers |-> <<>>]

SendGS(out) == toGS' = [h \in Servers |-> IF h \in up THEN toGS[h] \o out[h] ELSE toGS[h]]

\* g needs its lock of k: an account is online, or about to be, or is still
\* to be saved and unlocked.
Needs(g, k) ==
    \/ SessionsOf(g, k) # {}
    \/ \E c \in Conns : /\ InUse(g, c) /\ conn[g][c].key = k
                        /\ DoneOk("LoadDone", c, TRUE) \in In(toGS[g])
    \/ \E m \in In(toAC'[g]) : m.type = "SaveUnlock" /\ m.key = k

\* DeleteMemLock and lockUser(..., 0) do not ask whose lock it is.
Unlocked(k) ==
    /\ lock' = [lock EXCEPT ![k] = "none"]
    /\ forced' = IF lock[k] \in Servers /\ Needs(lock[k], k) THEN forced \cup {k} ELSE forced

isLocked(k) == lock[k] # "none"

\* charLoadCallback: whoever holds the lock loses it and is kicked.  The
\* unlock comes first, so that checkGSUCheck finds no lock and does nothing.
charLoad_locked(g, m) ==
    /\ isLocked(m.key)
    /\ SendGS(Reply(g, DoneOk("LoadDone", m.id, FALSE)) ++ KickAll(m.key))
    /\ Unlocked(m.key)

charLoad_failed(g, m) ==
    /\ ~ isLocked(m.key)
    /\ SendGS(Reply(g, DoneOk("LoadDone", m.id, FALSE)))
    /\ UNCHANGED <<lock, forced>>

\* Mutants: the other servers are not told; the account is not locked.
charLoad_done_NoKick(g, m) ==
    /\ ~ isLocked(m.key)
    /\ m.key \in store
    /\ lock' = [lock EXCEPT ![m.key] = g]
    /\ SendGS(Reply(g, DoneOk("LoadDone", m.id, TRUE)))
    /\ UNCHANGED forced

charLoad_done_NoLock(g, m) ==
    /\ ~ isLocked(m.key)
    /\ m.key \in store
    /\ SendGS(Reply(g, DoneOk("LoadDone", m.id, TRUE)) ++ KickBut(g, m.key))
    /\ UNCHANGED <<lock, forced>>

\* The account is locked for g, and every other server told to kick it.
charLoad_done(g, m) ==
    /\ ~ isLocked(m.key)
    /\ m.key \in store
    /\ lock' = [lock EXCEPT ![m.key] = g]
    /\ SendGS(Reply(g, DoneOk("LoadDone", m.id, TRUE)) ++ KickBut(g, m.key))
    /\ UNCHANGED forced

charLoadCallback(g, m) ==
    /\ m.type = "Load"
    /\ charLoad_locked(g, m) \/ charLoad_failed(g, m) \/ charLoad_done(g, m)
    /\ UNCHANGED store

\* charSave: unlocks first, and may then fail to write the file.
charSave(g, m) ==
    /\ m.type \in {"Save", "SaveUnlock"}
    /\ IF m.type = "SaveUnlock" THEN Unlocked(m.key) ELSE UNCHANGED <<lock, forced>>
    /\ store' \in {store, store \cup {m.key}}
    /\ SendGS(Reply(g, Done("SaveDone", m.id)))

\* checkGSUCheck: asks the server that holds the lock whether it needs it; the
\* lock of a server that is not connected is dropped.
charList_locked(g, m) ==
    /\ isLocked(m.key)
    /\ IF lock[m.key] \in gs
       THEN /\ SendGS(Reply(g, Done("ListDone", m.id)) ++ Reply(lock[m.key], UCheck(m.key)))
            /\ UNCHANGED <<lock, forced>>
       ELSE /\ SendGS(Reply(g, Done("ListDone", m.id)))
            /\ Unlocked(m.key)

charList_done(g, m) ==
    /\ ~ isLocked(m.key)
    /\ SendGS(Reply(g, Done("ListDone", m.id)))
    /\ UNCHANGED <<lock, forced>>

charListCallback(g, m) ==
    /\ m.type = "List"
    /\ charList_locked(g, m) \/ charList_done(g, m)
    /\ UNCHANGED store

\* charDeleteCallback: asks no lock; the file may be missing or stay.
charDeleteCallback(g, m) ==
    /\ m.type = "Delete"
    /\ store' \in {store, store \ {m.key}}
    /\ SendGS(Reply(g, Done("DeleteDone", m.id)))
    /\ UNCHANGED <<lock, forced>>

\* saacproto_ACLock_recv with lock = UNLOCK
Lock_recv(g, m) ==
    /\ m.type = "Unlock"
    /\ SendGS(Reply(g, DoneOk("UnlockDone", m.id, isLocked(m.key))))
    /\ Unlocked(m.key)
    /\ UNCHANGED store

\* saacproto_ACUCheck_recv: an unlock or a kick of the account, whoever holds it now.
UCheck_recv(g, m) ==
    /\ m.type = "UCheck"
    /\ \/ m.online /\ SendGS(KickAll(m.key)) /\ UNCHANGED <<lock, forced>>
       \/ ~ m.online /\ SendGS(Nothing) /\ Unlocked(m.key)
    /\ UNCHANGED store

TakeAC(g) == toAC' = [toAC EXCEPT ![g] = Tail(@)]

\* One line of a server's stream is dispatched at a time.
HandleAC(g) ==
    /\ g \in gs
    /\ toAC[g] # <<>>
    /\ TakeAC(g)
    /\ LET m == Head(toAC[g])
       IN  \/ charLoadCallback(g, m) \/ charSave(g, m) \/ charListCallback(g, m)
           \/ charDeleteCallback(g, m) \/ Lock_recv(g, m) \/ UCheck_recv(g, m)
    /\ UNCHANGED <<conn, up, gs>>

----------------------------------------------------------------------------
(* Crashes and restarts. *)

\* A game server dies: what it wrote last may not have left its buffer.
Crash(g) ==
    /\ g \in up
    /\ up' = up \ {g}
    /\ conn' = [conn EXCEPT ![g] = [c \in Conns |-> FreeConn]]
    /\ toGS' = [toGS EXCEPT ![g] = <<>>]
    /\ \E n \in 0 .. Len(toAC[g]) : toAC' = [toAC EXCEPT ![g] = SubSeq(@, 1, n)]
    /\ UNCHANGED <<gs, lock, store, forced>>

\* logout_game_server, at the end of the stream: the locks stay.
logout_game_server(g) ==
    /\ g \in gs \ up
    /\ toAC[g] = <<>>
    /\ gs' = gs \ {g}
    /\ UNCHANGED <<conn, up, lock, store, toAC, toGS, forced>>

\* login_game_server: a server that starts gets its old locks removed.
login_game_server(g) ==
    /\ g \notin up \cup gs
    /\ up' = up \cup {g}
    /\ gs' = gs \cup {g}
    /\ lock' = [k \in CdKeys |-> IF lock[k] = g THEN "none" ELSE lock[k]]
    /\ UNCHANGED <<conn, store, toAC, toGS, forced>>

\* The account server dies: every game server exits when it loses the stream,
\* and the lock table starts empty.
CrashAC ==
    /\ up' = {} /\ gs' = {}
    /\ conn' = [g \in Servers |-> [c \in Conns |-> FreeConn]]
    /\ lock' = [k \in CdKeys |-> "none"]
    /\ toAC' = [g \in Servers |-> <<>>]
    /\ toGS' = [g \in Servers |-> <<>>]
    /\ UNCHANGED <<store, forced>>

----------------------------------------------------------------------------
Client(g, c) ==
    \/ Accept(g, c)
    \/ \E k \in CdKeys : ClientLogin(g, c, k)
    \/ "List" \in Enabled /\ CharList(g, c)
    \/ CharLogin(g, c)
    \/ "Logout" \in Enabled /\ CharLogout(g, c)
    \/ "Delete" \in Enabled /\ CharDelete(g, c)
    \/ "Create" \in Enabled /\ CreateNewChar(g, c)
    \/ "Periodic" \in Enabled /\ PeriodicSave(g, c)
    \/ Disconnect(g, c)

Next ==
    \/ \E g \in Servers, c \in Conns : Client(g, c) \/ CloseTurn(g, c)
    \/ \E g \in Servers : HandleGS(g) \/ HandleAC(g)
    \/ "Crash" \in Enabled /\ \E g \in Servers : Crash(g)
    \/ \E g \in Servers : logout_game_server(g) \/ login_game_server(g)
    \/ "CrashAC" \in Enabled /\ CrashAC

Spec == Init /\ [][Next]_vars

\* Both servers poll every stream and every connection in turn (netloop, and
\* the main loop of saac), so what has arrived is handled and a connection that
\* is to be closed gets its turn.  Nothing is assumed of clients or crashes.
Fairness == /\ \A g \in Servers : WF_vars(HandleGS(g)) /\ WF_vars(HandleAC(g))
            /\ \A g \in Servers, c \in Conns : WF_vars(CloseTurn(g, c))

FairSpec == Spec /\ Fairness

----------------------------------------------------------------------------
TypeOK ==
    /\ conn \in [Servers -> [Conns -> Conn]]
    /\ up \subseteq Servers
    /\ gs \subseteq Servers
    /\ lock \in [CdKeys -> Servers \cup {"none"}]
    /\ store \subseteq CdKeys
    /\ \A g \in Servers : In(toAC[g]) \subseteq Request \cup UCheckAnswer
    /\ \A g \in Servers : In(toGS[g]) \subseteq Answer \cup Order
    /\ forced \subseteq CdKeys

\* The handlers of list and load answers do not look at the state of the
\* connection they move: they are right only because a connection has one
\* such request under way at a time, and waits for it.
Outstanding(g, c, request, answer) ==
    {m \in About(toAC[g], c) : m.type = request} \cup {m \in About(toGS[g], c) : m.type = answer}

ReplyFindsItsState ==
    \A g \in Servers, c \in Conns : InUse(g, c) =>
        /\ Outstanding(g, c, "List", "ListDone") # {} => conn[g][c].state = "WHILEDOWNLOADCHARLIST"
        /\ Outstanding(g, c, "Load", "LoadDone") # {} => conn[g][c].state = "WHILELOGIN"

\* A session that is being closed, or will be when an order on its way arrives.
Doomed(g, c) == conn[g][c].close \/ Kick(conn[g][c].key) \in In(toGS[g])

\* An account is never online on two servers but for the moment it takes the
\* kick to arrive, whatever happened to its lock.
KickedApart ==
    \A k \in CdKeys : \A g, h \in Servers : g # h =>
        \A c \in SessionsOf(g, k), d \in SessionsOf(h, k) : Doomed(g, c) \/ Doomed(h, d)

\* As long as no lock was taken from a server that still needed it, an account
\* is online at most once, with its lock held by that server; and then no save of
\* another server is on its way that could overwrite it.
LockedWhileOnline ==
    \A k \in CdKeys \ forced : \A g \in Servers : SessionsOf(g, k) # {} =>
        /\ lock[k] = g
        /\ Cardinality(SessionsOf(g, k)) = 1
        /\ \A h \in Servers \ {g} : \A m \in In(toAC[h]) : ~ (m.type = "SaveUnlock" /\ m.key = k)

\* Sessions of one account on several servers do not last: again and again it
\* has sessions on one server at most.
DuplicatesEnd ==
    \A k \in CdKeys : []<>(\A g, h \in Servers : SessionsOf(g, k) # {} /\ SessionsOf(h, k) # {} => g = h)

\* Every request is answered: a busy connection becomes free to ask again,
\* comes online, is refused or is gone, again and again.
Unanswered == {"WHILEDOWNLOADCHARLIST", "WHILELOGIN", "WHILECREATE", "WHILECHARDELETE", "WHILELOGOUTSAVE"}

RequestsAnswered == \A g \in Servers, c \in Conns : []<>(conn[g][c].state \notin Unanswered)

----------------------------------------------------------------------------
(* What the source says of the code, and the code does not do. *)

\* net.c of gmsv looks at connections that are not NOTLOGIN to "avoid duplicated
\* login": two connections of one game server are not both online with an account,
\* unless one of them is about to be closed.
NoDuplicatedLogin ==
    \A k \in CdKeys, g \in Servers : \A c, d \in SessionsOf(g, k) :
        c = d \/ Doomed(g, c) \/ Doomed(g, d)

\* callfromac.c of gmsv stops asking for an unlock when it is told that the
\* account "hasn't been locked": a refused login ends.
RefusedLoginEnds ==
    \A g \in Servers, c \in Conns :
        conn[g][c].state = "WHILECANNOTLOGIN" ~> conn[g][c].state # "WHILECANNOTLOGIN"
=============================================================================

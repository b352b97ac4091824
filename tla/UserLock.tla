------------------------------ MODULE UserLock ------------------------------
(***************************************************************************)
(* What the account server's lock table promises its callers: a partial    *)
(* map from accounts (cdkeys) to the game server that locked the account   *)
(* and the process number of that login.  The table forgets everything     *)
(* when the account server restarts.  ret is what the last call returned.  *)
(***************************************************************************)
EXTENDS Integers

CONSTANTS CdKeys, Servers, Processes

VARIABLES owner, ret

vars == <<owner, ret>>

\* No game server holds the account.
Unlocked == [server |-> "none", process |-> 0]

\* A call returns a number, a query the name of a server.
Code(c)  == [code |-> c, server |-> ""]
Found(s) == [code |-> 1, server |-> s]

NoLocks == [k \in CdKeys |-> Unlocked]

Init == /\ owner = NoLocks
        /\ ret = Code(0)

\* Locking an account that is held by anyone, the caller included, fails.
Lock(k, s, p) ==
    \/ /\ owner[k] = Unlocked
       /\ owner' = [owner EXCEPT ![k] = [server |-> s, process |-> p]]
       /\ ret' = Code(0)
    \/ /\ owner[k] # Unlocked
       /\ ret' = Code(-1)
       /\ UNCHANGED owner

\* Anyone may unlock; the caller learns the process number of the holder.
Unlock(k) ==
    /\ owner' = [owner EXCEPT ![k] = Unlocked]
    /\ ret' = Code(IF owner[k] = Unlocked THEN -1 ELSE owner[k].process)

\* Every lock of a game server is dropped, and no other.
UnlockServer(s) ==
    /\ owner' = [k \in CdKeys |-> IF owner[k].server = s THEN Unlocked ELSE owner[k]]
    /\ UNCHANGED ret

\* The name of the server that holds the account, if any.
Query(k) ==
    /\ ret' = IF owner[k] = Unlocked THEN Code(0) ELSE Found(owner[k].server)
    /\ UNCHANGED owner

Restart == owner' = NoLocks /\ UNCHANGED ret

Next ==
    \/ \E k \in CdKeys, s \in Servers, p \in Processes : Lock(k, s, p)
    \/ \E k \in CdKeys : Unlock(k) \/ Query(k)
    \/ \E s \in Servers : UnlockServer(s)
    \/ Restart

Spec == Init /\ [][Next]_vars
=============================================================================

---------------------------- MODULE MCSessionLive ----------------------------
(* What must come to an end: requests of sessions, turns of battles, and a    *)
(* game server that closes, each by itself; topic says which.                 *)
EXTENDS AccountSession, Battle, Shutdown

VARIABLE topic

allVars == <<vars, battleVars, shutdownVars, topic>>

MCInit == Init /\ BattleInit /\ ShutdownInit /\ topic \in {"session", "battle", "closing"}

MCNext ==
    /\ UNCHANGED topic
    /\ \/ topic = "session" /\ Next /\ UNCHANGED <<battleVars, shutdownVars>>
       \/ topic = "battle" /\ BattleNext /\ UNCHANGED <<vars, shutdownVars>>
       \/ topic = "closing" /\ ShutdownNext /\ UNCHANGED <<vars, battleVars>>

Session(A) == topic = "session" /\ A /\ UNCHANGED <<battleVars, shutdownVars, topic>>
Fight(A)   == topic = "battle" /\ A /\ UNCHANGED <<vars, shutdownVars, topic>>
Close(A)   == topic = "closing" /\ ~ down /\ A /\ UNCHANGED <<vars, battleVars, topic>>

\* Fairness of AccountSession, BattleFairness and ShutdownFairness, where these run
MCFairSpec ==
    /\ MCInit /\ [][MCNext]_allVars
    /\ \A g \in Servers : /\ WF_allVars(Session(HandleGS(g))) /\ WF_allVars(Session(HandleAC(g)))
                         /\ \A c \in Conns : WF_allVars(Session(CloseTurn(g, c)))
    /\ \A b \in Battles :
          /\ WF_allVars(Fight(BATTLE_Loop(b)))
          /\ \A n \in 0 .. Turns - 1 : WF_allVars(Fight(turn[b] = n /\ LateTurn(b)))
    /\ WF_allVars(Close(ShutdownProc)) /\ WF_allVars(Close(Minute))
    /\ WF_allVars(Close(Write)) /\ WF_allVars(Close(ACCharSave_recv_Close))
==============================================================================

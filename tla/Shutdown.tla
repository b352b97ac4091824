------------------------------- MODULE Shutdown -------------------------------
(***************************************************************************)
(* How a game server closes: the countdown and closeAllConnectionandSaveData *)
(* (gmsv/main.c, gmsv/net.c), the commands of the system information       *)
(* character (gmsv/npc/npc_sysinfo.c) and the answers to the last saves    *)
(* (gmsv/callfromac.c).                                                    *)
(*                                                                         *)
(* The saves of all characters go over one connection to the account       *)
(* server, first into its write buffer (unsent) and from there, in order,  *)
(* out and back as answers (sent).  An answer names its connection only.   *)
(***************************************************************************)
EXTENDS Integers, Sequences, FiniteSets, SequencesExt

CONSTANTS Clients,      \* places for connections of clients
          MaxMinutes,   \* bound of this model: minutes of a countdown
          MaxCommands,  \* bound of this model: commands of countdown and of the character
          MaxSaves      \* bound of this model: saves without an answer

ASSUME ShutdownAssumption ==
    /\ IsFiniteSet(Clients) /\ "gone" \notin Clients
    /\ MaxMinutes \in Nat /\ MaxCommands \in Nat /\ MaxSaves \in Nat

VARIABLES link,      \* state of a connection; CLOSING is WHILECLOSEALLSOCKETSSAVE
          unsent, sent,  \* saves: the connection and whether it is the last one
          accept,    \* acceptmore
          num,       \* closeallsocketnum
          armed,     \* shutdown > 0
          limit,     \* limittime
          ago,       \* minutes since shutdown was set
          dsp,       \* dsptime
          noted, stoptime, \* b_first_shutdown and i_shutdown_time
          said,      \* "all characters are saved" has been printed
          down,      \* the process has ended
          commands   \* bound of this model

countVars == <<armed, limit, ago, dsp>>
noteVars  == <<noted, stoptime>>
closeVars == <<link, unsent, sent, num>>
shutdownVars == <<countVars, closeVars, accept, noteVars, said, down, commands>>

Minutes == -1 .. MaxMinutes

Saves == [of : Clients \cup {"gone"}, last : BOOLEAN]

ShutdownInit ==
    /\ link = [c \in Clients |-> "FREE"]
    /\ unsent = <<>> /\ sent = <<>>
    /\ accept = 1 /\ num = -1
    /\ armed = FALSE /\ limit = 0 /\ ago = 0 /\ dsp = 0
    /\ noted = FALSE /\ stoptime = 0 /\ said = FALSE /\ down = FALSE
    /\ commands = 0

SaveRoom == Len(unsent) + Len(sent) < MaxSaves

\* Answers to saves of a connection that is gone find nobody: the next one on
\* the same socket has another fdid.
Forget(q, c) == [i \in DOMAIN q |-> IF q[i].of = c THEN [q[i] EXCEPT !.of = "gone"] ELSE q[i]]

\* initConnectOne
AcceptClient(c) ==
    /\ accept > 0
    /\ link[c] = "FREE"
    /\ link' = [link EXCEPT ![c] = "NOTLOGIN"]
    /\ unsent' = Forget(unsent, c) /\ sent' = Forget(sent, c)
    /\ UNCHANGED <<num, countVars, accept, noteVars, said, down, commands>>

\* What module AccountSession says of logging in is left out here.
Login(c) ==
    /\ link[c] = "NOTLOGIN"
    /\ link' = [link EXCEPT ![c] = "LOGIN"]
    /\ UNCHANGED <<unsent, sent, num, countVars, accept, noteVars, said, down, commands>>

Save(c, last) == unsent' = Append(unsent, [of |-> c, last |-> last])

\* CHAR_logout for the client, CONNECT_endOne and chardatasavecheck
Leave(c, to) ==
    /\ link[c] = "LOGIN" /\ SaveRoom
    /\ link' = [link EXCEPT ![c] = to]
    /\ Save(c, to # "LOGIN")
    /\ UNCHANGED <<sent, num, countVars, accept, noteVars, said, down, commands>>

Drop(c) ==
    /\ link[c] \in {"NOTLOGIN", "WHILELOGOUTSAVE"}
    /\ link' = [link EXCEPT ![c] = "FREE"]
    /\ UNCHANGED <<unsent, sent, num, countVars, accept, noteVars, said, down, commands>>

----------------------------------------------------------------------------
(* Closing. *)

LoggedIn  == {c \in Clients : link[c] = "LOGIN"}
Closing == {c \in Clients : link[c] = "CLOSING"}

\* Mutant: the counter goes on from where it is.
CountClosing_NoReset == num' = num + Cardinality(LoggedIn)

\* closeallsocketnum is set to 0 and counted up by those that are logged in.
CountClosing == num' = Cardinality(LoggedIn)

\* closeAllConnectionandSaveData.  All connections are ended, those that are
\* logged in save and wait.  One that waits already is ended for good, and
\* its buffers are freed again, which the library answers with an abort.
closeAllConnectionandSaveData ==
    /\ CountClosing
    /\ link' = [c \in Clients |-> IF link[c] = "LOGIN" THEN "CLOSING" ELSE "FREE"]
    /\ \E order \in SetToSeqs(LoggedIn) :
         unsent' = unsent \o [i \in 1 .. Len(order) |-> [of |-> order[i], last |-> TRUE]]
    /\ accept' = IF LoggedIn = {} THEN -1 ELSE 0
    /\ down' = (Closing # {})
    /\ UNCHANGED sent

Command ==
    /\ commands < MaxCommands
    /\ commands' = commands + 1

\* lssproto_Shutdown_recv: any client may send it, whoever is logged in.
Shutdown_recv(min) ==
    /\ Command
    /\ \E c \in Clients : link[c] \notin {"FREE", "CLOSING"}
    /\ limit' = min /\ armed' = TRUE /\ ago' = 0 /\ dsp' = 0
    /\ UNCHANGED <<closeVars, accept, noteVars, said, down>>

\* NPC_Sysinfo_Msg_allowAccept, NPC_Sysinfo_Msg_denyAccept
Sysinfo_Accept(a) ==
    /\ Command
    /\ LoggedIn # {}
    /\ accept' = a
    /\ UNCHANGED <<closeVars, countVars, noteVars, said, down>>

NPC_Sysinfo_Msg_closeallsockets ==
    /\ Command
    /\ LoggedIn # {}
    /\ closeAllConnectionandSaveData
    /\ UNCHANGED <<countVars, noteVars, said>>

\* Minutes left, hun in ShutdownProc
Hun == limit - ago

\* Mutant: the countdown closes the server only when it also says so.
ShutdownProc_Told ==
    /\ armed /\ Hun # dsp
    /\ \/ /\ Hun # 0
          /\ dsp' = Hun
          /\ accept' = IF Hun = 1 THEN 0 ELSE accept
          /\ UNCHANGED <<closeVars, armed, limit, ago, noteVars, said, down, commands>>
       \/ /\ Hun = 0
          /\ closeAllConnectionandSaveData
          /\ armed' = FALSE /\ limit' = 0 /\ dsp' = 0
          /\ UNCHANGED <<ago, noteVars, said, commands>>

ShutdownProc ==
    /\ armed
    /\ \/ /\ Hun # 0 /\ Hun # dsp
          /\ dsp' = Hun
          /\ accept' = IF Hun = 1 THEN 0 ELSE accept
          /\ UNCHANGED <<closeVars, armed, limit, ago, noteVars, said, down, commands>>
       \/ /\ Hun = 0
          /\ closeAllConnectionandSaveData
          /\ armed' = FALSE /\ limit' = 0 /\ dsp' = 0
          /\ UNCHANGED <<ago, noteVars, said, commands>>

\* A minute passes.  The main loop runs in every minute; one that missed the
\* minute 0 would never close.  Negative minutes are not counted further.
Minute ==
    /\ armed /\ Hun > 0 /\ Hun = dsp
    /\ ago' = ago + 1
    /\ UNCHANGED <<closeVars, armed, limit, dsp, accept, noteVars, said, down, commands>>

\* netloop_faster notes the limit of the first shutdown it comes to see.
NoteStopTime ==
    /\ accept = 0 /\ ~ noted
    /\ noted' = TRUE /\ stoptime' = limit
    /\ UNCHANGED <<closeVars, countVars, accept, said, down, commands>>

----------------------------------------------------------------------------
(* The account server. *)

Write ==
    /\ unsent # <<>>
    /\ sent' = Append(sent, Head(unsent)) /\ unsent' = Tail(unsent)
    /\ UNCHANGED <<link, num, countVars, accept, noteVars, said, down, commands>>

\* saacproto_ACCharSave_recv during a shutdown: any save will do.
LastSaved(c) ==
    /\ link' = [link EXCEPT ![c] = "FREE"]
    /\ num' = num - 1
    /\ accept' = IF num = 1 THEN -1 ELSE accept
    /\ said' = (said \/ num = 1)
    /\ down' = (num = 1 /\ stoptime = 1)

ACCharSave_recv_Close ==
    /\ sent # <<>>
    /\ sent' = Tail(sent)
    /\ LET c == Head(sent).of
       IN  \/ c \in Closing /\ LastSaved(c)
           \/ /\ c \notin Closing
              /\ link' = [d \in Clients |-> IF d = c /\ link[d] = "WHILELOGOUTSAVE" THEN "NOTLOGIN" ELSE link[d]]
              /\ UNCHANGED <<num, accept, said, down>>
    /\ UNCHANGED <<unsent, countVars, noteVars, commands>>

\* The game server ends when it loses the account server.
LoseAC ==
    /\ down' = TRUE
    /\ UNCHANGED <<closeVars, countVars, accept, noteVars, said, commands>>

StaysDown == down /\ UNCHANGED shutdownVars

Running ==
    /\ ~ down
    /\ \/ \E c \in Clients :
            \/ AcceptClient(c)
            \/ Login(c)
            \/ \E to \in {"LOGIN", "WHILELOGOUTSAVE", "FREE"} : Leave(c, to)
            \/ Drop(c)
       \/ \E min \in Minutes : Shutdown_recv(min)
       \/ \E a \in {0, 1} : Sysinfo_Accept(a)
       \/ NPC_Sysinfo_Msg_closeallsockets
       \/ ShutdownProc
       \/ Minute
       \/ NoteStopTime
       \/ Write
       \/ ACCharSave_recv_Close
       \/ LoseAC

ShutdownNext == Running \/ StaysDown

ShutdownSpec == ShutdownInit /\ [][ShutdownNext]_shutdownVars

\* The main loop runs and time passes; what is in the buffer is written and
\* the account server answers.
ShutdownFairness ==
    /\ WF_shutdownVars(~ down /\ ShutdownProc)
    /\ WF_shutdownVars(~ down /\ Minute)
    /\ WF_shutdownVars(~ down /\ Write)
    /\ WF_shutdownVars(~ down /\ ACCharSave_recv_Close)

----------------------------------------------------------------------------
ShutdownTypeOK ==
    /\ link \in [Clients -> {"FREE", "NOTLOGIN", "LOGIN", "WHILELOGOUTSAVE", "CLOSING"}]
    /\ unsent \in Seq(Saves) /\ sent \in Seq(Saves)
    /\ accept \in {-1, 0, 1} /\ num \in -1 .. Cardinality(Clients)
    /\ armed \in BOOLEAN /\ limit \in Minutes /\ ago \in Nat /\ dsp \in Int
    /\ noted \in BOOLEAN /\ stoptime \in Minutes /\ said \in BOOLEAN /\ down \in BOOLEAN
    /\ commands \in 0 .. MaxCommands

\* The counter of closeallsocketnum is the number of connections that wait for
\* their last save, however often the server is told to close, while answers
\* to earlier saves arrive: it neither runs past 0 nor stays above it.  Every
\* one that waits has a save on its way whose answer will free it, and when the
\* server shows that it is closed nobody is online, comes in or waits.
CountsTheClosing ==
    ~ down =>
        /\ num # -1 => num = Cardinality(Closing)
        /\ \A c \in Closing : \E s \in ToSet(unsent) \cup ToSet(sent) : s.of = c
        /\ accept = -1 => \A c \in Clients : link[c] = "FREE"

\* A countdown comes to its end, with the server closed or its process down, unless
\* another command replaces it by one that began below zero.
ShutdownEnds == armed /\ limit >= 0 ~> (accept = -1 \/ down \/ limit < 0)

----------------------------------------------------------------------------
(* What the source says of the code, and the code does not do. *)

\* callfromac.c prints "all characters are saved" when the counter reaches 0:
\* then no last save is still without its answer.
AllSaved == said => \A s \in ToSet(unsent) \cup ToSet(sent) : ~ s.last
===============================================================================

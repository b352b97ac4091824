-------------------------------- MODULE Mail ---------------------------------
(* Mail between characters.  The account server keeps every mail in memory    *)
(* and in a file, tells all game servers of it, and drops it when one says    *)
(* that the addressee has it, or after an hour; a login asks for all mail of  *)
(* the character.  saac/mail.c, saac/recv.c, gmsv/char/addressbook.c          *)
EXTENDS Integers, Sequences, FiniteSets

CONSTANTS
    People,     \* characters
    Hosts,      \* game servers
    Knows,      \* the pairs <<c, d>> where d has the card of c
    MaxMails,   \* bound on the mails the account server accepts
    MaxLogins   \* bound on logins and crashes

ASSUME MailAssumption == "none" \notin Hosts /\ MaxMails \in Nat /\ MaxLogins \in Nat

VARIABLES
    isOn,       \* the game server a character plays on, NoHost if none
    using,      \* the characters whose account is locked
    mailbuf,    \* the mails in memory, by message id
    mailFiles,  \* the mails in files, by message id
    mailId,     \* the file mail_id: the next message id
    upMail, downMail,   \* messages of each game server to and from the account server
    had,        \* history: the ids of the mails that reached their addressee
    logins

mailVars == <<isOn, using, mailbuf, mailFiles, mailId, upMail, downMail, had, logins>>

NoHost == "none"
System == "system"                     \* ADDRESSBOOK_SYSTEM, the sender of a return
MailIds == 1..MaxMails

Letter == [from : People \cup {System}, to : People]
Entry == [from : People \cup {System}, to : People, state : {"NEWMESSAGE", "WAIT_ACK"}, old : BOOLEAN]
Up == [t : {"Message"}, from : People \cup {System}, to : People]
        \cup [t : {"MessageAck"}, to : People, id : MailIds] \cup [t : {"MessageFlush", "save"}, to : People]
Down == [from : People \cup {System}, to : People, id : MailIds]

Without(f, S) == [m \in DOMAIN f \ S |-> f[m]]
With(f, m, x) == [n \in DOMAIN f \cup {m} |-> IF n = m THEN x ELSE f[n]]
Post(h, msgs) == upMail' = [upMail EXCEPT ![h] = @ \o msgs]
Delivery(m) == [from |-> mailbuf[m].from, to |-> mailbuf[m].to, id |-> m]

\* The mails on their way to the account server
Letters == UNION {{h} \X {i \in DOMAIN upMail[h] : upMail[h][i].t = "Message"} : h \in Hosts}

MailInit ==
    /\ isOn = [c \in People |-> NoHost] /\ using = {}
    /\ mailbuf = <<>> /\ mailFiles = <<>> /\ mailId = 1
    /\ upMail = [h \in Hosts |-> <<>>] /\ downMail = [h \in Hosts |-> <<>>]
    /\ had = {} /\ logins = 0

\* ADDRESSBOOK_sendMessage to someone who is not on this server (a mail to one
\* who is goes to its client at once)
sendMessage(c, d) ==
    /\ isOn[c] # NoHost /\ isOn[d] # isOn[c] /\ <<d, c>> \in Knows
    /\ mailId + Cardinality(Letters) <= MaxMails
    /\ Post(isOn[c], <<[t |-> "Message", from |-> c, to |-> d]>>)
    /\ UNCHANGED <<isOn, using, mailbuf, mailFiles, mailId, downMail, had, logins>>

\* Mutant: every mail is acknowledged, also when the addressee is not here.
Answers_Always(h, m) == <<[t |-> "MessageAck", to |-> m.to, id |-> m.id]>>

\* What a game server answers to a mail: it acknowledges mail for who is here,
\* and tells the sender of whom the addressee has no card.
Answers(h, m) ==
    LET back == [t |-> "Message", from |-> System, to |-> m.from]
        ack == [t |-> "MessageAck", to |-> m.to, id |-> m.id]
        unknown == m.from # System /\ <<m.from, m.to>> \notin Knows
    IN IF isOn[m.to] # h THEN <<>> ELSE IF unknown THEN <<back, ack>> ELSE <<ack>>

\* saacproto_Message_recv of the game server: who is not here is passed over.
Message_recv(h) ==
    /\ downMail[h] # <<>>
    /\ downMail' = [downMail EXCEPT ![h] = Tail(@)]
    /\ LET m == Head(downMail[h])
       IN /\ Post(h, Answers(h, m))
          /\ had' = IF isOn[m.to] = h THEN had \cup {m.id} ELSE had
    /\ UNCHANGED <<isOn, using, mailbuf, mailFiles, mailId, logins>>

\* notifyLoginLogout asks for the mail.
Login(h, c) ==
    /\ logins < MaxLogins /\ logins' = logins + 1
    /\ c \notin using /\ using' = using \cup {c}
    /\ isOn' = [isOn EXCEPT ![c] = h]
    /\ Post(h, <<[t |-> "MessageFlush", to |-> c]>>)
    /\ UNCHANGED <<mailbuf, mailFiles, mailId, downMail, had>>

Logout(c) ==
    /\ isOn[c] # NoHost
    /\ isOn' = [isOn EXCEPT ![c] = NoHost]
    /\ Post(isOn[c], <<[t |-> "save", to |-> c]>>)
    /\ UNCHANGED <<using, mailbuf, mailFiles, mailId, downMail, had, logins>>

\* The next request of a game server, and what it is
Takes(h, kind) == /\ upMail[h] # <<>> /\ Head(upMail[h]).t = kind
                  /\ upMail' = [upMail EXCEPT ![h] = Tail(@)]

\* The mail gets the next id, a place in memory and a file, and goes to every
\* game server; without memory, here beyond MaxMails, it is dropped.
receiveMail(h) ==
    /\ Takes(h, "Message")
    /\ LET m == Head(upMail[h])
           letter == [from |-> m.from, to |-> m.to]
       IN \/ /\ mailId \in MailIds /\ mailId' = mailId + 1
             /\ mailbuf' = With(mailbuf, mailId, [from |-> m.from, to |-> m.to, state |-> "WAIT_ACK", old |-> FALSE])
             /\ mailFiles' = With(mailFiles, mailId, letter)
             /\ downMail' = [g \in Hosts |-> Append(downMail[g], [from |-> m.from, to |-> m.to, id |-> mailId])]
          \/ mailId \notin MailIds /\ UNCHANGED <<mailId, mailbuf, mailFiles, downMail>>
    /\ UNCHANGED <<isOn, using, had, logins>>

\* The mail that is waiting for this acknowledgement goes; a second one finds nothing.
receiveMailAck(h) ==
    /\ Takes(h, "MessageAck")
    /\ LET a == Head(upMail[h])
           acked == {m \in DOMAIN mailbuf : m = a.id /\ mailbuf[m].to = a.to /\ mailbuf[m].state = "WAIT_ACK"}
       IN mailbuf' = Without(mailbuf, acked) /\ mailFiles' = Without(mailFiles, acked)
    /\ UNCHANGED <<isOn, using, mailId, downMail, had, logins>>

\* Mutant: mail that a server has been told of is not sent again.
Flushed_NewOnly(c) == {m \in DOMAIN mailbuf : mailbuf[m].to = c /\ mailbuf[m].state = "NEWMESSAGE"}

\* The mail of a character, whatever its state
Flushed(c) == {m \in DOMAIN mailbuf : mailbuf[m].to = c}

\* All mail of a character goes to the server that asks, the oldest first.
flushMail(h) ==
    /\ Takes(h, "MessageFlush")
    /\ LET flushed == Flushed(Head(upMail[h]).to)
           Nth(n) == CHOOSE m \in flushed : Cardinality({k \in flushed : k <= m}) = n
       IN /\ downMail' = [downMail EXCEPT ![h] =
                @ \o [n \in 1..Cardinality(flushed) |-> Delivery(Nth(n))]]
          /\ mailbuf' = [m \in DOMAIN mailbuf |->
                IF m \in flushed THEN [mailbuf[m] EXCEPT !.state = "WAIT_ACK"] ELSE mailbuf[m]]
    /\ UNCHANGED <<isOn, using, mailFiles, mailId, had, logins>>

\* The final save of a character frees its account.
Save(h) ==
    /\ Takes(h, "save")
    /\ using' = using \ {Head(upMail[h]).to}
    /\ UNCHANGED <<isOn, mailbuf, mailFiles, mailId, downMail, had, logins>>

\* An hour passes for the mails that are there.
Hour ==
    /\ \E m \in DOMAIN mailbuf : ~ mailbuf[m].old
    /\ mailbuf' = [m \in DOMAIN mailbuf |-> [mailbuf[m] EXCEPT !.old = TRUE]]
    /\ UNCHANGED <<isOn, using, mailFiles, mailId, upMail, downMail, had, logins>>

\* Mutant: the file of an expired mail stays.
expireMail_KeepsFile ==
    LET expired == {m \in DOMAIN mailbuf : mailbuf[m].old} IN
    /\ expired # {}
    /\ mailbuf' = Without(mailbuf, expired)
    /\ UNCHANGED <<isOn, using, mailFiles, mailId, upMail, downMail, had, logins>>

expireMail ==
    LET expired == {m \in DOMAIN mailbuf : mailbuf[m].old} IN
    /\ expired # {}
    /\ mailbuf' = Without(mailbuf, expired) /\ mailFiles' = Without(mailFiles, expired)
    /\ UNCHANGED <<isOn, using, mailId, upMail, downMail, had, logins>>

\* The account server crashes, and every game server goes down for want of it;
\* it starts again with the mail in its files.
readMail ==
    /\ logins < MaxLogins /\ logins' = logins + 1
    /\ isOn' = [c \in People |-> NoHost] /\ using' = {}
    /\ upMail' = [h \in Hosts |-> <<>>] /\ downMail' = [h \in Hosts |-> <<>>]
    /\ mailbuf' = [m \in DOMAIN mailFiles |-> [from |-> mailFiles[m].from, to |-> mailFiles[m].to,
                                               state |-> "NEWMESSAGE", old |-> FALSE]]
    /\ UNCHANGED <<mailFiles, mailId, had>>

\* A game server crashes; the account server frees the accounts it held.
HostCrash(h) ==
    /\ logins < MaxLogins /\ logins' = logins + 1
    /\ using' = using \ {c \in People : isOn[c] = h \/ \E i \in DOMAIN upMail[h] : upMail[h][i] = [t |-> "save", to |-> c]}
    /\ isOn' = [c \in People |-> IF isOn[c] = h THEN NoHost ELSE isOn[c]]
    /\ upMail' = [upMail EXCEPT ![h] = <<>>] /\ downMail' = [downMail EXCEPT ![h] = <<>>]
    /\ UNCHANGED <<mailbuf, mailFiles, mailId, had>>

MailNext ==
    \/ \E c, d \in People : sendMessage(c, d)
    \/ \E c \in People : Logout(c) \/ \E h \in Hosts : Login(h, c)
    \/ \E h \in Hosts : Message_recv(h) \/ receiveMail(h) \/ receiveMailAck(h) \/ flushMail(h) \/ Save(h) \/ HostCrash(h)
    \/ Hour \/ expireMail \/ readMail

MailSpec == MailInit /\ [][MailNext]_mailVars

-----------------------------------------------------------------------------
MailTypeOK ==
    /\ isOn \in [People -> Hosts \cup {NoHost}] /\ using \subseteq People
    /\ DOMAIN mailbuf \subseteq MailIds /\ \A m \in DOMAIN mailbuf : mailbuf[m] \in Entry
    /\ DOMAIN mailFiles = DOMAIN mailbuf
    /\ \A m \in DOMAIN mailFiles : mailFiles[m] = [from |-> mailbuf[m].from, to |-> mailbuf[m].to]
    /\ mailId \in 1..MaxMails + 1
    /\ \A h \in Hosts : upMail[h] \in Seq(Up) /\ downMail[h] \in Seq(Down)
    /\ had \subseteq MailIds /\ logins \in 0..MaxLogins

\* When no message is under way, mail is kept only for characters that are not
\* logged in: whatever login, new mail, acknowledgement or crash came first,
\* nobody who is online waits for mail the account server still has.
WaitsOnlyForTheAbsent ==
    (\A h \in Hosts : upMail[h] = <<>> /\ downMail[h] = <<>>) =>
        \A m \in DOMAIN mailFiles : isOn[mailFiles[m].to] = NoHost

Box == INSTANCE Mailbox WITH
    Ids <- MailIds, issued <- 1..mailId - 1, kept <- DOMAIN mailFiles, reached <- had,
    old <- {m \in DOMAIN mailbuf : mailbuf[m].old}
\* The account server keeps its promise: no mail goes before its addressee's
\* server has it or an hour has passed, whatever crashes.
ImplementsMailbox == Box!Spec
==============================================================================

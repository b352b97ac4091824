------------------------------ MODULE Families -------------------------------
(* A family: the record the account server keeps of it (saac/acfamily.c), the *)
(* marks of it that the characters of a game server carry (gmsv/char/         *)
(* family.c), and the two streams of messages between them.  The character    *)
(* changes its own marks when it asks, and the answer is applied to whatever  *)
(* the character is then: in a battle it is not applied at all.               *)
(*                                                                            *)
(* There is one place for a family and one name.  Gold, fame and the texts    *)
(* are left out; so are ranks that nothing gives, and the removal of families *)
(* and members that are too old (delovertimeFMMem), which nothing calls.      *)
EXTENDS Integers, Sequences, SequencesExt, FiniteSets

CONSTANTS
    Folk,         \* characters
    Fit,          \* those that are fit to lead a family
    Warriors,     \* those that get into battles
    Leavers,      \* those that log out
    MemberMax,    \* MAX_MEMBERNUM
    ElderMax,     \* FMELDERNUM
    MaxSessions,  \* bound on the logins of a character
    Starts,       \* who may be online at the start, in which of its sessions (0: nobody sees it)
    MaxAsked      \* bound on the requests and answers under way when one asks

NoOne == "none"

ASSUME FamilyAssumption ==
    /\ NoOne \notin Folk /\ Fit \subseteq Folk /\ Warriors \subseteq Folk /\ Leavers \subseteq Folk
    /\ Starts \subseteq [Folk -> 0..MaxSessions]
    /\ MemberMax \in Nat \ {0} /\ ElderMax \in Nat /\ MaxSessions \in Nat /\ MaxAsked \in Nat

VARIABLES
    family,   \* the account server's record
    marks,    \* CHAR_FMINDEX, CHAR_FMNAME, CHAR_FMLEADERFLAG, CHAR_WORKFMCHARINDEX, CHAR_WORKLEADERCHANGE
    here,     \* the character's session on the game server
    toAC,     \* requests on their way to the account server
    toGS,     \* answers on their way to the game server
    slips,    \* members counted too many: applicants that were not made elders, less
              \* applicants that were made leaders
    cut       \* characters that missed an answer, or got one that was not for what they were

familyVars == <<family, marks, here, toAC, toGS, slips, cut>>

Places == 0..(MemberMax - 1)
Flags == {"NONE", "MEMBER", "APPLY", "LEADER", "ELDER"}

NoMember == [who |-> NoOne, flag |-> "NONE", event |-> FALSE, session |-> 0, online |-> FALSE]
NoFamily == [used |-> FALSE, accept |-> FALSE, num |-> 0, joined |-> 0, top |-> 0,
             member |-> [s \in Places |-> NoMember]]

\* SetFMVarInit; CHAR_WORKLEADERCHANGE stays.
SetFMVarInit(m) == [m EXCEPT !.index = FALSE, !.name = FALSE, !.flag = "NONE", !.slot = -1]

NoMarks == [index |-> FALSE, name |-> FALSE, flag |-> "NONE", slot |-> -1, change |-> NoOne]

\* start: which session of each character is online (0: none, nor will be).
FamilyStart(start) ==
    /\ family = NoFamily
    /\ marks = [p \in Folk |-> NoMarks]
    /\ here = [p \in Folk |-> [online |-> start[p] > 0, barred |-> FALSE,
                              session |-> IF start[p] > 0 THEN start[p] ELSE MaxSessions]]
    /\ toAC = <<>> /\ toGS = <<>>
    /\ slips = 0 /\ cut = {}

FamilyInit == \E start \in Starts : FamilyStart(start)

------------------------------------------------------------------------------
\* Requests of characters.

Put(m) == toAC' = Append(toAC, m)
Send(m) == Len(toAC) + Len(toGS) < MaxAsked /\ Put(m)
Free(p) == here[p].online
InFamily(p) == marks[p].index /\ marks[p].name
Request(kind, p) == [kind |-> kind, who |-> p, session |-> here[p].session]
About(kind, q, s, result) == [kind |-> kind, who |-> q, slot |-> s, result |-> result]

\* The bound on foundings: one at a time for each character.
Asked(p) == \E i \in DOMAIN (toAC \o toGS) : (toAC \o toGS)[i].kind = "Add" /\ (toAC \o toGS)[i].who = p

FAMILY_Add(p) ==
    /\ Free(p) /\ ~ InFamily(p) /\ p \in Fit
    /\ marks' = [marks EXCEPT ![p].name = TRUE, ![p].flag = "LEADER"]
    /\ ~ Asked(p) /\ Put(Request("Add", p))
    /\ UNCHANGED <<family, here, toGS, slips, cut>>

CheckFMMember(p) == ~ marks[p].index /\ ~ marks[p].name /\ marks[p].flag \in {"NONE", "APPLY"}

FAMILY_Join(p) ==
    /\ Free(p) /\ CheckFMMember(p) /\ ~ here[p].barred
    /\ marks' = [marks EXCEPT ![p].index = TRUE, ![p].name = TRUE, ![p].flag = "APPLY"]
    /\ Send(Request("Join", p))
    /\ UNCHANGED <<family, here, toGS, slips, cut>>

\* The leader that leaves dissolves the family.
FAMILY_Leave(p) ==
    /\ Free(p) /\ InFamily(p) /\ marks[p].flag # "NONE"
    /\ Send(Request(IF marks[p].flag = "LEADER" THEN "Del" ELSE "Leave", p))
    /\ UNCHANGED <<family, marks, here, toGS, slips, cut>>

\* p has the list of members before it; it is the list of now, and the
\* request reaches the table later.
FAMILY_CheckMember(p, s, result) ==
    /\ Free(p) /\ InFamily(p) /\ marks[p].flag \in {"LEADER", "ELDER"}
    /\ result = "ELDER" => marks[p].flag = "LEADER"
    /\ family.member[s].who # NoOne
    /\ Send(About(IF result = "NONE" THEN "MemberLeave" ELSE "MemberJoin",
                  family.member[s].who, s, result))
    /\ UNCHANGED <<family, marks, here, toGS, slips, cut>>

FAMILY_SetAcceptFlag(p, v) ==
    /\ Free(p) /\ InFamily(p) /\ marks[p].flag \in {"LEADER", "ELDER"}
    /\ Send(About("Accept", p, 0, v))
    /\ UNCHANGED <<family, marks, here, toGS, slips, cut>>

\* FAMILY_LeaderFunc CHANGE|Q: the leader p offers q to take its place.
LeaderOffers(p, q) ==
    /\ here[p].online /\ InFamily(p) /\ marks[p].flag = "LEADER"
    /\ p # q /\ here[q].online /\ marks[q].slot # -1 /\ q \in Fit
    /\ marks' = [marks EXCEPT ![q].change = p, ![p].change = q]
    /\ UNCHANGED <<family, here, toAC, toGS, slips, cut>>

\* FAMILY_LeaderFunc CHANGE|A: q answers.
LeaderAnswers(q, yes) ==
    LET p == marks[q].change IN
    /\ here[q].online /\ InFamily(q) /\ p # NoOne
    /\ here[p].online /\ marks[p].change = q
    /\ IF marks[p].flag # "LEADER" \/ ~ marks[p].index
       THEN marks' = [marks EXCEPT ![p].change = NoOne] /\ UNCHANGED toAC
       ELSE IF yes
       THEN /\ marks' = [marks EXCEPT ![p].change = NoOne]
            /\ Send(About("Fix", q, marks[q].slot, here[q].session))
       ELSE /\ marks' = [marks EXCEPT ![p].change = NoOne, ![q].change = NoOne]
            /\ UNCHANGED toAC
    /\ UNCHANGED <<family, here, toGS, slips, cut>>

\* CHAR_login and CHAR_logout, as far as families go.
CHAR_login(p) ==
    /\ ~ here[p].online /\ here[p].session < MaxSessions
    /\ LET session == here[p].session + 1 IN
       /\ here' = [here EXCEPT ![p].online = TRUE, ![p].session = session]
       /\ IF InFamily(p)
          THEN /\ Put([kind |-> "Login", who |-> p, session |-> session])
               /\ marks' = [marks EXCEPT ![p].slot = -1, ![p].change = NoOne]
               /\ UNCHANGED cut
          ELSE /\ marks' = [marks EXCEPT ![p] = NoMarks]
               /\ cut' = IF marks[p].name THEN cut \cup {p} ELSE cut
               /\ UNCHANGED toAC
    /\ UNCHANGED <<family, toGS, slips>>

CHAR_logout(p) ==
    /\ here[p].online /\ p \in Leavers
    /\ here' = [here EXCEPT ![p].online = FALSE]
    /\ IF InFamily(p) THEN Put(Request("Logout", p)) ELSE UNCHANGED toAC
    /\ UNCHANGED <<family, marks, toGS, slips, cut>>

\* CHAR_FMTIMELIMIT runs out, hours after the answer that set it.
TimeLimitEnds(p) ==
    /\ here[p].barred
    /\ \A i \in DOMAIN toAC : toAC[i].who # p
    /\ \A i \in DOMAIN toGS : toGS[i].who # p
    /\ here' = [here EXCEPT ![p].barred = FALSE]
    /\ UNCHANGED <<family, marks, toAC, toGS, slips, cut>>

------------------------------------------------------------------------------
\* The account server.

Member(s) == family.member[s]
Count(members, flags) == Cardinality({s \in Places : members[s].flag \in flags})
Joined == {"MEMBER", "LEADER", "ELDER"}

\* saacproto_ACFMCharLogin_send to the member in slot s of f, if it is online
Notify(f, s, ok) ==
    LET m == f.member[s] IN
    IF m.online THEN <<[kind |-> "Login", who |-> m.who, session |-> m.session,
                        ok |-> ok, flag |-> m.flag, slot |-> s]>>
                ELSE <<>>

Answer(kind, m, ok) ==
    <<[kind |-> kind, who |-> m.who, session |-> m.session, ok |-> ok, flag |-> "NONE", slot |-> -1]>>

Receive(kind) == toAC # <<>> /\ Head(toAC).kind = kind /\ toAC' = Tail(toAC)
Reply(messages) == toGS' = toGS \o messages

ACAddFM ==
    LET m == Head(toAC) IN
    /\ Receive("Add")
    /\ IF family.used
       THEN Reply(Answer("Add", m, FALSE)) /\ UNCHANGED family
       ELSE /\ family' = [family EXCEPT
                  !.used = TRUE, !.accept = TRUE, !.num = 1, !.joined = 1, !.top = 1,
                  !.member[0] = [who |-> m.who, flag |-> "LEADER", event |-> TRUE,
                                 session |-> m.session, online |-> TRUE]]
            /\ Reply(Answer("Add", m, TRUE))
    /\ UNCHANGED <<marks, here, slips, cut>>

FreeSlots == {s \in Places \ {0} : Member(s).who = NoOne}
Lowest(slots) == CHOOSE s \in slots : \A t \in slots : s <= t

ACJoinFM ==
    LET m == Head(toAC)
        s == Lowest(FreeSlots)
        f == [family EXCEPT
                 !.num = @ + 1, !.top = IF @ <= s THEN s + 1 ELSE @,
                 !.member[s] = [who |-> m.who, flag |-> "APPLY", event |-> FALSE,
                                session |-> m.session, online |-> TRUE]]
    IN  /\ Receive("Join")
        /\ IF /\ family.used /\ family.accept
              /\ family.num < MemberMax /\ family.joined < MemberMax
              /\ Member(0).who # m.who /\ FreeSlots # {}
           THEN family' = f /\ Reply(Notify(f, s, TRUE) \o Answer("Join", m, TRUE))
           ELSE Reply(Answer("Join", m, FALSE)) /\ UNCHANGED family
        /\ UNCHANGED <<marks, here, slips, cut>>

\* Mutant: an applicant that is turned away is counted out as a member.
MemberLeaves_AnyJoined(s) ==
    LET members == [family.member EXCEPT ![s] = NoMember]
        joined == family.joined - 1
        num == family.num - 1
        anew == num < 1 \/ joined < 1
    IN  /\ family' = [family EXCEPT
               !.member = members,
               !.joined = IF anew THEN Count(members, Joined) ELSE joined,
               !.num = IF anew THEN Count(members, Flags \ {"NONE"}) ELSE num,
               !.top = IF @ = s THEN @ - 1 ELSE @]
        /\ slips' = IF anew THEN 0 ELSE slips

\* ACMemberLeaveFM; the counts are taken anew when they make no sense.
MemberLeaves(s) ==
    LET members == [family.member EXCEPT ![s] = NoMember]
        joined == family.joined - (IF Member(s).flag = "APPLY" THEN 0 ELSE 1)
        num == family.num - 1
        anew == num < 1 \/ joined < 1
    IN  /\ family' = [family EXCEPT
               !.member = members,
               !.joined = IF anew THEN Count(members, Joined) ELSE joined,
               !.num = IF anew THEN Count(members, Flags \ {"NONE"}) ELSE num,
               !.top = IF @ = s THEN @ - 1 ELSE @]
        /\ slips' = IF anew THEN 0 ELSE slips

Removable(q, s) == family.used /\ s # 0 /\ Member(s).who = q /\ Member(s).flag # "NONE"

ACMemberLeaveFM ==
    LET m == Head(toAC) IN
    /\ Receive("MemberLeave")
    /\ IF Removable(m.who, m.slot)
       THEN MemberLeaves(m.slot) /\ Reply(Notify(family, m.slot, FALSE))
       ELSE UNCHANGED <<family, toGS, slips>>
    /\ UNCHANGED <<marks, here, cut>>

Listed(p, from) == {s \in from..(family.top - 1) : Member(s).who = p}

ACLeaveFM ==
    LET m == Head(toAC)
        slots == Listed(m.who, 1)
        s == Lowest(slots)
    IN  /\ Receive("Leave")
        /\ IF family.used /\ slots # {}
           THEN /\ MemberLeaves(s)
                /\ Reply(Notify(family, s, FALSE) \o Answer("Leave", m, TRUE))
           ELSE Reply(Answer("Leave", m, FALSE)) /\ UNCHANGED <<family, slips>>
        /\ UNCHANGED <<marks, here, cut>>

\* Mutant: the member in the last place is not told.
NotifyAll_ButLast == FlattenSeq([i \in 1..(family.top - 1) |-> Notify(family, i - 1, FALSE)])

\* Every member is told before its place is cleared, in the order of the slots.
NotifyAll == FlattenSeq([i \in 1..family.top |-> Notify(family, i - 1, FALSE)])

\* CheckLeaderQ and ACDelFM.  What stays in a cleared place is not read before
\* the place is taken again.
ACDelFM ==
    LET m == Head(toAC) IN
    /\ Receive("Del")
    /\ IF family.used /\ Member(0).who = m.who
       THEN /\ family' = NoFamily
            /\ Reply(NotifyAll \o Answer("Del", m, TRUE))
            /\ slips' = 0
       ELSE Reply(Answer("Del", m, FALSE)) /\ UNCHANGED <<family, slips>>
    /\ UNCHANGED <<marks, here, cut>>

\* ACMemberJoinFM and ACFMAssignOcp: the applicant is counted before the
\* rank is checked.
ACMemberJoinFM ==
    LET m == Head(toAC)
        s == m.slot
        applicant == Member(s).flag = "APPLY"
        joined == family.joined + (IF applicant THEN 1 ELSE 0)
        f == [family EXCEPT !.joined = joined,
                            !.accept = @ /\ joined < MemberMax,
                            !.top = IF @ <= s THEN s + 1 ELSE @]
        given == [f EXCEPT !.member[s].flag = m.result]
        refused == /\ m.result = "ELDER"
                   /\ ~ Member(s).event \/ Count(family.member, {"ELDER"}) >= ElderMax
    IN  /\ Receive("MemberJoin")
        /\ IF ~ family.used \/ s = 0 \/ Member(s).who # m.who \/ family.joined >= MemberMax
           THEN UNCHANGED <<family, toGS, slips>>
           ELSE IF refused
           THEN /\ family' = f /\ UNCHANGED toGS
                /\ slips' = slips + (IF applicant THEN 1 ELSE 0)
           ELSE /\ family' = given
                /\ Reply(IF m.result = "MEMBER" /\ Member(s).online
                         THEN Notify(given, s, TRUE) \o Notify(given, 0, TRUE)
                         ELSE Notify(given, s, TRUE))
                /\ UNCHANGED slips
        /\ UNCHANGED <<marks, here, cut>>

\* ACFixFMData, the leader's change: the two change places; what the account
\* server knows of their fitness stays with the places.  A founder has no place
\* yet: there is nobody in place -1.
ACFixFMLeader ==
    LET m == Head(toAC)
        old == Member(0)
        new == Member(m.slot)
        f == [family EXCEPT
                 !.member = [@ EXCEPT
                     ![m.slot] = [old EXCEPT !.flag = "MEMBER", !.event = new.event],
                     ![0] = [new EXCEPT !.flag = "LEADER", !.event = old.event]]]
        answer == [who |-> m.who, session |-> m.result]
    IN  /\ Receive("Fix")
        /\ IF family.used /\ m.slot \in Places /\ new.who = m.who
           THEN /\ family' = f
                /\ Reply(Notify(f, 0, TRUE) \o Notify(f, m.slot, TRUE) \o Answer("Fix", answer, TRUE))
                /\ slips' = slips - (IF new.flag = "APPLY" THEN 1 ELSE 0)
           ELSE Reply(Answer("Fix", answer, FALSE)) /\ UNCHANGED <<family, slips>>
        /\ UNCHANGED <<marks, here, cut>>

ACFixFMAccept ==
    LET m == Head(toAC) IN
    /\ Receive("Accept")
    /\ family' = IF family.used THEN [family EXCEPT !.accept = m.result] ELSE family
    /\ UNCHANGED <<marks, here, toGS, slips, cut>>

ACFMCharLogin ==
    LET m == Head(toAC)
        slots == Listed(m.who, 0)
        s == Lowest(slots)
        f == [family EXCEPT !.member[s].online = TRUE, !.member[s].session = m.session,
                            !.member[s].event = m.who \in Fit]
    IN  /\ Receive("Login")
        /\ IF family.used /\ slots # {}
           THEN family' = f /\ Reply(Notify(f, s, TRUE))
           ELSE Reply(Answer("Login", m, FALSE)) /\ UNCHANGED family
        /\ UNCHANGED <<marks, here, slips, cut>>

ACFMCharLogout ==
    LET m == Head(toAC)
        slots == Listed(m.who, 0)
        s == Lowest(slots)
    IN  /\ Receive("Logout")
        /\ IF family.used /\ slots # {}
           THEN family' = [family EXCEPT !.member[s].online = FALSE, !.member[s].session = 0]
           ELSE UNCHANGED family
        /\ UNCHANGED <<marks, here, toGS, slips, cut>>

------------------------------------------------------------------------------
\* The answers, on the game server.

Arrives(kind) == toGS # <<>> /\ Head(toGS).kind = kind /\ toGS' = Tail(toGS)
\* CONNECT_checkfd(getfdFromFdid(charfdid))
Current(m) == here[m.who].online /\ here[m.who].session = m.session

\* A later request of p is under way, or was answered; an answer that clears
\* the marks of p clears those of that request too.
Overtaken(p) ==
    \/ \E i \in DOMAIN toAC : toAC[i].who = p /\ toAC[i].kind \in {"Add", "Join"}
    \/ \E i \in 2..Len(toGS) : toGS[i].who = p /\ toGS[i].kind \in {"Add", "Join"}

\* CHAR_WORKBATTLEMODE, which nothing here depends on but two answers: they
\* are thrown away.
InBattle(p) == p \in Warriors /\ cut' = cut \cup {p} /\ UNCHANGED marks

ACAddFM_recv ==
    LET m == Head(toGS)
        p == m.who
    IN  /\ Arrives("Add")
        /\ IF ~ Current(m) THEN UNCHANGED <<marks, cut>>
           ELSE \/ InBattle(p)
                \/ m.ok /\ marks' = [marks EXCEPT ![p].index = TRUE] /\ UNCHANGED cut
                \/ /\ ~ m.ok /\ marks' = [marks EXCEPT ![p] = SetFMVarInit(@)]
                   /\ cut' = IF marks[p].index \/ Overtaken(p) THEN cut \cup {p} ELSE cut
        /\ UNCHANGED <<family, here, toAC, slips>>

ACJoinFM_recv ==
    LET m == Head(toGS)
        p == m.who
    IN  /\ Arrives("Join")
        /\ IF ~ Current(m) THEN UNCHANGED <<marks, cut>>
           ELSE \/ InBattle(p)
                \/ m.ok /\ UNCHANGED <<marks, cut>>
                \/ /\ ~ m.ok /\ marks' = [marks EXCEPT ![p] = SetFMVarInit(@)]
                   /\ cut' = IF Overtaken(p) THEN cut \cup {p} ELSE cut
        /\ UNCHANGED <<family, here, toAC, slips>>

\* ACLeaveFM and ACDelFM: the character's marks are cleared, also when it
\* has asked for something else since.
Left(kind, bars) ==
    LET m == Head(toGS)
        p == m.who
    IN  /\ Arrives(kind)
        /\ IF Current(m) /\ m.ok
           THEN /\ marks' = [marks EXCEPT ![p] = SetFMVarInit(@)]
                /\ here' = [here EXCEPT ![p].barred = @ \/ bars]
                /\ cut' = IF marks[p].name \/ Overtaken(p) THEN cut \cup {p} ELSE cut
           ELSE UNCHANGED <<marks, here, cut>>
        /\ UNCHANGED <<family, toAC, slips>>

ACLeaveFM_recv == Left("Leave", TRUE)
ACDelFM_recv == Left("Del", FALSE)

ACFMCharLogin_recv ==
    LET m == Head(toGS)
        p == m.who
    IN  /\ Arrives("Login")
        /\ IF ~ Current(m) THEN UNCHANGED <<marks, here>>
           ELSE IF m.ok
           THEN /\ marks' = [marks EXCEPT ![p].slot = m.slot, ![p].flag = m.flag]
                /\ UNCHANGED here
           ELSE /\ marks' = [marks EXCEPT ![p] = SetFMVarInit(@)]
                /\ here' = [here EXCEPT ![p].barred = TRUE]
        /\ UNCHANGED <<family, toAC, slips, cut>>

\* ACFMJob
ACFixFMData_recv ==
    LET m == Head(toGS)
        q == m.who
        p == marks[q].change
    IN  /\ Arrives("Fix")
        /\ marks' = IF ~ Current(m) THEN marks
                    ELSE IF p # NoOne /\ here[p].online
                    THEN [marks EXCEPT ![q].change = NoOne, ![p].change = NoOne]
                    ELSE [marks EXCEPT ![q].change = NoOne]
        /\ UNCHANGED <<family, here, toAC, slips, cut>>

------------------------------------------------------------------------------
FamilyNext ==
    \/ \E p \in Folk :
        \/ FAMILY_Add(p) \/ FAMILY_Join(p) \/ FAMILY_Leave(p)
        \/ \E s \in Places, result \in {"MEMBER", "ELDER", "NONE"} : FAMILY_CheckMember(p, s, result)
        \/ \E v \in BOOLEAN : FAMILY_SetAcceptFlag(p, v)
        \/ \E q \in Folk : LeaderOffers(p, q)
        \/ \E yes \in BOOLEAN : LeaderAnswers(p, yes)
        \/ CHAR_login(p) \/ CHAR_logout(p) \/ TimeLimitEnds(p)
    \/ ACAddFM \/ ACJoinFM \/ ACLeaveFM \/ ACDelFM \/ ACMemberJoinFM \/ ACMemberLeaveFM
    \/ ACFixFMLeader \/ ACFixFMAccept \/ ACFMCharLogin \/ ACFMCharLogout
    \/ ACAddFM_recv \/ ACJoinFM_recv \/ ACLeaveFM_recv \/ ACDelFM_recv
    \/ ACFMCharLogin_recv \/ ACFixFMData_recv

FamilySpec == FamilyInit /\ [][FamilyNext]_familyVars

------------------------------------------------------------------------------
\* The leader, and nobody else, leads, from the first place; there are no more
\* elders than allowed; nobody is listed twice, but who had an answer wipe out a
\* later request; and the two counts are those of
\* the list, but for the applicants that were counted (acfamily.c:2151) and then
\* not made elders (acfamily.c:2174, 2450), and those that were not and became
\* leaders (acfamily.c:1645).
ListAndCountsAgree ==
    family.used =>
        /\ Member(0).flag = "LEADER" /\ Member(0).who # NoOne
        /\ \A s \in Places \ {0} : Member(s).flag # "LEADER"
        /\ Count(family.member, {"ELDER"}) <= ElderMax
        /\ \A s \in Places : Member(s).flag = "NONE" <=> Member(s).who = NoOne
        /\ \A s, t \in Places : s # t /\ Member(s).who = Member(t).who => Member(s).who \in cut \cup {NoOne}
        /\ family.num = Count(family.member, Flags \ {"NONE"})
        /\ family.joined = Count(family.member, Joined) + slips

\* A character that has every answer it waited for carries the marks of the
\* account server's list: the rank it has there, or none.
Awaits(p) ==
    \/ \E i \in DOMAIN toGS : toGS[i].who = p /\ toGS[i].session = here[p].session
    \/ \E i \in DOMAIN toAC : toAC[i].who = p /\ toAC[i].kind \in {"Add", "Join", "Leave", "Del", "Login"}

MarksFollowTheList ==
    \A p \in Folk :
        here[p].online /\ ~ Awaits(p) /\ p \notin cut =>
            IF \E s \in Places : Member(s).who = p
            THEN InFamily(p) /\ \E s \in Places : Member(s).who = p /\ Member(s).flag = marks[p].flag
            ELSE ~ InFamily(p)
==============================================================================

----------------------------- MODULE FamilyBank ------------------------------
(* The gold of the members of one family: in the purse, in the own account at *)
(* the family's bank, and in the fund of the family, which the account server *)
(* keeps (gmsv/char/family.c, gmsv/callfromac.c, saac/acfamily.c).  What is   *)
(* paid into the fund leaves the purse when it is asked for and comes back    *)
(* if it is refused; what is drawn is put into the purse by the answer.       *)
(*                                                                            *)
(* The game server checks against familyTax, which is as old as the last      *)
(* question for it.                                                           *)
EXTENDS Integers, Sequences, FiniteSets, FiniteSetsExt

CONSTANTS
    Savers,       \* members of the family, on one game server
    Leading,      \* those that may draw: the leader and the elders
    PurseMax,     \* CHAR_getMaxHaveGold
    AccountMax,   \* CHAR_MAXBANKGOLDHAVE
    FundMaxGS,    \* CHAR_MAXFMBANKGOLDHAVE
    FundMaxAC,    \* FMMAXGOLD
    MaxOrders     \* bound on the orders under way

ASSUME BankAssumption ==
    /\ IsFiniteSet(Savers) /\ Leading \subseteq Savers
    /\ {PurseMax, AccountMax, FundMaxGS, FundMaxAC, MaxOrders} \subseteq Nat

VARIABLES purse, account, fund,
          tax,       \* familyTax: the fund, as the game server knows it
          present,   \* members whose session goes on
          orders,    \* on their way to the account server
          receipts   \* on their way back

bankVars == <<purse, account, fund, tax, present, orders, receipts>>

Amounts == -PurseMax..PurseMax

\* Nothing but the answer to a question sets familyTax.
BankInit ==
    /\ purse = [m \in Savers |-> PurseMax] /\ account = [m \in Savers |-> 0]
    /\ fund = 0 /\ tax = 0 /\ present = Savers
    /\ orders = <<>> /\ receipts = <<>>

\* FAMILY_Bank, G
Bank(m, toBank) ==
    /\ m \in present /\ toBank # 0
    /\ purse[m] - toBank \in 0..PurseMax /\ account[m] + toBank \in 0..AccountMax
    /\ purse' = [purse EXCEPT ![m] = @ - toBank]
    /\ account' = [account EXCEPT ![m] = @ + toBank]
    /\ UNCHANGED <<fund, tax, present, orders, receipts>>

Order(m, kind, amount) ==
    /\ Len(orders) + Len(receipts) < MaxOrders
    /\ orders' = Append(orders, [by |-> m, kind |-> kind, amount |-> amount])

\* FAMILY_Bank, T
Deposit(m, toTax) ==
    /\ m \in present /\ toTax > 0
    /\ purse[m] <= PurseMax /\ purse[m] >= toTax /\ tax + toTax <= FundMaxGS
    /\ purse' = [purse EXCEPT ![m] = @ - toTax]
    /\ Order(m, "Gold", toTax)
    /\ UNCHANGED <<account, fund, tax, present, receipts>>

Withdraw(m, toTax) ==
    /\ m \in present \cap Leading /\ toTax < 0
    /\ purse[m] - toTax <= PurseMax /\ tax + toTax >= 0
    /\ Order(m, "Gold", toTax)
    /\ UNCHANGED <<purse, account, fund, tax, present, receipts>>

\* NPC_BankmanWindowTalked asks for the fund.
AskFund(m) ==
    /\ m \in present /\ Order(m, "Ask", 0)
    /\ UNCHANGED <<purse, account, fund, tax, present, receipts>>

\* A member logs out and does not come back while the orders are under way.
Quit(m) ==
    /\ m \in present /\ present' = present \ {m}
    /\ UNCHANGED <<purse, account, fund, tax, orders, receipts>>

Return(m) ==
    /\ m \notin present /\ \A i \in DOMAIN (orders \o receipts) : (orders \o receipts)[i].by # m
    /\ present' = present \cup {m}
    /\ UNCHANGED <<purse, account, fund, tax, orders, receipts>>

Receipt(o, ok, value) == [by |-> o.by, kind |-> o.kind, amount |-> o.amount, ok |-> ok, fund |-> value]

\* Mutant: what the fund has less than what is drawn is paid out.
ACFixFMGold_Overdrawn ==
    LET o == Head(orders) IN
    /\ orders # <<>> /\ o.kind = "Gold"
    /\ orders' = Tail(orders)
    /\ fund' = Max({0, Min({fund + o.amount, FundMaxAC})})
    /\ receipts' = Append(receipts, Receipt(o, TRUE, fund'))
    /\ UNCHANGED <<purse, account, tax, present>>

\* ACFixFMData, the gold: what is above the limit is lost.
ACFixFMGold ==
    LET o == Head(orders) IN
    /\ orders # <<>> /\ o.kind = "Gold"
    /\ orders' = Tail(orders)
    /\ fund' = IF fund + o.amount < 0 THEN fund ELSE Min({fund + o.amount, FundMaxAC})
    /\ receipts' = Append(receipts, Receipt(o, fund + o.amount >= 0, fund'))
    /\ UNCHANGED <<purse, account, tax, present>>

\* ACGetFMData
ACGetFMData ==
    /\ orders # <<>> /\ Head(orders).kind = "Ask"
    /\ orders' = Tail(orders)
    /\ receipts' = Append(receipts, Receipt(Head(orders), TRUE, fund))
    /\ UNCHANGED <<purse, account, fund, tax, present>>

\* saacproto_ACFixFMData_recv: a deposit that failed and a draft that did not
\* change the purse, whatever it holds.
FixFMGold_recv ==
    LET r == Head(receipts) IN
    /\ receipts # <<>> /\ r.kind = "Gold"
    /\ receipts' = Tail(receipts)
    /\ purse' = IF r.by \in present
                THEN [purse EXCEPT ![r.by] = CASE r.ok /\ r.amount < 0 -> @ - r.amount
                                               [] ~ r.ok /\ r.amount > 0 -> @ + r.amount
                                               [] OTHER -> @]
                ELSE purse
    /\ UNCHANGED <<account, fund, tax, present, orders>>

GetFMData_recv ==
    LET r == Head(receipts) IN
    /\ receipts # <<>> /\ r.kind = "Ask"
    /\ receipts' = Tail(receipts)
    /\ tax' = IF r.by \in present THEN r.fund ELSE tax
    /\ UNCHANGED <<purse, account, fund, present, orders>>

BankNext ==
    \/ \E m \in Savers :
        \/ \E a \in Amounts : Bank(m, a) \/ Deposit(m, a) \/ Withdraw(m, a)
        \/ AskFund(m) \/ Quit(m) \/ Return(m)
    \/ ACFixFMGold \/ ACGetFMData \/ FixFMGold_recv \/ GetFMData_recv

BankSpec == BankInit /\ [][BankNext]_bankVars

------------------------------------------------------------------------------
SumOf(f, S) == FoldSet(LAMBDA x, sum : f[x] + sum, 0, S)

\* On its way: deposits to the account server, deposits that come back and drafts
\* that were granted.
UnderWay ==
    SumOf([i \in DOMAIN orders |-> Max({orders[i].amount, 0})], DOMAIN orders)
    + SumOf([i \in DOMAIN receipts |->
                LET r == receipts[i]
                IN  IF r.kind = "Ask" \/ r.ok = (r.amount > 0) THEN 0
                    ELSE IF r.amount > 0 THEN r.amount ELSE -r.amount], DOMAIN receipts)

Total == SumOf(purse, Savers) + SumOf(account, Savers) + fund + UnderWay

Spills == orders # <<>> /\ Head(orders).kind = "Gold" /\ fund + Head(orders).amount > FundMaxAC
Undelivered == receipts # <<>> /\ Head(receipts).by \notin present

\* Whatever is paid in and drawn at the same time, from a fund that is known too
\* late: no gold is made, no account is overdrawn, and gold is lost in two ways
\* only - the account server's limit, below the game server's (acfamily.c:1567,
\* family.c:1812), and an answer whose member has gone (callfromac.c:619).
GoldNeverMade ==
    [][UNCHANGED bankVars \/
       /\ Total' <= Total
       /\ fund' >= 0 /\ \A m \in Savers : purse'[m] >= 0 /\ account'[m] >= 0
       /\ Total' < Total => (receipts' # receipts /\ orders' # orders /\ Spills)
                            \/ (receipts' = Tail(receipts) /\ Undelivered)]_bankVars
==============================================================================

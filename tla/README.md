# Verification of the Stone Age server

TLA+ models, TLC runs and TLAPS proofs for the server of Stone Age 2.5 in this
repository: the account server `saac` (src/saac, about 13,000 lines) and the
game server `gmsv` (src/gmsv, about 135,000 lines). The repository has no design
document; everything here is translated from the C code, with the comments of the
code as the only statements of intent.

## The system

One `saac` process serves several `gmsv` processes ("lines") over TCP, and every
`gmsv` serves players over TCP. Both are single threaded: a `select` loop
(`netloop` in net.c, `main` in saac/main.c) polls every socket in turn and runs a
handler for each message, so a handler is atomic. All concurrency is between
processes: messages that are on their way, processes that exit, players that leave.

| Component | State | Operations | Talks to |
|---|---|---|---|
| saac: lock table (lock.c) | bucket lists of recycled nodes, an account and the server that holds it | insert, delete, query, drop a server, restart | called by char.c, recv.c, main.c |
| saac: characters (char.c, recv.c) | character files, the lock table | load, save, list, delete, lock, lock check, kick | answers to the gmsv that asks, orders to all of them |
| saac: connections (main.c) | slots of game servers, stream buffers from a shared pool | accept, read, write, close, login and logout of a gmsv | - |
| saac: mail (mail.c) | mails in memory and in files | accept, tell, acknowledge, flush at a login, expire | every gmsv |
| saac: tables (db.c) | sorted lists, a hash table and a file each | insert, update, delete, rank, write, read | requests of a gmsv |
| saac: families (acfamily.c) | families, their members and their funds | found, join, leave, promote, hand over, dissolve, pay, draw | answers to a gmsv |
| gmsv: connections (net.c) | `Connect[fd]`: state, account, fdid, trade and window scratch | accept, poll, close, close at the next turn | creates and ends everything a player has |
| gmsv: clients and answers (callfromcli.c, callfromac.c) | the state of the connection | one handler per message | saac; the components below |
| gmsv: characters (char.c) | character table, work integers | login, logout, periodic save | party, trade, battle, objects, items |
| gmsv: parties (char_party.c) | mode and five work integers of each character | join, choose from a window, leave, dissolve | logout, battle, buses |
| gmsv: trade (trade.c) | trade mode, `confirm_key` and `TradeTmp` of two sockets | search, show, confirm, agree, close; exchange | inventory, logout |
| gmsv: battles (battle/) | battle slots with two sides, lists of spectators | enter, command, act, exit, watch, logout | party, items, pets |
| gmsv: address books (addressbook.c) | cards of other characters, each with a mark | login, logout, exchange of cards, delete | the table of saac |
| gmsv: families (family.c) | the marks of its family on a character, purse and account | requests and answers about a family | saac |
| gmsv: shutdown (main.c, net.c) | countdown, number of outstanding saves | count down, save all, exit | connections |
| gmsv: items, pets, objects, maps (item/, object.c, map/) | tables of slots with use flags | create, move, drop, end | characters |
| gmsv: NPCs (npc/, 55 files) | per-NPC work integers, data files | talk, window answers | items, warps, bank |

What is hard in it:

- **Who may be online with an account.** The lock lives at the account server, the
  session at a game server, and load, save, unlock, lock check and kick cross on
  streams in both directions. The answer names a connection, a lock only a server.
- **What survives a disconnection.** Parties, trades and windows keep the index of
  a character or the number of a socket, both of which are given to somebody else.
- **Clients that are behind.** A client acts on what it has been told; the server
  has gone on (a choice from a window, a confirmation that crosses a cancellation).
- **Copies at two servers.** Cards show what a table said some time ago, a family
  mark what the list said; answers arrive late, or not at all.
- **Operations of several parts.** An exchange is made of three parts whose results
  nobody looks at; leaving a party updates the tables of all its members; a battle
  that ends dissolves a list of spectators while it walks over it.
- **Crashes.** A game server loses its sessions and its unread stream, the account
  server its whole lock table.

`PROJECT.json` lists the hazards line by line with the properties that cover each.

## Modules

| Module | Models | Refines / composes |
|---|---|---|
| `UserLock` | what a lock table promises: a map from accounts to holders | abstract |
| `MemLock` | saac/lock.c: lists, nodes, growth and reuse | implements `UserLock` |
| `AccountSession` | login, logout, save, lock and kick in gmsv, saac and the streams between them | uses the lock as `UserLock` describes it |
| `Mailbox` | what saac promises of a mail | abstract |
| `Mail` | saac/mail.c and the gmsv side of mail | implements `Mailbox` |
| `AddressBook` | cards, the table behind them and the messages about it | |
| `Streams` | queues of bytes | abstract |
| `StreamBuffers` | saac/main.c: connections and the pool of buffers behind their streams | implements `Streams` |
| `Ranking` | a map from keys to values, and its file | abstract |
| `RankTable` | saac/db.c: sorted list, hash table, file | implements `Ranking` |
| `Families` | the list of a family at saac, the marks of its members at gmsv | |
| `FamilyBank` | the gold of its members and of its fund | |
| `Parties` | what parties are: a division of the characters, each part with a leader | abstract |
| `Party` | char_party.c, the window of char.c, logout and login | implements `Parties` |
| `Battle` | who is in which battle, turns, spectators, the end | |
| `BattleTurn` | what happens within a turn: blows, falls, flights, loot, pets | what `Battle` leaves open in its turns |
| `Trade` | the messages of a trade and what clients make of them | |
| `TradeGoods` | the checks and the exchange of an agreed trade | the last step of `Trade`, on its own |
| `Shutdown` | countdown, closing of all connections, last saves | |

`X_proofs` holds the theorems about module `X`; `PartyBattle_proofs` those about
`Party` and `Battle`, `SessionShutdown_proofs` those about `AccountSession` and
`Shutdown`, `BookAndMail_proofs` those about `AddressBook` and `Mail`,
`LocksAndTables_proofs` those about `MemLock` and `RankTable`, `GoodsAndLoot_proofs`
those about `TradeGoods` and `BattleTurn`, and `Families_proofs` also those about
`FamilyBank`. `MC*` modules are instances for TLC. Most of them are
portfolios: they put several modules side by side, each with its own variables, and
a variable `topic`, chosen at the start, says which of them runs; the others keep
their initial state. So one run answers several questions, at the price of one.

### The lock table: `MemLock`

`userlock[e]` is the list of bucket `e` as a sequence of nodes, in list order;
a node is never removed from its list, only its `use` flag changes. `ret` is what
the last call returned, which the refinement needs. `LockUser`, `UnlockUser`,
`DeleteMemLockServer`, `GetMemLockServer` and `Lock_Init` are the calls that other
files make; the helpers `InsertMemLock`, `DeleteMemLock`, `isMemLocked` and
`Creat_newNodes` are operators of their names. The hash of an account is a
constant function, so every collision pattern is covered by the proofs.

### Sessions: `AccountSession`

`conn[g][c]` is a connection of game server `g`: its state (`CONNECT_*` in net.h),
its account and whether it has been asked to close. `toAC[g]` and `toGS[g]` are the
two directions of the stream. `lock`, `store` and `gs` belong to the account
server. `HandleAC(g)` is one request of `g` handled by saac with everything that
the handler does (answer, lock, file, kicks to other servers); `HandleGS(g)` is one
answer or order handled by gmsv. `CloseTurn` is the turn of a connection in
`netloop` that finds the close request. The client actions are the handlers of
callfromcli.c. `Crash` is the exit of a game server, which loses both of its
streams; `CrashAC` is the exit of saac, after which every gmsv exits as well when
it sees the closed stream (net.c:2455).

A connection is named by its fdid. The code draws fdids from a counter, so an
answer to a connection that has gone finds nobody; the model reuses a name only
when no message about it is left, which is the same with a bounded set of names.

`forced` is a history variable: the accounts whose lock was taken away or given
to somebody else while the old holder still had a session or a final save under
way. It is set by the two calls that unlock without asking whose lock it is and
never cleared. `charLoadCallback` of saac deletes the lock of a locked account at
once, so an unconditional "online implies locked" is false: `LockedWhileOnline` says
that nothing else breaks it, down to the save of another server that would
overwrite the file, and `KickedApart` says what still holds afterwards.

### Mail and address books: `Mail`, `AddressBook`

`mailbuf` and `mailFiles` are the mails of saac in memory and on disk, `upMail` and
`downMail` the streams; `had` is history, the mails that have reached a server their
addressee plays on. A mail beyond `MaxMails`
is dropped, which is what the code does when it cannot allocate memory for one.

`cards[c][d]` is the mark of `d` in the book of `c` while `c` is online, `savedCards`
the book in its file (a mark is not saved), `online` the table `DB_ADDRESSBOOK`. A
crash of a game server loses the broadcast that would tell of its own players; such
players are in `cutOff`, history, until a broadcast about them comes again, and
nothing is claimed of their cards. `held` are the characters whose
account is locked. The last save is sent before the change of the table
(char.c:1612), so a character can enter on another server while the table still
shows it on the first.

### Streams: `StreamBuffers`

`con[i]` is a connection with the first nodes of its two lists, `mbused`, `mbuse`,
`mbtext` and `mbnext` are the pool, `gsuse` and `gsname` the table of game servers.
Bytes are ends of line or not. A game server that connects when exactly one buffer
is free is excluded by a guard (`Accept1_Full`): it keeps a buffer that is free
(main.c:1202), and no invariant survives that. Which of the free nodes a stream gets
is left open: the code takes the first one after the last it took, and nothing
depends on it. A chain (`Chain`) and the text in it (`Text`) are recursive functions
over the nodes that walk along `mbnext` as the code does.

### Tables: `RankTable`

`list` is the sorted list with its entries, `hashtable` the table with heads and
what is chained to them, `file` the last file. A file may be written in part when
saac exits. `HeadDeletes = FALSE` excludes one operation: the deletion of a head that
has a chain hides what is chained to it (db.c:395), after which the table is no map
any more.

### Families: `Families`, `FamilyBank`

`family` is the record of saac with its member places and its two counts, `marks`
what a character carries, `here` its session. Two histories name what the code
gets wrong in every long run, so that the properties can claim the rest: `slips`
counts the applicants that were counted and not made elders, or made leaders and not
counted; `cut` are the characters that missed an answer (they fought, logged out, or
it was for what they were before). Gold is followed in `FamilyBank`, with the fund
that the game server believes in.

### Parties: `Party`

`idx[c]` are the five work integers `CHAR_WORKPARTYINDEX1..5`, `mode[c]` the
party mode and `online` the indices in use. `window[c]` is what
`CONNECT_setJoinpartycharaindex` kept for the choice. An index that logs out is
free and can log in as another character while it is still in somebody's window.
Positions, the will of a leader and its battles decide only whether a join is
possible, so they are nondeterministic. Buses, which lead parties of their own,
are left out. `items` is there for the items that vanish when a party ends.

### Battles: `Battle`, `BattleTurn`

`Battle` is the table of battles: `bmode`, `btype`, the two sides `entry`, the list of
WATCH battles `bnext`/`bbefore`, and for each player its mode, its index and whether it
watches or is dead. `BATTLE_Loop(b)` is one step of the loop over the battles;
requests come in at any time. Where characters stand and who wins a blow is open.
`Watching(b)`, the battles behind `b` in its list, is defined as what is in every set
that holds the successor of `b` and is closed under `bnext`: the same as walking
along, and without recursion.

`BattleTurn` is the inside of a turn for two players, one with a pet, and two
enemies: `fight` is the battle with its places, who is hurt or dead, what lies in the
entries. HP are abstracted to hurt or not, so every outcome of a blow is possible.
`lost` and `fled` are histories for what `EntryInit` forgets (battle.c:1016) and for
who left with no HP without being dead. The loops over the entries of both sides
(`AddExpItem`, the end of a turn and of the battle) are `InOrder`, which takes a step
for one place after the other and gives the set of what can come of it; `Shares` is
what chance makes of the things of an enemy, at most `LootMax` for each seat. A pet that is captured is not used again in
the same battle, and the theft of gold is left out.

### Trade: `Trade` and `TradeGoods`

A player of `Trade` is its socket. `mode`, `confirm` and `tmp` are what the server
keeps; `inbox` and `view` are the client, which is not part of this repository: it
opens, fills and closes its trade window as the messages tell it and sends what the
handlers parse. A request is handled at once, with the window the client had when
it sent it. `Prompt` are the players that read every notice before they act; the
others act on windows that are out of date. Players in a party or a battle cannot
trade. `TRADE_CheckItembuf` leaves its comparison strings uninitialised when the
partner has no agreement; a match then needs six indices that are all 0, which the
window of an honest client does not send, and it is excluded.

`TradeGoods` starts from any distribution of items, pets and gold and makes one
exchange at a time, of any two mirrored offers that `TRADE_HandleItem`, `HandleGold`
and `HandlePet` admit. `ChangeThing` and `ChangePet` are the branches of
`TRADE_ChangeItem`.

### The end of a game server: `Shutdown`

`link[c]` is the state of a connection, `num` is `closeallsocketnum`, `accept` is
`acceptmore`; `unsent` and `sent` are the saves in the write buffer and beyond it. An
answer names its connection only, so the answer to a periodic save counts as the
answer to the last one. A second command to close finds connections that are closing,
frees their buffers twice and aborts (`down`).

## Runs

| Run | Instances | Shows |
|---|---|---|
| `mem_lock` | 4 accounts, 3 of them in one bucket, 2 servers, lists grow by 1; 3 single players in 3 battles | `OneNodePerKey`, `BucketBounded`, `ImplementsUserLock`; `NobodyWatchesNothing` on lists of up to two spectators' battles |
| `session` | 2 servers with 2 connections each, at most 2 in use at once, streams of 2 messages, crashes of both servers; 2 mails between 2 hosts, 3 logins and crashes; 2 characters with cards, 2 servers, 3 moves | `ReplyFindsItsState`, `KickedApart`, `LockedWhileOnline`; `WaitsOnlyForTheAbsent`, `ImplementsMailbox`; `CardsFollowTheTable` |
| `session_live` | 2 servers, 1 connection each, everything enabled; 2 battles of 2 turns; 2 connections, 2 commands, 2 minutes; all fair | `DuplicatesEnd`, `RequestsAnswered`; `TurnsEnd`; `CountsTheClosing`, `ShutdownEnds` |
| `session_twice` | 1 server, 2 connections, streams of 4 | violates `NoDuplicatedLogin` |
| `session_refused` | 2 servers, fair | violates `RefusedLoginEnds` |
| `shutdown_saved` | 2 connections, 2 commands, 1 minute | violates `AllSaved` |
| `party` | 4 characters, parties of 3, windows of 2; 3 players in 2 battles, sides of 2; 2 connections on 5 buffers of 2 bytes | `TablesAgree`, `ImplementsParties`; `InOneBattle`; `PoolAccounted`, `ServedWhileOpen`, `ImplementsStreams` |
| `party_items` | 2 characters with 3 slots | violates `QuitItemsVanish` |
| `trade` | 3 players, 1 of them late, 1 offer, 2 unread notices; 3 items in 2 slots each, up to 3 gold; 3 keys of one hash value; 2 turns of a battle | `AgreementWhileLocked`, `AgreementGoesThrough`, `MatchesItsPartner`; `ItemsNotLostOrDoubled`, `GoldOnlyMoves`; `RanksByValue`, `ImplementsRanking`; `LootInOnePlace`, `PetsByTheirMasters`, `FallenAreSettled` |
| `trade_close` | 2 players | violates `CloseCloses` |
| `trade_pets` | 3 pets in 2 slots each, ridden and fighting; a family of up to 3, one of whom comes and goes; 2 members with purses, accounts and a fund | `NothingLostOrDoubled`, `PetsInUseStay`; `ListAndCountsAgree`, `MarksFollowTheList`; `GoldNeverMade` |
| `trade_whole` | full item lists | violates `AllOrNothing` |

Each portfolio also checks the type invariants of its modules. Some properties join
what a reader could look for under two names: `TablesAgree` says that members follow
leaders and that leaders list members; `LockedWhileOnline` includes that the last save
of a session is in before the next one loads; `InOneBattle` includes the room on a
side; `CountsTheClosing` includes that a closed server has nobody left.

### Bounds

- `MaxQueue` (messages in a stream) and `MaxInbox` (unread notices) make clients
  wait; servers always go on. Two messages per stream are enough for any two
  messages to cross; the counterexample of `session_twice` needs four.
- `MaxConns` bounds connections in use at a time: two are enough for a session and
  its competitor, on the same server or not. Connections that have gone do not
  count, so a third can come while messages about the first are still under way.
- One account: saac treats accounts independently but for the buckets of the lock
  table, and those are the subject of `MemLock`.
- `Enabled` leaves the creation and deletion of characters to `session_live`: they
  take the path of a list and touch neither lock nor session.
- `MoreNodes` is 1 (32 in the code) so that a list grows twice with four accounts.
- `PartyMax` is 3 (5 in the code): a leader, a member that leaves and one that
  stays; the fourth character finds the party full, or leads another.
- Three battles are the least with a list of two WATCH battles behind a fight, where
  the loop that deletes them (battle.c:3498) goes wrong when it follows a cleared
  pointer. `Turns` counts turns modulo 1 or 2: only whether a turn changes matters.
- `MaxMoves`, `MaxLogins`: a login, a logout and a crash, in any order, of a
  character whose cards others have. Five buffers of two bytes let a stream of two
  connections grow, shrink and fill the pool; `MCView` forgets which free node is
  which, as nothing depends on it.
- `trade` uses three items in four slots, so that both lists can be full but
  for one slot and every part of the exchange can fail; gold up to 3 lets two
  different sums together exceed what a player has.
- `TurnMax` is 2: what a turn leaves behind (loot, a pet that is out, who is hurt)
  meets the next one. `LootMax` is 1 so that a second item finds no room.
  `Lucky` is empty: with one item that revives the battle has twice as many states,
  and the theorems hold for every `Lucky`.
- `MaxAsked` is 1: who asks about a family waits until one message at most is
  under way, as a human does; answers still meet logouts, battles and later requests
  of others. `MCStarts` are two histories of who is online when the family is founded.
- `MaxMinutes`, `MaxCommands`, `MaxSaves` bound the end of a server: a countdown,
  a command that crosses it, and a periodic save before a last one.
- Symmetry is used where players, characters, servers and connections are alike,
  and in no run with a liveness property.

The theorems below hold for every value of these bounds.

### Fairness

`session_live` and `session_refused` assume weak fairness of `HandleGS`, `HandleAC`
and `CloseTurn`: both main loops visit every stream and every connection in turn,
and a handler always finishes. For battles, `BATTLE_Loop` of each battle (the loop
steps all of them in every round) and `LateTurn`, the time limit of a turn. For a
server that closes, `ShutdownProc`, `Minute` (time passes), `Write` and
`ACCharSave_recv_Close`: the main loop writes its buffer and saac answers. Nothing is
assumed of clients, of crashes or of the restart of a crashed server. No strong
fairness is used anywhere. `DuplicatesEnd` and `RequestsAnswered` say "again and
again": an account comes back to having sessions on one server at most, a connection
to not waiting, however often either starts anew.

### What the violations say

- `NoDuplicatedLogin` (net.c:2720, "Avoid duplicated login"): an unlock does not
  say whose lock it is. The last save of a kicked session arrives after the next
  session of the account has locked it again and removes *that* lock; a second
  connection of the same server can now load the account, and saac sends kicks
  only to the other servers. Both sessions stay.
- `RefusedLoginEnds` (callfromac.c:241): gmsv waits for the refusal "hasn't been
  locked", saac sends "不能移除锁定" (saac/char.c:791). A connection in
  `WHILECANNOTLOGIN` whose lock somebody else removed repeats its request forever.
- `AllSaved` (callfromac.c:163, "所有人物存档"): the answer to a periodic save is
  taken for the answer to the last one. The counter reaches 0, the server says that
  all characters are saved and, after a countdown of one minute, ends the process
  with the last save in its buffer.
- `QuitItemsVanish` (char_party.c:456): the loop over the items of a member that
  leaves reads slot `j`, the counter of the other loop, and clears slot `i`.
- `CloseCloses` (trade.c:94, "关闭交易"): `TRADE_Close` returns before it frees its
  caller when the partner is gone, and a logout does not free the partner. The
  player stays in mode `TRADING` and cannot trade until it logs in again.
- `AllOrNothing` (trade.c:563): room is checked for the end of the exchange. With
  full lists the first part fails where the second succeeds, and one player gives
  something for nothing. The same path can leave a player with more than the
  allowed gold, so no invariant claims that bound.

Related, but not stated by any text of the repository: `charLoadCallback`
(saac/char.c:114) deletes the lock of an account that another server needs; an
agreement is matched by what is traded only, so a player whose partner's socket
got another user during the trade can be matched with a third. `KickedApart` and
`MatchesItsPartner` state what does hold. Two operations are excluded from the
runs because they break their data structure (`Accept1_Full`, `HeadDeletes`, above).

## Proofs

TLAPS checks eight modules. What they prove holds for every number of accounts,
servers, connections, characters, mails, slots and so on, and so without the bounds
of the runs. They rest on the assumptions on the constants that the modules state,
and on nothing else; TLC evaluates these in the runs. They are:

- `HashAssumption` (the hash maps accounts to buckets), `NodesAssumption` (a list
  grows by at least one node), the finite set of accounts, names that are not "none";
- finite sets where the code has arrays: `Slots`, `PetSlots`, `Fellows`, `Clients`,
  `Nodes`, `Conns`, `Savers`, `Keys`;
- bounds that are numbers, and those the code needs: a party has at least two places,
  a side one, a client reads two notices, the hash table has a cell for every key
  behind its heads (the code allocates more when it is full, db.c:438);
- `TurnAssumption`: seats are places from 0 to 4, lairs from 10 to 19, no fighter is of
  two kinds or nobody, a pet names its master, and no item is carried by two at the start.

The three theorems about `RankTable` have the hypothesis `HeadDeletes = FALSE`, as the
run has: no head that has a chain is deleted.

Every theorem about a state is proved from an inductive invariant, `IInv`, by three
facts: it holds at the start, every action keeps it (one step of the proof, or one
lemma, for each action), and it implies the property. TLC checked each `IInv` on the
instances of the runs before it was proved. What it adds to the property:

| Module | Theorems | The invariant, and why it is needed |
|---|---|---|
| `LocksAndTables_proofs` | `TypeCorrect`, `SingleLock`, `ListsStayShort`, `LockTableIsAMap` | `GoodList` of each bucket: a node in use holds an account *of that bucket*, and no two nodes in use the same. An insert looks at one bucket only, so uniqueness over all of them needs the hash. For `BucketBounded` a count of the nodes against the accounts of the bucket. |
| `LocksAndTables_proofs` | `TableTypes`, `RanksAreByValue`, `TablesAreMaps` | `RankInv`: the list has each key once, and is in order if its type says so. `GoodHash`: every cell in use has a time at which it was put in, an entry leads to the latest of those put in before it, a head to the latest of all of its value; so a search comes to an end and finds what is there. The hash table and the list hold the same keys, which is why a rank or an update that finds a cell finds an entry; cells behind the heads never run out, by a count of the keys. The file is a good list, and says what the list says unless `updated`. |
| `SessionShutdown_proofs` | `TypeCorrect`, `AnswersFindTheirState`, `SessionsKickedApart`, `OnlineWithTheLock` | `AskedOnce`: a connection has one request or one answer under way, of the account it named and for the state it is in. `OneClaim`: for an account whose lock was not taken away there is one session, one grant under way *or* one last save under way, and the lock belongs to its server. `ClaimsApart`: of two claims on two servers one is closing or has its kick in the stream. |
| `SessionShutdown_proofs` | `ShutdownTypeCorrect`, `ClosingIsCounted` | While somebody waits nobody else is online and nobody is let in, and each of those that wait has a save in one of the two streams; so the answer that frees one never belongs to nobody. |
| `BookAndMail_proofs` | `MailTypeCorrect`, `NobodyOnlineWaits`, `KeepsItsPromise` | `RightInv`: ids on the streams are ids of mails of this addressee, and what is acknowledged has been there. `Told`: a mail for someone who is online is on its way to that server, is about to be asked for, or its acknowledgement is under way. |
| `BookAndMail_proofs` | `BookTypeCorrect`, `CardsSettle` | `ChangesAreTold`: behind every change of the table in a stream comes its broadcast. `AllSettled`: for each server and character, a broadcast or a question about it is under way, or the last answer on its way says what the table says, or none is and all cards are right. |
| `StreamBuffers_proofs` | `BufferTypes`, `PoolIsAccounted`, `OpenIsServed`, `StreamsAreKept` | A stream is told by its *path*, the sequence of its buffers, and the walk along `mbnext` is shown to find it. Paths are without repetition, no two have a buffer in common, exactly the buffers on a path are in use and `mbused` counts them; a free buffer has no text left. Appending fills the last buffer and takes new ones, consuming empties and frees the first ones, and what both do to the text is arithmetic with lengths of pieces. |
| `PartyBattle_proofs` | `PartyTypeCorrect`, `TablesOfAPartyAgree`, `DividedIntoParties` | `PartyAt`: the table of everybody, for each of the three modes, with each member once in its leader's table; and only those online are in a party, as an index is reused. |
| `PartyBattle_proofs` | `BattleTypeCorrect`, `OneBattleEach`, `WatchersWatch` | Parties have room on a side and whoever is followed leads itself (a leader brings its party); sides are finite, the second side of a WATCH battle is empty, and the two properties together: that nobody is left watching needs who is in which battle. |
| `Trade_proofs` | `TypeCorrect`, `AgreementsEnd`, `AgreementsMeet`, `PartnersMatch` | The server keeps no trace of who trades with whom, only the windows know: `DealInv` speaks of the window that a prompt player *will* have once it has read its notices (`Watch`), and says that two who will see each other see the same two offers, and that whoever waits has shown what its agreement says. |
| `GoodsAndLoot_proofs` | `TypeCorrect`, `NothingLost`, `GoldIsConserved`, `PetsInUseAreKept` | Each thing is in one slot of one player, and marked pets exist; each part of an exchange swaps two slots, moves into a free one or fails, and pays what it takes. |
| `GoodsAndLoot_proofs` | `TurnsAreSound`, `LootStaysInOnePlace`, `PetsSitByTheirMasters`, `TheFallenAreSettled` | `Sound` holds within an action too: kinds sit where they belong and in one place, the pet in the battle is the one its master has out, enemies yet to come are nowhere and carry what exists nowhere, a player out of the battle has HP or is in `fled`, and every item that exists is held once or is in `lost`. `Settled` (no HP, so dead) holds only between actions: one lemma per function of the code says what it makes of both, and that a blow leaves the striker in its place, so that `AddExpItem`, which does nothing when that place is empty, settles what has fallen. |
| `Families_proofs` | `FamilyTypes`, `ListAgrees`, `MarksFollow` | Two parts. `ListInv`: where the leader and the elders sit, and the counts of the list against it. `TaleInv`: for each character that missed no answer, what can be under way for it, given its marks and its place: it is listed once (`Alone`), nothing under way is of a later session (`Past`), without a mark nothing is under way and it is not listed (`FreeTale`), at most one request to found or join, and no verdict beside it (`AskTale`), at most one question of a login, after the requests of earlier sessions (`LoginTale`), at most one verdict, before what clears the marks (`AnswerTale`), and, if it is online, the last answer on its way, or its marks if there is none, says what its place says (`OnlineTale`). |
| `Families_proofs` | `BankTypes`, `NoGoldIsMade` | The type invariant is enough, as `GoldNeverMade` speaks of a step; but all the gold there is, in purses, in accounts, in the fund and in two streams of orders and receipts, is a sum over sets and sequences, and what a step does to each part of it are lemmas about sums. |

`LockTableIsAMap`, `DividedIntoParties`, `KeepsItsPromise`, `StreamsAreKept` and
`TablesAreMaps` are refinements: the abstract specification is instantiated with a
mapping (the holder is read from the node, the leader from the first index, what is
kept from the files, a queue from the text on a path, a value from its entry), and each
action is shown to be an abstract step or none. `GoldIsConserved`, `PetsInUseAreKept`
and `NoGoldIsMade` are action properties. The rest are invariants.

Recurring lemmas are about streams: what a sequence holds after `Append`, `Tail` and
`\o`, as sets (`In`, `Content`, `Has`), which the steps then use instead of indices.
Where the model folds over a sequence or walks along a chain, the proofs first show
what that recursion is: that the function it defines exists (by a least counterexample,
as no induction rule can be cited), and what it gives in terms of the whole sequence.

Only model-checked, and why:

- Liveness (`DuplicatesEnd`, `RequestsAnswered`, `TurnsEnd`, `ShutdownEnds`) and all
  that needs `ENABLED`: out of reach of the prover.
- `TypesOK` of `MCAccountSession` and `MCParty`, `ItemsNotLostOrDoubled` of `MCTrade`:
  they put together properties of modules that share no variable, and the theorems
  prove each of those for the specification of its module.
- The violations of the six runs above, which are what TLC is for.

## Not modelled

Passwords and SQL accounts (an outcome), file formats, character slots within an
account, packet counting and speed checks, text and status messages, the log.
Formulas (damage, attributes, magic) have no protocol and are left out; so are the
tables of items and objects, the NPCs, mail that pets carry, battles between
families, the buffers of gmsv (buf.c). `UNlockM_*` in saac, `TRADE_CheckTradeList`,
`tcpstruct_connect` and `delovertimeFMMem` are never reached.

## Plan

1. `HeadDeletes` and `Accept1_Full`: what of the table and of the pool survives the two
   operations that are excluded.
2. Modules for what is left: mail that pets carry (petmail.c), the objects on a map,
   the bus (npc_bus.c), NPCs with state of their own, the allocator of gmsv (buf.c).

# OTServ verification project

TLA+ modules, TLC configurations and TLAPS proofs for the server in `src/`
(an OTServ fork: the C++ core in `src/sources`, game content in Lua and XML).
The repository has no tests; its documentation is a one-line `README.md`, the
comments of the sources and those of `config.lua`. Every module is therefore
written from the code, and each definition is tied to its lines by the `map` of
`PROJECT.json`. Paths such as `dispatcher.cpp:92` are below `src/sources`.

Contents

1. [The system](#1-the-system)
2. [The modules](#2-the-modules)
3. [What the runs check](#3-what-the-runs-check)
4. [Disagreements between the code and its words](#4-disagreements-between-the-code-and-its-words)
5. [What is proved](#5-what-is-proved)
6. [What is only model-checked, and what is not modelled](#6-what-is-only-model-checked-and-what-is-not-modelled)
7. [Plan](#7-plan)
8. [Running it](#8-running-it)

## 1. The system

One process. The game itself is single-threaded: every change of game state is
a `Task` run by the *dispatcher* thread. Around it are the *scheduler* thread,
which turns delays into tasks, and the *service* threads (`serviceThreads`, 1
by default, `configmanager.cpp:105`), which run the asio handlers of all
sockets and timers. Signal handlers run in whatever thread they interrupt.

```
 sockets ──handlers──> service thread ──addTask──> dispatcher ──> Game, players, ...
                           │  ▲                      │   ▲  │
          m_connectionLock │  │ writes, onStop       │   │  └─ sendAll after each task
                           ▼  │                      │   │
                       Connection, Protocol <────────┘   │ addTask when due
                           OutputMessagePool              │
                           m_outputPoolLock           scheduler <── addEvent, stopEvent
```

Four locks order these threads: `m_taskLock` (dispatcher), `m_eventLock`
(scheduler), `m_connectionLock` (one per connection), `m_outputPoolLock`.

Inside the dispatcher the game is a heap of objects with bare pointers to each
other, kept together by reference counts (`addRef`, `unRef`, and a list
`releaseThings` that `Game::cleanup` empties), by pairs of members that must
agree (trader and partner, party and member, npc and customer, master and
summon, bed and sleeper), by copies in the clients, and by rows in a database
that are written now and then. What is hard there is not concurrency but the
order of calls: a script in the middle of a handler, a delayed task that finds
the world changed, a step of several that fails, a crash between two writes.

### Inventory

| Component (files) | State | Operations | Meets | Hard to get right | Correct when |
|---|---|---|---|---|---|
| **Dispatcher** (`dispatcher.*`) | thread state, task list | `addTask`, thread loop, `flush`, `stop`, `shutdown` | everybody | signal after unlock, front pushes, shutdown from inside a task, SIGTERM | no lost wakeup, order kept, accepted work ends, the thread ends |
| **Scheduler** (`scheduler.*`) | heap of events, ids wanted, last id | `addEvent`, `stopEvent`, thread loop, `stop`, `shutdown` | dispatcher, every timed behaviour | `stopEvent` against a thread that has popped the event, deadlines read before a sleep, ids that wrap | a stopped event never runs, a listed one does, none runs twice |
| **Connection** (`connection.*`) | state, pending reads and writes, errors, two timers, socket, reference count | accept, read and write handlers, timeouts, `send`, `close`, `closeConnection`, `releaseConnection`, `onStop` | service thread, dispatcher, pool, protocol | four sources of events on one object, destroyed through two retries and a dispatch | released once, nothing used after it is freed, closes complete |
| **Output messages** (`outputmessage.*`, `protocol.*`) | free list, automatic messages, messages waiting, one buffer per protocol, two reference counts | `getOutputMessage`, `send`, `sendAll`, `autoSend`, `releaseMessage`, `deleteProtocolTask` | connection, dispatcher, service thread | two threads, two locks, unlocked counters | counts exact, no message points to a deleted protocol, queued output leaves |
| **Game sessions** (`protocolgame.*`, `spectators.h`, `player.cpp`, `game.cpp`) | player of a protocol, client and spectators of a player, references of players | `login`, `connect`, `spectate`, `logout`, `disconnect`, `releaseProtocol`, kick, death, `cleanup` | dispatcher, scheduler, connection | bare pointers in tasks and in `Spectators`; a login that finishes a second later | one controller per character, no dangling pointer, no leak |
| **Waiting list** (`waitlist.*`) | list of places with timeouts | `login`, `cleanup` | login, client countdown | premium and ordinary order, expiry looked at only on a login | order kept, promise to the client kept, no starvation |
| **Safe trade** (`game.cpp:3042-3520`, `player.cpp`) | trade state, partner and item of a player, `tradeItems` | request, accept, close, notices of moved items | items, movement, logouts, scripts | everything that may happen to an item between offer and exchange | both sides agree, an offer does not change, both items or none |
| **Parties** (`party.*`, `player.cpp`, `chat.cpp`) | leader, members, invitations, points; the player's side of each; a channel | invite, join, revoke, pass, leave, disband, share | players, chat | objects that delete themselves, pointers on both sides, a map keyed by raw pointers | both sides agree, nobody shares unearned, no dangling user |
| **Spawns, raids** (`spawn.*`, `raids.*`) | blocks, the map of who stands in them, a check; the raid that runs, its event, references | startup, check, remove; start, next event, reset | scheduler, monsters | a chain of checks that stops itself; events that fail half-way; references that outlive a raid | one check, one monster a block, blocks fill; raids end |
| **Creatures** (`creature.cpp`, `monster.cpp`, `game.cpp`) | place, master, summons, target, friends, check vector, references | think, move, attack, summon, convince, die, remove, `cleanup` | map, conditions | lists on both sides, counts, an idle monster that nothing looks at | no dangling creature, counts exact, who is awake is checked |
| **Walks** (`creature.cpp`, `player.cpp`) | list of steps, three events, `walkTask` | walk, stop, follow, use from afar | scheduler | an event that is due when it is stopped | what waits for a walk is done or given up |
| **Paths** (`map.cpp`) | nodes of a search | `getPathMatching`, `getPathTo`, sight | creatures | estimates, limits of nodes | a way that can be walked, the cheapest where promised |
| **Items, containers, cylinders** (`game.cpp`, `container.cpp`, ...) | parent, count, weight | `internalMoveItem`, `internalAddItem`, money | trade, houses | partial moves and merges, remainders | items conserved, bags know what they hold |
| **Inventory** (`player.cpp`, `weapons.cpp`) | what is in hands and quiver, remembered weapon and weight | equip, exchange, shoot, give, take | items | exchanges refused half-way, two rules for hands | what is held goes together |
| **Decay** (`game.cpp`, `item.cpp`) | buckets of items, durations | start, check, transform, `cleanup` | items, scripts | an item listed while it is transformed | counts exact, nothing outlasts its duration |
| **Tiles** (`tile.cpp`, `protocolgame.cpp`) | the stack of things; a client's copy | add, remove, replace, update, hide | creatures, items | places in a stack told by number, ten at most, hidden creatures | the client's copy is the beginning of the tile's |
| **Conditions, equipment** (`condition.cpp`, `movement.cpp`) | conditions with ticks, varSpeed, varSkill | add, update, end, equip, take off | items, decay | what was added must be what is taken off | bonuses add up |
| **Growth and deaths** (`player.cpp`) | experience, level, skills, health, loot and loss | gain, lose, advance, die | scripts | scripts in the middle of an advance; a death that is denied | levels agree with what was given; one death is died once |
| **Fights** (`player.cpp`, `creature.cpp`) | skull, attackedSet, lock, damageMap, frags | blow, kill, end of fight, login | conditions, storage | marks kept in five places | marks end, one began, murderers are marked |
| **Houses** (`house.cpp`, `housetile.cpp`, `talkaction.cpp`) | owner, lists, windows, rent, warnings, transfer | buy, sell, invite, kick, pay, evict | trade, storage, beds | change of owner while somebody sleeps or edits a list | only the invited inside; evicted only after the warnings |
| **Beds** (`beds.cpp`) | sleeper of a bed, bed of a sleeper | sleep, wake, remove | houses, logins | a kick 50 ms later | both maps agree |
| **Guilds** (`ioguild.cpp`, `chat.cpp`) | ranks and invitations in memory and in rows | found, invite, join, promote, pass, leave, disband | storage, logins | acts on memory or on rows according to who is online | leaders own, nobody belongs to what is gone |
| **Chat** (`chat.cpp`, `game.cpp`) | private channels, reports of rule violations, clients' windows | open, close, invite, exclude, report, take, answer, reload | players | maps of raw pointers, copies in clients | users present, windows agree |
| **Npcs** (`npc.cpp`) | shop windows; states of talks and their queue | open, close, buy, sell; talk, wait, leave | players, Lua registry | who closes, in which order; who waits for whom | both sides agree; who waits is queued |
| **Storage** (`iologindata.cpp`, `iomapserialize.cpp`, `map.cpp`) | rows of players, houses, tiles | login, logout, rounds of saves, boot | everything | separate transactions, crashes, failures | what nobody touched survives |
| **Database updates** (`databasemanager.cpp`) | schema, version | one update for each version | – | a crash between statements, failures ignored | a version has what belongs to it |
| **Scripts** (`luascript.cpp`, events) | environments, temporary items, timers, events | run, nest, `addEvent`, reload | everything | re-entry from the middle of a handler | each script has its environment; a stopped timer stays stopped |
| Service manager, ports (`server.*`) | acceptors | open, accept, close, run, stop | connections | close before open; an inverted test in `close()` (`server.cpp:114`) | ports reopen, `run` ends |
| Connection manager (`connection.cpp:30-183`) | list of connections, login throttle | create, release, shutdown, throttle | service thread, main | `shutdown` against `onStop` | list = live connections |
| Login, status, old protocols | one answer | first packet | connection | – | answered and closed |
| Administration, manager protocols | session state | text commands | dispatcher | – | – |
| Packets, encryption | buffers | – | – | lengths | round trip |
| Game loop (`game.cpp`) | game state, check vectors, `releaseThings` | commands, checks, state changes | all of the above | – | see its parts |
| Configuration and tables | read at start | reload | – | – | – |
| Program start, signals (`otserv.cpp`) | – | start, exit, handlers | dispatcher, scheduler | handlers that take locks | – |
| Graphical console | window | – | – | – | – |

`PROJECT.json` lists the components with their sources and status, and under
`hazards` each thing in this code that a test would hardly reach, at its line,
with the properties that would notice it going wrong.

## 2. The modules

Conventions. One module per component; state as one variable per member or, in
the parts of the game world, as one record (`w`; `a` in Walks); one action per
handler, task or critical section, named after it; properties at the end, each
under a comment that says what it means for the code. A definition whose
comment begins with *Mutant* is not part of the specification: it is a plausible
bug in the definition that follows it, which `PROJECT.json` pairs with the
property that notices it. `MC*` modules give small instances. `*Proofs` modules
hold theorems only.

### The threads and the sessions

**Dispatcher** – `dispatcher.cpp`. A critical section of `m_taskLock` is one
step; `notify_one`, called after the unlock, is a step of its own, and so are
the two calls of the SIGTERM handler. The thread's `pc` names the places of
`dispatcherThread()` between which another thread may run. `Stop`, `Shutdown`,
`FlushOne`, `FlushRelock` and `FlushEnd` are what `Game::setGameState` and
`Game::shutdown` do in the middle of a task; `flush()` is the only code that
holds the lock over several steps, so `LockFree == pc \notin FlushPC`.
`FlushRelock` is a flushed task that asks for the lock its own thread holds.
`ticket` and `accepted` are history, for the order.

**Scheduler** – `scheduler.cpp`. `AddEvent`/`Notify`/`Return` are the three
parts of `addEvent` (lock, signal, read of the id after the unlock); `Pop`,
`PopEmpty` and `PassOn` are what the thread does with the top of the heap.
Ties are resolved in any order. Ids wrap at `MaxId`; the run has `MaxId = 2`,
where `NextId` gives 1 after 2, as the code does after 0xFFFFFFFF. One of the
two initial states is a server that has given out all ids but one.

**Timers** – the abstract specification: what the rest of the server relies on
when it hands a delayed call over and maybe takes it back. `Scheduler`
implements it under the mapping `TimerOf`.

**Connection** – `connection.cpp`, `outputmessage.cpp`, `protocol.cpp`, and of
`protocolgame.cpp` what a connection sees: the challenge, the first message,
the login task, kicks, output. The service thread (`spc`) and the dispatcher
(`dpc`) are both modelled with the places where one may wait for a lock of the
other. Reads, writes and timers are asynchronous operations whose handlers come
later, with the outcomes asio may report. A message is in exactly one place at
a time or held by a thread (`Held`). The two plain reference counters are
changed by a load and a store, two steps.

**Session** – `protocolgame.cpp`, `spectators.h` and the members of `Player`
and `Game` that a session needs. The dispatcher's queue and the scheduler's
events are sequences; a task is taken and run in one step, as nothing else runs
on that thread. It stands on what the three modules above establish: tasks in
order, events not lost, `closeConnection` once per connection. One character is
modelled, with several `Player` objects that stand for it one after another.

**WaitingList** – `waitlist.cpp`, the login around it and the client's
countdown. Time is in units of five seconds (every period in the code is a
multiple) and relative: an entry holds what is left.

| Module | Variable | Code |
|---|---|---|
| Dispatcher | `threadState`, `taskList` | `m_threadState`, `m_taskList` |
| | `pc`, `current` | program counter and local `task` of `dispatcherThread` |
| | `closed` | `Game::gameState == GAMESTATE_SHUTDOWN` |
| | `expired` | tasks for which `hasExpired()` |
| Scheduler | `life` ("listed"), `due`, `eventId` | `m_eventList`, `getCycle()`, `getEventId()` |
| | `eventIds`, `lastEvent` | `m_eventIds`, `m_lastEvent` |
| | `spc`, `deadline`, `action`, `cur` | the locals of `schedulerThread` |
| Connection | `conn` | `m_connectionState`, `m_pendingRead`, `m_pendingWrite`, `m_readError`, `m_writeError`, `m_receivedFirst`, `m_socket` |
| | `connRefs`, `protoRefs` | `m_refCount` of Connection and Protocol |
| | `autoSend`, `addQueue`, `outputBuffer` | `m_autoSend`, `m_addQueue`, `m_outputBuffer` |
| | `retries` | events of `releaseConnection` and `releaseProtocol` in the scheduler |
| Session | `prot[p]` | `m_connectionState`, `player`, `m_spectator`, `m_acceptPackets`, `m_eventConnect`, `m_refCount` |
| | `plr[y].owner`, `.spectators`, `.broadcast` | `Spectators::owner`, `spectators`, `broadcast` |
| | `plr[y].refs`, `.freed`, `.checked`, `.inVector` | the reference count, occurrences in `releaseThings`, `checked` and the check vector |
| WaitingList | `waitList`, `online`, `left` | `waitList`, `Player::autoList`, the countdown of the client (external) |
| Trade | `trade`, `tradeItems`, `where` | `tradeState`/`tradePartner`/`tradeItem`, `Game::tradeItems`, `Item::parent` |
| Party | `party`, `invitations`, `parties` | `Player::party`, `Player::invitePartyList`, the members of `Party` |
| | `channel`, `opened` | users and keys of `Chat::m_partyChannels` |

### Between players

**Trade** – the handlers of `game.cpp` and the notices of `player.cpp`. An item
is on the ground, carried, or in a bag; room for an item is decided when asked,
as *none*, *on top of a stack* or *a place*. Bags hold no bags.

**Party** – `party.cpp`, its callers, and the channel of `chat.cpp`. Operations
of `Party` are operators from a record to the set of records that may result;
`Settle` is what a record that becomes free does to everybody it names. Party
objects are addresses, which are reused.

**Channels** – private channels and the reports of rule violations: the maps of
`Chat` and `Game`, and in `view` what each client shows. `orphans` are windows
that a reload left without a channel, `forgotten` reports whose gamemaster has
left (`player.cpp:1669`).

**Guilds** – ranks and invitations of each player, in memory and in the rows,
with every command of the guild channel (`chat.cpp:586-858`) and the talkactions
that found and join. `handed` remembers guilds whose leadership went to somebody
who was not in the game, for which the code does not change the owner's row.

**Fights** – who has attacked whom, who may not leave, whom a death is credited
to, skulls and murders. **Growth** – experience, levels, magic and skills, with
scripts that give more in the middle of an advance, and what a death costs;
amounts stand for what rates and fractions make of them. The loops of the code
over levels are sums over an interval (`Total`), of which a loss finds the place
where it ends. What a level of magic or of a skill takes is a table of the
vocation (`Req[v]`, `vocation.cpp:518-543`), and a vocation is chosen with level
and tries as they are: from then on `given` counts by the new tables, `overpaid`
has the kinds that these find paid for already, and each frame remembers the
vocation under which its script was started. A login drops tries above what the
next level takes (`iologindata.cpp:521, 674`). Bounds: a vocation is chosen by who
has the one of rookgaard, and its tables reach as far as his levels; promotions
and offline training, by which the code changes tables too, are left out.

### Things

**Containers** – `internalMoveItem`, `internalAddItem`, removal and money over
bags, a depot and the ground. **Inventory** – hands and quiver: both rules of
`CLASSIC_EQUIPMENT_SLOTS`, the exchange, ammunition, the remembered weapon.
**Decay** – buckets, durations, `transformItem` of an item that may be listed.
**Tiles** – the stack of a tile and one client's copy of its beginning.
**Conditions** – timed conditions and equipment, and what they add to speed and
a skill. **Paths** – the two searches, one turn of the loop a step.

### Creatures

**Creatures** – the lists of players, monsters and summons and their references.
Whatever hurts a monster wakes it before its health falls (`Wake`, `Kill`:
`Monster::changeHealth`, `monster.cpp:1400-1411`), so that the one that dies is in
the check vector and its death is seen; so do the summons of one who goes.
**Walks** – steps, `walkTask`, the action that waits for time. **Spawns** – the
blocks of one spawn and its check. **Raids** – the events of raids, one of which
runs. **Shops**, **Talks** – npcs' windows and their queue of speakers.

### Houses and storage

**Lodging** – access lists, edit windows, kicks, beds. A list names players and
guilds or ranks (`isInList`), and the spouse of the owner has his rights; a divorce
(`SetPartner`) and a change of guild or rank (`ChangeGuild`) take access from
somebody inside without anybody being asked to leave: he is `lapsed` until the lists
or the owner change. The kick of who went to bed may be refused (`KickRefused`,
`protocolgame.cpp:350-408`) and is not tried again: he stays in the house, in the
game and in the map of sleepers (`awake`). Bounds: who may marry whom (`Couples`),
who changes guild (`Guildsmen`), names on a list (`MaxNames`).

**Rent** – days, rents, warnings, auctions, the transfer document (no crashes).

**Storage** – memory and rows of players and of a house, each save a transaction,
rounds of saves, shutdown, crash, boot. A save may fail and be rolled back, or be
committed without some of the rows and count as done (`short`, `dropped`):

- `saveMapRelational`, the binary savers and `saveHouses` ignore what could not be
  written and commit (`iomapserialize.cpp:223, 441-454, 540, 633, 645-648`), and
  nobody looks at the result of `saveHouse` in `setOwnerEx` (`house.cpp:140`): any
  of the house's items or the row of the house may be missing;
- `DBInsert::addRow` puts the row that comes when its buffer is full into the
  emptied buffer without counting it; if it is the last one, `execute()` writes
  nothing and succeeds (`database.cpp:85-122`). A player has two such lists, so
  at most two of his rows go that way (`LastRows`); the text for a container has
  seven values for eight columns, so such an insert fails.

A commit that fails counts as a save that was not done.

**Migrations** – the updates of the database, statement by statement.

**Scripts** – environments, temporary items, timers, events, reloads.

### Compositions

Components that share state are modelled with the part they share (Trade has the
items, Party the channel, Lodging the beds). **World** puts side by side the parts
of the game world that theorems are about, each in a scene of its own: `scene`
says which one a behaviour shows, `w` is its state. They are fights, guilds, the
house, rent, storage, shops, talks, chat, reports, the tile, scripts, timers,
conditions, growth and deaths. **MCWorld** adds scenes that are only
model-checked (pack, pair, ways and schema), **MCMeeting** has trades,
parties and items, **MCTimed** what must happen in the end. Parts in different scenes
share no state in the models; a scene keeps TLC from multiplying states that have
nothing to do with each other.

## 3. What the runs check

State counts are those of complete searches, up to symmetry where there is one.

| Run | Instance | States | Question |
|---|---|---|---|
| `dispatcher` | 2 producers, 5 tasks: one plain, one that may expire, one pushed to the front, two shutdowns (the second by the SIGTERM handler) | 95 775 | Is the queue a queue, is every wakeup delivered, does accepted work end, does the thread end? |
| `dispatcher_sigterm` | 1 task and a shutdown by SIGTERM | violation | Does SIGTERM end the thread? |
| `scheduler` | 1 caller, 2 events, delays 0 and 2, least delay 1, clock to 2, ids to 2, both shutdowns | 192 654 | Is no deadline overslept, does every event end, is it a timer service? |
| `connection_game` | 2 messages, both kinds of socket, first message accepted or refused, login answered | 71 242 | Is a connection released once, does everything it points to outlive it, does a close complete? |
| `connection_deadlock` | 3 messages, an OTClient whose login is refused | violation | Does queued output leave? |
| `session_replace` | 3 connections, one may watch, 2 `Player` objects, queue of 2 | 596 518 | Who controls the character, and does any pointer dangle? |
| `session_live` | 2 connections, 2 `Player` objects | 9 304 | Are players that left freed, and does a replacement end? |
| `timed` | waiting list: 4 characters, 2 seats; a spawn of 2 blocks; 3 raids; a walk | 39 310 | Is the promise to a client kept, its order, and does everybody get a turn? Do blocks fill, raids end, waiting actions happen? |
| `waiting_zero` | `maxPlayers = 0` | violation | Is 0 no limit? |
| `meeting` | trade: 3 players, 2 places, a bag and 2 items; party: 3 players, 2 addresses; items | 70 091 | Do the two sides agree, is the exchange of both or none, is nothing made or lost? |
| `trade_stack` | trade with an item that stacks | violation | The same, with stacking. |
| `world` | 19 scenes, below | 1 211 369 | The properties of each part. |

**Dispatcher.** `NoLostWakeup`: the thread never waits on a non-empty list
unless someone is about to notify it – `addTask` signals only for a list it saw
empty and after the unlock, so this takes two producers and a spurious wakeup
to get wrong. `Fifo`: tasks added at the back start in the order they were
accepted, through `stop()` and `flush()`. `AcceptedTaskEnds` and
`ShutdownEndsThread` share an exception, spelled out in the formulas: a flushed
task that calls `addTask` or `stop` while `flush()` holds the lock its own
thread needs ("relock", `dispatcher.cpp:136-150`), which is real.
`ShutdownEndsThread` is also silent about a second shutdown by SIGTERM, which
has a run of its own.

**Scheduler.** `NoOversleep`: the deadline read before the sleep is never later
than the first event unless a signal is on its way. `ImplementsTimers`:
refinement of `Timers`. `ListedEventEnds`: every listed event is run, deleted or
lost to a shutdown, or the thread has taken the top of an empty heap ("crashed",
`scheduler.cpp:48`), which a spurious wakeup can do. Two things the run shows
beside its properties: a thread that leaves `wait()` on a list that was empty
takes the first event *without* waiting for it to be due (`scheduler.cpp:43-55`),
and after `Game::shutdown` a thread in `wait()` stays there, as nobody signals it.

**Connection.** `ReleasedOnce`: the release waits, or `onStop` is queued, or it
has run – exactly one of them once closed. `LoginFindsProtocol`: no login task
finds its bare `this` deleted. `NothingDangles`: the unlocked counters equal the
messages in use, a stopped connection is in no message, and no message or retry
points to a deleted protocol. `NoOverlappingWrites`, `WritesOutliveClose`: one
asynchronous write at a time, and a close lets it finish unless it failed or a
timeout expired. `ClosedIsFreed`: a closed connection and its protocol are freed
in the end. In this run no game login is refused in the *first message*: with
that verdict the service thread releases a message while the dispatcher may be
taking one, both by a plain increment, and an update may be lost. Then
`NothingDangles` does not hold. That race is in no run (section 4,
*References*); section 5 says what is proved with and without it.

**Session.** `OneController`: whoever holds a player and has not been released
is its client, whatever logins replace each other. `PointersLive`: no bare
pointer in a task, an event or `Spectators` outlives what it points to, the
count of a player equals those who hold it, and nobody watches who is not
broadcasting or has left. `SessionsSettle` (liveness): players that left are
freed, and replacements end.

**Timed.** `PromiseKept` (what the client counts down and what the server
keeps agree), `NoOvertaking` (who is let in leaves a seat for everybody before
it), `EveryoneGetsATurn` (once nobody enters in front any more, a patient
client gets in or is tried, however many impatient ones come and go).
`SpawnsFill`: a block that is empty without somebody in sight fills again,
though monsters are killed, convinced and removed. `RaidsEnd`: a raid that runs
ends or a reference of it is left. `WaitingActionEnds`: an action that waits for
a walk is done or given up, whatever stops the walk.

**Meeting.** `TradersAgree`, `OfferIsKept`, `BothOrNone`: see the comments of
Trade. `BothOrNone` is about two items carried by their owners: an offer from the
ground that its owner has no room to carry is exchanged differently by the code.
`PartiesAgree`: both sides of every pointer, for parties that delete themselves
and addresses that are reused; sharing only where all have fought *since they
joined*; no channel points to a player that has left. `ItemsAccounted`: decaying
items are counted in every list and never late (scene *decay*: two items, four
types); moves, merges, payments and the transfer to a depot make and lose
nothing, bags know content and weight (*bags*: three stacks of coins, a backpack,
a pouch, a depot); hands hold what goes together, and the remembered weapon is
one of them (*hands*: nine items, classic and modern rules).

**World.** A property covers one or more scenes:

| Property | Scenes | Instance |
|---|---|---|
| `CreaturesAgree` | `pack`, `pair` | a player and two monsters, one check vector; two players, a monster and two vectors |
| `FoundWays` | `ways` | every 3 × 3 floor of free, taken and blocked tiles, four searches |
| `UntouchedSurvive` | `storage` | one relic, two players (one privileged), a house; any number of crashes, failures and partial writes |
| `UpdatesHold` | `schema` | MySQL from version 0, the provided SQLite from 25, to 42; three settings of encryption; one crash |
| `BonusesAddUp` | `conditions` | a ring of four types, three durations, two amounts |
| `HouseAgrees` | `house` | two players, one bed; one may marry the other and join or leave a guild; one name on a list |
| `EvictedAfterWarnings` | `rent` | two players, five days, two warnings |
| `GuildsAgree` | `guilds` | two players, one guild |
| `NpcsAgree` | `shops`, `talks` | two players with two npcs; three talks that wait with one |
| `ClientAgrees` | `tile`, `chat`, `reports` | a client that keeps 3 things of 5; two players, two channels; two players who may report and answer |
| `ScriptsAgree` | `scripts`, `timers` | an item and two timers, with three kinds of events in both scenes; two environments and three frames |
| `GrowthAgrees` | `growth`, `deaths` | four levels, magic and one skill, two scripts deep; four vocations, one of which has tables of its own; deaths with two charms, two kinds of blessings and a hardcore zone |
| `FightsAgree` | `fights` | two players, a summon, one murder makes a red skull |

What these properties except, they except by name, in the formula and in its
comment; the exceptions that matter most to a reader:

- `UntouchedSurvive`: an item that the last save of its keeper dropped unnoticed.
  It may be lost, but is in the rows of no second keeper.
- `HouseAgrees`: who was not thrown out for want of room, whose access lapsed, and
  who got in by a bed and stayed because his kick was refused. A player whose kick
  was refused may sleep in several beds; the map names one of them.
- `UpdatesHold` says nothing of the updates 0, 1 and 10 after a crash.
- `GrowthAgrees`: the kinds that a new vocation's tables find overpaid, until the
  next advance or login; deaths made cheap by one that was denied.
- `ScriptsAgree`: a timer that is stopped in its own run is erased twice
  (`luascript.cpp:958`), which ends the behaviour as modelled; so does an unloaded
  event for moved items.

The largest scenes are `house` (223 110 states), `storage` (174 310), `timers`
(171 872), `growth` (127 226), `scripts` (75 328), `pack` (52 664), `deaths` (30 886)
and `pair` (28 547).

Deadlock is checked where the system never stops of itself (Connection,
Session, Timed). The other configurations turn it off: the dispatcher and
scheduler threads end, the clock of the scheduler run ends, a trade in which
both have accepted and both have left is an idle server, and several scenes of
the world come to a bound (days, versions, a search that is over).

### Bounds, and why they are enough

- *Tasks, events, messages* are objects used once. Five tasks give each role
  (front, timed, shutdown) a task that may be behind or before another; two
  events are the least for which one may be before another; two messages let
  one wait behind one under way.
- *Producers, callers.* Two producers race for the empty list. The scheduler
  run has one caller, the dispatcher thread; its safety properties are theorems
  for any number of callers.
- `MaxTime = 2` with delays 0 and 2 (raised to `MinTicks = 1`): events in
  either order, and ties. `MaxId = 2`: the ids wrap within two events.
- `SlowLimit = 1` stands for the 100 of `send()`: one pending write is the limit.
- `MaxGameTasks`, `MaxTasks` bound only what *other* work is queued; the tasks of
  the component itself are not bounded.
- Three connections: one that plays, one that replaces it, and one that
  replaces that or watches. Two `Player` objects: one that has left while
  another stands for the same character.
- Four characters for two seats: both seats taken, and two in the list, the least
  for which order matters. Two blocks and a batch of one: a block may wait for
  the other. Three raids: one for each kind of reference. A walk of one step
  with three requests and three events in flight: the last may overtake the first.
- Three players: a trade and a third party to it; a party with two members,
  between whom the leadership may go.
- *Stacks* hold two for 100, bags two, the depot one index, so that each is full,
  nearly full and split. *Tiles:* the client keeps three for ten, of five
  things, so that things come into its view and leave it. *Scripts:* two deep
  for the 21 of the code, so that the limit is met.
- *One* relic, house, bed, guild: items do not meet in Storage; more beds (two),
  guilds (two of three players), crashes (two) and players (three in Channels)
  were searched separately while the models were written, and are covered by the
  theorems where there is one. `MaxRows = 1` leaves the black skull to the theorem.
- *Symmetry* is used only in runs without liveness, over sets whose members the
  module does not tell apart.

### Fairness, and why the code justifies it

| Module | Weak fairness of | Because |
|---|---|---|
| Dispatcher | the thread; `Notify` and `StopBySignal` of each producer | the operating system runs threads; a thread past its unlock goes on |
| Scheduler | the thread, the clock, `Notify`/`Return`, `Run` of handed events | the same, and a handed task runs by `AcceptedTaskEnds` |
| Connection | every step of a handler once begun, aborted operations, timers, `onStop` | asio completes operations on a closed socket and expires timers; a silent peer is *not* assumed to answer |
| | *strong*: queued tasks, retries, `Collected` of what is ripe | the queue is served in order between other tasks (`Fifo`), `checkCreatures` always brings more tasks, and messages grow older than 10 ms |
| Session | each session task, each event, `Uncheck`, `Cleanup` | dispatcher and scheduler as above; `checkCreatures` reschedules itself |
| | *strong*: `DeleteProtocol` | messages do not keep a protocol for ever (`ClosedIsFreed`) |
| WaitingList | the clock, logouts, the patient clients' logins | clients and their users are outside the code; only patient ones are promised a turn |
| Spawns | the clock of each block; *strong*: a check that finds room | time passes; a player does not stand on the same place for ever |
| Raids | `executeRaidEvent` of each raid | the scheduler runs what is due |
| Walks | `RunTask`, `Fire`, `Rest` | dispatcher, scheduler, and the exhaustion of an action ends |

No fairness is assumed of clients otherwise: they may be silent, hang up or
send nothing.

## 4. Disagreements between the code and its words

Four runs end in a counterexample, each to a statement of the repository.

- `dispatcher_sigterm`: `otserv.cpp:359` says of the SIGTERM handler
  "//shutdown". The handler queues `Game::shutdown` and then calls
  `Dispatcher::stop()`, which overwrites the state. If the dispatcher has run
  the task in between, TERMINATED becomes CLOSING, the thread waits for tasks
  that nobody can add, and `main` waits for the thread.
- `connection_deadlock`: `outputmessage.cpp:112` says which messages `sendAll`
  sends. After a refused login of an OTClient it sends none: `parsePacket`
  holds the connection lock and asks the pool for a message
  (`outputmessage.cpp:172`), `sendAll` holds the pool lock and asks the
  connection to send (`connection.cpp:466`).
- `waiting_zero`: `config.lua:63` says that `maxPlayers` 0 is no limit; to the
  waiting list it is no seat.
- `trade_stack`: `playerAcceptTrade` (`game.cpp:3266`) tests whether both items
  could be added *with* stacking and then moves them with
  `FLAG_IGNOREAUTOSTACK`, ignoring the answers; where the only room was on top
  of a stack one item changes hands and the other does not.

Other behaviour that the models have because the code has it, and that its
authors may not have meant. No line of the repository says otherwise, so there is
no run for it; where a property would fail for it, the property names it as an
exception.

- *References.* `m_refCount` is a plain counter changed by two threads
  (`connection.h:141`, `protocol.h:54`, `outputmessage.cpp:145-150, 213-215`).
- *Guilds.* Passing the leadership to a vice leader who is not in the game leaves
  `ownerid` as it was; with a guild founded meanwhile one player leads two guilds.
- *Houses.* `updateAuctions` sets an owner without resetting the warnings; a transfer
  document moves the house whoever owns it by then; who cannot be put out for
  want of room at the entry stays inside, and so does who loses his access by a
  divorce or by leaving a guild, or whose kick out of bed is refused.
- *Storage.* A logout gives up after three failed saves (`player.cpp:1707`), a
  round ignores a failed save (`game.cpp:288`), the savers of the map commit what
  they could write (`iomapserialize.cpp:441-454`), the last row of a full buffer is
  dropped (`database.cpp:100`), a full depot of an evicted owner loses the rest
  (`container.cpp:469-475`).
- *Growth.* Choosing a vocation leaves levels and tries as they were under other
  tables; what is overpaid then is an advance with the next try, or is dropped by
  the next login.
- *Updates.* Several statements of one update leave the text of the last query in
  the stream, so that an `UPDATE` is lost (cases 0, 1, 6); case 0 writes the new
  number before the work; SQLite at version 24 or below repeats the same update
  for ever.
- *Fights and deaths.* A murder counts before the last hitter's script may deny it
  (`creature.cpp:745`); a death denied in a hardcore zone leaves the next one free of
  loss; damage by a summon that is gone is credited to nobody.
- *Scripts.* A nested `reset()` frees the temporary items of the outer script; unregistering
  the events of a type erases under an iterator and then advances it once more
  (`creature.cpp:1736`), which the models leave out; a load ignores that no environment was left.
- *Chat.* A reload leaves clients with windows of channels that are no more;
  `removeUserFromChannels` erases while it iterates (`chat.cpp:508-528`).
- *Items.* An exchange refused half-way leaves the old item away
  (`game.cpp:1574-1601`); a gift that merges into a stack leaves the remembered
  weight stale; `internalMoveItem` answers "no error" when it moved nothing.
- *Npcs.* One who has been called stays at the head of the queue until he speaks;
  a shop window survives the npc's walking away.
- *Paths.* The estimate is higher than the cost on diagonals, so that the way found
  by `getPathMatching` need not be the cheapest.
## 5. What is proved

TLAPS checks the theorems below for every value of the constants that the
named assumptions admit; the provers' leaves are SMT, Zenon and LS4. In the last
column, a property of a run stands after the theorem that states it.

| Module | Assumption | Theorems |
|---|---|---|
| `QueueProofs` | `DispatcherAssumption`; `MaxPlayersAssumption`, `PlayersAssumption`, `SwitchAssumption` | `TypeCorrect`, `NoLostWakeupHolds` (`NoLostWakeup`), `FifoHolds` (`Fifo`), `ListedOnceHolds`, `ReleasesFirstHolds`; `PromisesKept` (`PromiseKept`), `NobodyOvertaken` (`NoOvertaking`), `ListInOrder` |
| `ConnectionProofs` | `ConnectionAssumption` | `TypeCorrect`, `ReleasedOnceHolds` (`ReleasedOnce`), `LoginFindsProtocolHolds` (`LoginFindsProtocol`), `NoOverlappingWritesHolds` (`NoOverlappingWrites`), `WritesOutliveCloseHolds` (`WritesOutliveClose`), `NothingDanglesHolds` and `NothingDanglesUnlessRaced` (`NothingDangles`), `OneCloseTaskHolds`, `PendingWriteCountsHolds` |
| `SessionProofs` | `SchedulerAssumption`; `SessionAssumption` | `TypeCorrect`, `NoOversleepHolds` (`NoOversleep`), `SchedulerImplementsTimers` (`ImplementsTimers`), `TimeoutFindsDueEventHolds`, `StoppedNeverRunsHolds`, `IdsMatchEventsHolds`, `DispatcherReadsLiveTaskHolds`; `PointersStayLive` (`PointersLive`), `OneControllerAlways` (`OneController`), `StreamsAreOnAir` |
| `MeetingProofs` | `ItemsAssumption`, `PlacesAssumption`; `PartyAssumption` | `TypeCorrect`, `TradersAgreeHolds` (`TradersAgree`), `OfferIsKeptHolds` (`OfferIsKept`), `BothOrNoneWithoutStacks` (`BothOrNone`), `OffersAreHeldHolds`; `PartyTypeCorrect`, `PartiesAgreeHolds` (`PartiesAgree`), `SharersFoughtHolds`, `ChannelUsersPresentHolds` |
| `WorldProofs` | `WorldAssumption` | `FightsAlwaysAgree` (`FightsAgree`), `GuildsAlwaysAgree` (`GuildsAgree`), `HouseAlwaysAgrees` (`HouseAgrees`), `EvictedOnlyAfterWarnings` (`EvictedAfterWarnings`), `UntouchedAlwaysSurvive` (`UntouchedSurvive`) |
| `GrowthProofs` | `WorldAssumption` | `BonusesAlwaysAddUp` (`BonusesAddUp`), `GrowthAlwaysAgrees` (`GrowthAgrees`) |
| `ScriptProofs` | `WorldAssumption` | `NpcsAlwaysAgree` (`NpcsAgree`), `ScriptsAlwaysAgree` (`ScriptsAgree`) |
| `ClientProofs` | `WorldAssumption` | `ClientAlwaysAgrees` (`ClientAgrees`) |

The assumptions say only what kind of value each constant is, that the NULLs
are not objects and, where a limit of the configuration is meant, that it is
at least one. Two of the parts of `WorldAssumption` say more, about the tables of the
server. `ConditionsAssumption`, of the types of items: what becomes another when
it is put on adds nothing itself and the other requires no more than it; what
becomes one of another kind when it wears out requires no level, and what it
becomes does not do so again (data/items, data/movements). `GrowthAssumption`:
each level takes more experience than the one before, and by the tables of each
vocation no less of magic or of a skill, until the numbers wrap around after the
last one, there below what any level takes of anybody (`player.h:167`,
`vocation.cpp:518-543`); and who has no vocation yet loses skills and things
(data/XML/vocations.xml). TLC evaluates both on the instance of the run `world`.

**Dispatcher.** The order is a statement about sequences: `QueueInv` adds to
`ListedOnce`, `Fifo` and `ReleasesFirst` that the listed tasks carry increasing
tickets below the number accepted (`ListOrdered`, `TicketBound`) and what the
thread holds in its local (`CurrentTask`); otherwise a task could be pushed
that had been taken, or a flushed task be the one under way. Two lemmas about
the list – pushing at either end, popping at the front – are used by every
action. `NoLostWakeup` is inductive with the types alone.

**Scheduler.** `EventInv` (ids are those of listed events, stopped events are
in no hand, the thread's local is what it popped) gives the ids, `StoppedNeverRuns`
and the refinement: each action is one step of `Timers` or leaves it alone, and
the cases in which it could do neither are excluded by `EventInv`. `SleepInv`
ties the deadline to the place of the thread, and gives the two theorems about
sleeping.

**Connection.** `IInv` is `TypeOK`, `OpenInv` (an open connection counts its
reads and writes), `QueueInv` (one close task at most, no login behind it, and
one exactly while the close is unanswered), `BusyInv` (what the service thread
knows inside a handler) and `LifeInv` (where the release is, and that the
protocol is attached as long as the connection is open). `ReleasedOnce` needs
all of it: a second `closeConnection` is excluded by the queue, a second
`releaseConnection` by the retries. That the counters never go below zero is
part of `TypeCorrect`.

What points to a connection is a second layer, `LiveInv` over `IInv`: every
message is in one place (`Placed`), the counters of the connection and of the
protocol are the messages that hold them, give or take the increment or
decrement a thread is in the middle of (`Counted`, `Loaded`), a stopped
connection is in no message, and a deleted protocol in none and in no retry.
The counts are cardinalities, so each step moves one message out of one set into
another, and the lemmas say by how much. The attempt at a proof found that
`NothingDangles` is *false in general*. On a single socket, a login refused in
the first message makes the service thread take a message for the answer while
the dispatcher may be writing to the same connection; both change the plain
`m_refCount` (`connection.h:141`), and an update may be lost. `Racing` says that
both are in the middle of such a change. `NothingDanglesUnlessRaced` is the
theorem for every behaviour without it, and `NothingDanglesHolds` shows that
there is none if the service thread never answers itself (`Silent`: what the run
`connection_game` assumes, as it leaves "refuse" out of `Verdicts`).

`WritesOutliveClose` is an action property: a socket with a write under way is
closed only in a step in which a timeout of it is served. Its invariant `WriteInv`
ties the socket to the counters: once closed it is not open, and while it is open no
write has failed and `m_pendingWrite` is one exactly while one is under way. Each
action is then shown to leave the socket alone, to find no write under way, or to be
a timeout.

**Session.** `QueueSound` is about the tasks and events: nothing that the
service thread queues for a protocol follows the close of its connection; at
most one release and one delayed connect of it are on their way, and the connect
holds `m_refCount`, so that the protocol is still there when it runs. `WorldSound` is
about the objects: a protocol and its player are each other's (`Bound`), who is
in the world, dead or watched has its place (`Held`), and `refs` of a player is
the number of those who hold it (`Counted`). Both are needed at once: a release
finds its player because the task was queued once, and is queued once because
the connection closes once. `shutdown` and `Game::kick` close several connections
in one step; what that leaves in the queue is a recursive function over the
protocols, and the proof goes by induction over the set of numbers for which it
holds (`NatInductionOnSets`), which the provers can instantiate.

**WaitingList.** The list is what a recursive filter leaves of it
(`cleanupList`), and the same induction over a set of numbers shows that the filter keeps order,
keeps whoever has time left and drops the rest. `PromisesKept` then follows from an
invariant that a client's countdown is never behind the server's, and
`NobodyOvertaken` from the order of the list, premium before ordinary.

**Party.** `IInv` is `TypeOK`, `AllGood` (each record is well formed and each
live one names somebody to lead or wait for), `Mirrored` (both sides of every
pointer), `Present`, `PointsEarned` (points belong to those who have fought
since they joined) and `ChannelsPresent`. One lemma per operation of `Party` on
records, one about `Settle`, and one per action.

**Trade.** `IInv` is `TypeOK`, `Paired` (each trader is the partner of its
partner, and one of the two offers something), `NearBy` (both are in the world
and within reach), `Listed` (`tradeItems` and `tradeItem` are inverse), `Held`
(an offered item is with its owner or at its feet), `Apart` (no offer is inside
another) and `Flat` (no bag in a bag). The code never checks most of this: it
relies on the notice a player gets when an item moves. The lemma behind it is
`ToldAll`: whoever offers an item is told of everything that moves where it is,
be it that player's inventory or the ground. `Held` and
`Apart` are inductive only together, as whom the notice closes the trade of
depends on what else is in the same bag. `OfferIsKept` is an action property
over the same invariant. `BothOrNone` is proved for `Stackable = {}`, an
antecedent of the theorem; the run `trade_stack` is the counterexample without it.

**World.** Each scene has an invariant of its own, and the theorem about a
property says that it holds in every scene:

- *Fights.* `Sound`: lists of the attacked only name others, a lock runs as long as
  a condition does, marks are those of a murder (`KilledMarks`). The hard action is
  a death, which changes the marks of everybody in `damageMap` at once.
- *Guilds.* `Loyal` (who belongs, in memory or in a row, belongs to a guild that
  exists) and `Founded` (an existing guild has a leader who owns it, or it was
  handed over). The first attempt failed because the command "pass leadership" may
  name somebody who is not in the game, whose row is changed while the guild keeps
  its owner: `handed` remembers these, and the property excludes them by name.
- *Houses and beds.* `Housed` (`WindowsClosed`: no window of who is out of the house
  or of the game; `Slept`: beds and the map of sleepers), and `GuestOf` of each player:
  inside he is invited, by name, by guild or by marriage, or the kick that is on its
  way takes care of it, or he is stuck or lapsed. Whatever leaves owner, lists,
  members and spouses alone (`SameAccess`) leaves every `GuestOf` alone; a divorce or
  a change of guild puts whom it bars into `lapsed`, which the next sweep of the house
  empties (`LapsedSound`, `ThrownOutSound`).
  The proof showed that the arms of that function overlap, which the model had read
  as exclusive.
- *Rent.* `Warned`: the number of warnings is the number of rents unpaid since the
  house was last paid for or changed hands.
- *Storage.* `Kept`: an item that nothing has spoiled is in one place, in the memory
  of a keeper who is present or in the row of one who is not, or in none if a save
  dropped it (`InOnePlace`); if nobody touched it since the last whole round, memory
  and row of its keeper are in step but for what was dropped (`InItsRow`, `InStep`).
  `Progress` says what a round has saved so far, through failures and crashes. That
  nothing is ever in two rows needs no exception for partial writes: a save deletes
  the rows of its keeper before it writes any.
- *Conditions* (`GrowthProofs`). What a player has of speed and skill is a sum over the conditions and
  things that he has: `Sums` is a sum over a finite set, in any order (`AnyOrder`), and
  `SumSplit` and `SumOfChanged` say what one more, one less or another value of one
  makes of it. The invariant ties each condition to what it has added (`Booked`), its
  ticks to the clock (`Lasting`), and what is worn to what was added for it
  (`Dressed`, and `Coming` for what is on its way through a transformation). A round of
  the loop over conditions is a step of a recursive function over numbers, and the
  proof an induction over the rounds.
- *Shops* (`ScriptProofs`). `WindowOf`: a player with an npc has a window, and the npc has the player
  in its list.
- *Talks* (`ScriptProofs`). The loop over the list of talks and the queue of those who wait are recursive
  functions over numbers, so the invariant is about a state in the middle of the
  loop: `InLine` (nobody waits twice), `OneEach` (one talk for each player), `OnHand`
  (who is marked as queued is in the queue, or has left and is still to be visited).
  An induction over the set of rounds for which it holds gives the theorem.
- *Scripts* (`ScriptProofs`). `Nested` says that the environments are stacked as the scripts are: there
  is a running sum `b` of what each script takes (a buffer takes two), and the
  environments of script *k* are those between `b[k-1]` and `b[k]`, unless they ran
  out. `ItemsSound`: the lists of temporary items and the environments that know an
  item agree (`Owned`), so that the reset of an environment frees each of its items
  once. `TimersSound`: a timer that is wanted is pending, due or running, and never
  one that was stopped. `EventsSound`: a script that runs is of an event that is
  loaded; the script of a timer is the outermost one, and its timer is wanted unless
  it was stopped in this very run, so that only such a run ends with a second erasure.
- *Growth and deaths* (`GrowthProofs`). The lemmas about `Total` (that it exists, is one,
  splits in the middle and changes with the last value) go by induction from the
  start of the interval (`UpFrom`). `LevelsSound`: the level is the highest that the
  experience pays for, and the health is `Start` and the gains of the levels below;
  with `GainsType`, that a level lost costs what it gave, whichever vocation
  counts at it, no loss is cut off at zero. `TriesSound`: what is spent on the levels of a kind and what
  the frames of scripts still owe to it is what was given (`KindSound`), and each frame
  fits the level it will go on from (`FrameFits`), which decides whether the code's test
  for the last level means what it says when the scripts return; a kind that no frame
  owes anything has no level unclaimed (`Done`). `LoweredIs` says that a loss leaves
  just what it should of what was spent. What was given is valued by the
  tables of the vocation he has, so choosing one values everything anew, and `given`
  of a kind is what `Spent` makes of its tally then; a kind that the new tables find
  overpaid is excepted from `Done` until its next advance. `DeathsSound`: who may die again (`Alive`) has
  left no corpse, and who is excepted from the loss is excepted from the drop
  (`Spared`); a death goes through `Prepared`, `KilledBy`, `Dropped` and `Dead`, each a
  lemma on records. The proof found the property wrong in one corner: who dies in a
  vocation that is excepted, and is sent back to rookgaard by it, is no longer excepted,
  with the corpses he left before; they count no more.
- *Chat and reports* (`ClientProofs`). `ChannelOf`, `ReportOf`, `ListOf`: what the chat
  keeps against what a client shows, with the windows that a reload orphaned.
- *Tile* (`ClientProofs`). `Laid`: the stack is ground, things on top, creatures and
  things below, in that order. `Knows`: the client's copy is the beginning
  of the stack, or the code has lost it. An index of a thing is found on the server's
  stack and applied to the client's, so each lemma says what inserting or removing
  at an index does to the first things of a sequence that is put together of four.

Theorems whose property no run checks – `ListedOnce`, `ReleasesFirst`,
`StoppedNeverRuns`, `OneCloseTask`, `ListInOrder`, `StreamsAreOnAir` and the like –
are parts of the inductive invariants.

## 6. What is only model-checked, and what is not modelled

*Only checked.*

- All liveness, with its fairness: the proof system has no `ENABLED`.
- `BothOrNone` with items that stack, which the code does not keep.
- `CreaturesAgree`, `FoundWays`, and `ItemsAccounted` for bags and decay:
  their modules have recursive operators (a creature that is freed releases others,
  a search turns until it is done), about which the provers accept no theorem.
- `ItemsAccounted` for hands, whose weight is a sum over what is worn; and
  `UpdatesHold`, where the statements of the updates are the data of the proof:
  there is little for a theorem to say beyond what the run has searched.
- Spawns, Raids and Walks: their properties are liveness.

*Assumed.* One service thread, the default: with more, handlers of one
connection could overlap, which asio allows and the code excludes only in part.
Calls that start an asynchronous operation do not throw. In Connection the
dispatcher is running, so tasks are not refused; the shutdown of the dispatcher
is in its own module. Scripts called in the middle of a handler answer yes or
no and, where the module says so, have the player kicked or given something;
only Scripts and Growth have them re-enter the handler.

*Left out of the models, by name:*

- Session: packets of play; logins refused before the login task; an event
  that overtakes a release scheduled before it (at 50 ms the shortest delay
  there is); the output messages of a protocol, which are a nondeterministic
  "busy" at its release (Connection has them); `cleanup()` called inside
  `refreshMap`; `ALLOW_CLONES` is a constant and FALSE in the runs,
  `REPLACE_KICK_ON_LOGIN` is TRUE. A second `login` on a protocol finds no
  connect pending, as `m_eventConnect` (`protocolgame.cpp:330`) is that of the
  new protocol: the comment that a pending connect is not overridden is about a
  case that does not arise, and the later of two connects is refused by
  `hasClient()`.
- WaitingList: names and addresses, which are the character.
- Trade: positions and distances (a place is what is within reach), bags in
  bags, and the sale of a house through a trade. A script that denies a trade
  leaves both in "accept", from where they can only close it.
- Party: levels, distances and the age of a blow, which decide
  nondeterministically; so does who succeeds a leader.
- Lodging: doors, guild halls, and players whose group lets them edit every house
  (`PlayerFlag_CanEditHouses`). Rent, Guilds: crashes (Storage has them for
  items). Storage: `SAVE_PLAYER_DATA` off, for which nothing is promised, and a
  connection that is lost and opened again in the middle of a transaction.
- Fights: wars, parties and zones without a world type of their own. Growth:
  rates and fractions, for which any amount stands; promotions and offline training.
- Shops: more than one ware. Talks: npcs with a script that sets their focus, and
  the responses to idling, thinking, entering and moving.
  Channels: the premium check of opening a private channel.
- Tiles: ten things, for which three stand; items are told apart by their type.
- Migrations: keys, indexes and types of columns; PostgreSQL. Paths: other floors.
  Scripts: more than one Lua state; unregistering all events of a type
  (`creature.cpp:1736`), whose order of events the module does not have.

*Not modelled:* the components with that status in `PROJECT.json`, each with its
reason. Of those in the core: the connection manager and the ports, and the game
loop, whose parts are in the modules that need them. The greater part of the
source is interfaces to Lua, tables of items, spells and vocations, and packets:
data and formulas.

## 7. Plan

1. *Done:* the modules of section 2; theorems about the threads, sessions, the
   waiting list, trades, parties and the fifteen scenes of World.
2. *Next, proofs:* Creatures, Containers and Decay, once their recursive operators are
   recursive functions over numbers, as in Talks and Growth; the sums of Inventory.
3. *Next, models:* the dispatcher's shutdown composed with Connection over the three
   locks (`flush()` holds `m_taskLock`, `sendAll` and `close()` take the others,
   `dispatcher.cpp:136`); the connection manager, around an abstract
   connection that Connection implements; a parcel for a player that logs in
   meanwhile.
4. *Abstract specifications worth stating:* `Timers` (done); a FIFO executor that
   Dispatcher implements and Session uses; an atomic swap that Trade implements
   where `BothOrNone` holds.

## 8. Running it

In this directory:

```
tlc -workers 2 -config Dispatcher.cfg MCDispatcher
tlapm QueueProofs.tla
```

and likewise for the other pairs: `DispatcherSigTerm.cfg` with `MCDispatcher`,
`Scheduler.cfg` with `MCScheduler`, `ConnectionGame.cfg` and
`ConnectionDeadlock.cfg` with `MCConnection`, `SessionReplace.cfg` and
`SessionLive.cfg` with `MCSession`, `Timed.cfg` with `MCTimed`,
`WaitingListZero.cfg` with `MCWaitingList`, `Meeting.cfg` and `TradeStack.cfg`
with `MCMeeting`, `World.cfg` with `MCWorld`; and the proofs of the eight
`*Proofs` modules.
